--------------------------- MODULE RevenueProofs ---------------------------
(***************************************************************************)
(* Proofs about RevenueLedger, for every set of creators, settlements and  *)
(* payouts and every amount, and about RevenuePayouts, for any number of   *)
(* creators, zaps, payouts, overlapping calls and crashes: types, the      *)
(* books of the ledger, the safety of payouts, and that the service        *)
(* implements CreatorAccount.                                              *)
(*                                                                         *)
(* Conservation and the reserved balance are inductive only together with  *)
(* ClosingEntriesMatchOutcome: a completion or release moves the reserved  *)
(* amount only if its unique key is not yet taken.                         *)
(*                                                                         *)
(* The heart of the service's invariant is what an answer proves.  A call  *)
(* carries an answer across awaits, so "the provider refused this payment  *)
(* for good" must still be true when the answer is handled; it is, because *)
(* a payment is dispatched once, before anybody can ask about it.          *)
(***************************************************************************)
EXTENDS RevenuePayouts, FiniteSetTheorems, TLAPS

----------------------------------------------------------------------------
(* The calls of the ledger *)

LedgerInv == /\ LedgerTypeOK
             /\ IsFiniteSet(DOMAIN payouts)
             /\ ClosingEntriesMatchOutcome
             /\ Conservation
             /\ SumsMatchRows
             /\ ReservedIsActivePayout
             /\ NeverOverdrawn

\* Any call of the ledger's methods with arguments of the right kind, which is
\* all that the lemmas need: LedgerNext and the revenue service only make such.
LedgerCall ==
  \/ \E s \in SettlementIds, k \in PayoutKeys, a \in Nat :
       CreditSettledZap(s, k, a)
  \/ \E p \in PayoutIds, k \in PayoutKeys, a \in Nat, r \in Nat :
       ReservePayout(p, k, a, r)
  \/ \E p \in PayoutIds, v \in ProviderIds, f \in Nat : CompletePayout(p, v, f)
  \/ \E p \in PayoutIds : ReleasePayout(p)
  \/ \E p \in PayoutIds, v \in ProviderIds : MarkPayoutAmbiguous(p, v)
  \/ \E k \in PayoutKeys : DeferPayout(k)
  \/ \E k \in PayoutKeys : ResolveDeferredPayouts(k)
  \/ \E p \in PayoutIds, v \in ProviderIds, f \in Nat :
       ReconcileSucceededPayoutFee(p, v, f)
  \/ \E p \in PayoutIds : SweepLegacySucceededPayoutRemainder(p)

LEMMA NextIsCall == LedgerNext => LedgerCall
<1>1. ASSUME NEW p \in PayoutIds, NEW k \in PayoutKeys,
             NEW a \in PayoutAmounts, NEW r \in Roundings, ReservePayout(p, k, a, r)
      PROVE  LedgerCall
  <2>1. a \in Nat /\ r \in Nat
    BY AmountsAssumption
  <2>2. QED BY <1>1, <2>1 DEF LedgerCall
<1>2. ZapAmounts \subseteq Nat /\ Fees \subseteq Nat
  BY AmountsAssumption
<1>3. QED BY <1>1, <1>2 DEF LedgerNext, LedgerCall

----------------------------------------------------------------------------
(* Sums over finite sets: SumFunctionOnSet of the community modules chooses  *)
(* the elements in an order of its own, so that a sum can be taken in any    *)
(* order is a theorem.                                                       *)

\* Induction over the subsets of a finite set: "good" is the set of those for
\* which what is to be shown holds.
LEMMA SubsetInduction ==
  ASSUME NEW S, IsFiniteSet(S), NEW good \in SUBSET SUBSET S,
         \A T \in SUBSET S : (\A U \in SUBSET T : U # T => U \in good) => T \in good
  PROVE  S \in good
<1> DEFINE bad == (SUBSET S) \ good
<1> SUFFICES ASSUME bad # {} PROVE FALSE
  OBVIOUS
<1>1. IsWellFoundedOn(StrictSubsetOrdering(S), SUBSET S)
  <2>1. FiniteSubsetsOf(S) = SUBSET S
    BY FS_FiniteSubsetsOfFinite
  <2>2. IsWellFoundedOn(StrictSubsetOrdering(S), FiniteSubsetsOf(S))
    BY FS_StrictSubsetOrderingWellFounded
  <2>3. QED BY <2>1, <2>2
<1>2. PICK T \in bad : \A U \in bad : <<U, T>> \notin StrictSubsetOrdering(S)
  <2> HIDE DEF bad
  <2>1. bad \subseteq SUBSET S
    BY DEF bad
  <2>2. QED BY <1>1, <2>1, WFMin
<1>3. \A U \in SUBSET T : U # T => U \in good
  BY <1>2 DEF StrictSubsetOrdering
<1>4. QED BY <1>2, <1>3

Pick(s) == CHOOSE x \in s : TRUE

\* The recursion behind SumFunctionOnSet, and a function that follows it.
SumStep(f, g, s) == IF s = {} THEN 0 ELSE f[Pick(s)] + g[s \ {Pick(s)}]
IsSum(f, g, S) == g = [s \in SUBSET S |-> SumStep(f, g, s)]
SumBy(f, S) == CHOOSE g : IsSum(f, g, S)

LEMMA SumIsChosen ==
  ASSUME NEW f, NEW S
  PROVE  SumFunctionOnSet(f, S) = SumBy(f, S)[S]
BY DEF SumFunctionOnSet, FoldFunctionOnSet, MapThenFoldSet, SumBy, IsSum, SumStep, Pick

LEMMA PickIn == ASSUME NEW s, s # {} PROVE Pick(s) \in s
BY DEF Pick

LEMMA SumUnique ==
  ASSUME NEW f, NEW S, IsFiniteSet(S), NEW g, NEW h, IsSum(f, g, S), IsSum(f, h, S)
  PROVE  g = h
<1> DEFINE good(T) == {s \in SUBSET T : g[s] = h[s]}
<1>1. ASSUME NEW T \in SUBSET S PROVE T \in good(T)
  <2>1. IsFiniteSet(T)
    BY FS_Subset
  <2>2. ASSUME NEW U \in SUBSET T, \A V \in SUBSET U : V # U => V \in good(T)
        PROVE  U \in good(T)
    <3>1. g[U] = SumStep(f, g, U) /\ h[U] = SumStep(f, h, U)
      BY DEF IsSum
    <3>2. U # {} => g[U \ {Pick(U)}] = h[U \ {Pick(U)}]
      BY <2>2, PickIn
    <3>3. QED BY <3>1, <3>2 DEF SumStep
  <2> HIDE DEF good
  <2>3. good(T) \in SUBSET SUBSET T
    BY DEF good
  <2>4. QED BY <2>1, <2>2, <2>3, SubsetInduction
<1>2. \A T \in SUBSET S : g[T] = h[T]
  BY <1>1
<1>3. DOMAIN g = SUBSET S /\ DOMAIN h = SUBSET S
  BY DEF IsSum
<1>4. g = [s \in SUBSET S |-> g[s]] /\ h = [s \in SUBSET S |-> h[s]]
  BY DEF IsSum
<1>5. QED BY <1>2, <1>4

LEMMA SumRestricted ==
  ASSUME NEW f, NEW S, NEW T \in SUBSET S, NEW g, IsSum(f, g, S)
  PROVE  IsSum(f, [s \in SUBSET T |-> g[s]], T)
<1> DEFINE h == [s \in SUBSET T |-> g[s]]
<1>1. ASSUME NEW s \in SUBSET T PROVE h[s] = SumStep(f, h, s)
  BY DEF IsSum, SumStep
<1>2. QED BY <1>1 DEF IsSum

LEMMA SumExists ==
  ASSUME NEW f, NEW S, IsFiniteSet(S)
  PROVE  IsSum(f, SumBy(f, S), S)
<1> DEFINE good == {T \in SUBSET S : \E g : IsSum(f, g, T)}
<1>1. ASSUME NEW T \in SUBSET S, \A U \in SUBSET T : U # T => U \in good
      PROVE  T \in good
  <2> DEFINE h == [s \in SUBSET T |-> SumStep(f, [u \in SUBSET s |-> SumBy(f, u)[u]], s)]
  <2>1. ASSUME NEW U \in SUBSET T, U # T
        PROVE  IsSum(f, SumBy(f, U), U)
    BY <1>1, <2>1 DEF SumBy
  <2>2. ASSUME NEW r \in SUBSET T, r # T
        PROVE  h[r] = SumBy(f, r)[r]
    <3>1. SumBy(f, r)[r] = SumStep(f, SumBy(f, r), r)
      BY <2>1, <2>2 DEF IsSum
    <3>2. CASE r = {}
      BY <3>1, <3>2 DEF SumStep
    <3>3. CASE r # {}
      <4> DEFINE q == r \ {Pick(r)}
      <4>1. q \in SUBSET r /\ q # T /\ q \in SUBSET T /\ IsFiniteSet(q)
        BY <2>2, <3>3, PickIn, FS_Subset
      <4>2. IsSum(f, [s \in SUBSET q |-> SumBy(f, r)[s]], q)
        BY <2>1, <2>2, <4>1, SumRestricted
      <4>3. IsSum(f, SumBy(f, q), q)
        BY <2>1, <4>1
      <4>4. SumBy(f, r)[q] = SumBy(f, q)[q]
        <5> HIDE DEF q
        <5>1. [s \in SUBSET q |-> SumBy(f, r)[s]] = SumBy(f, q)
          BY <4>1, <4>2, <4>3, SumUnique
        <5>2. [s \in SUBSET q |-> SumBy(f, r)[s]][q] = SumBy(f, r)[q]
          OBVIOUS
        <5>3. QED BY <5>1, <5>2
      <4>5. QED BY <3>1, <3>3, <4>1, <4>4 DEF SumStep
    <3>4. QED BY <3>2, <3>3
  <2>3. ASSUME NEW s \in SUBSET T
        PROVE  h[s] = SumStep(f, h, s)
    <3>1. s # {} => /\ s \ {Pick(s)} \in SUBSET T /\ s \ {Pick(s)} # T
                    /\ s \ {Pick(s)} \in SUBSET s
      BY PickIn
    <3>2. s # {} => h[s \ {Pick(s)}] = SumBy(f, s \ {Pick(s)})[s \ {Pick(s)}]
      BY <2>2, <3>1
    <3>3. QED BY <3>1, <3>2 DEF SumStep
  <2>4. IsSum(f, h, T)
    BY <2>3 DEF IsSum
  <2>5. QED BY <2>4
<1>2. S \in good
  <2> HIDE DEF good
  <2>1. good \in SUBSET SUBSET S
    BY DEF good
  <2>2. QED BY <1>1, <2>1, SubsetInduction
<1>3. QED BY <1>2 DEF SumBy

\* A sum is its value at any element that is picked, and the sum of the rest.
LEMMA SumFirst ==
  ASSUME NEW f, NEW S, IsFiniteSet(S)
  PROVE  /\ S = {} => SumFunctionOnSet(f, S) = 0
         /\ S # {} => /\ Pick(S) \in S
                      /\ SumFunctionOnSet(f, S)
                           = f[Pick(S)] + SumFunctionOnSet(f, S \ {Pick(S)})
<1>1. SumBy(f, S)[S] = SumStep(f, SumBy(f, S), S)
  <2>1. IsSum(f, SumBy(f, S), S)
    BY SumExists
  <2>2. S \in SUBSET S
    OBVIOUS
  <2>3. QED BY <2>1, <2>2 DEF IsSum
<1>2. ASSUME S # {} PROVE SumBy(f, S)[S \ {Pick(S)}] = SumFunctionOnSet(f, S \ {Pick(S)})
  <2> DEFINE q == S \ {Pick(S)}
  <2>1. q \in SUBSET S /\ IsFiniteSet(q)
    BY FS_Subset
  <2>2. IsSum(f, [s \in SUBSET q |-> SumBy(f, S)[s]], q) /\ IsSum(f, SumBy(f, q), q)
    BY <2>1, SumExists, SumRestricted
  <2> HIDE DEF q
  <2>3. [s \in SUBSET q |-> SumBy(f, S)[s]] = SumBy(f, q)
    BY <2>1, <2>2, SumUnique
  <2>4. [s \in SUBSET q |-> SumBy(f, S)[s]][q] = SumBy(f, S)[q]
    OBVIOUS
  <2>5. SumBy(f, S)[q] = SumFunctionOnSet(f, q)
    BY <2>3, <2>4, SumIsChosen
  <2>6. QED BY <2>5 DEF q
<1>3. SumFunctionOnSet(f, S) = SumBy(f, S)[S]
  BY SumIsChosen
<1>4. QED BY <1>1, <1>2, <1>3, PickIn DEF SumStep

LEMMA SumType ==
  ASSUME NEW f, NEW S, IsFiniteSet(S), \A x \in S : f[x] \in Int
  PROVE  SumFunctionOnSet(f, S) \in Int
<1> DEFINE good == {T \in SUBSET S : SumFunctionOnSet(f, T) \in Int}
<1>1. ASSUME NEW T \in SUBSET S, \A U \in SUBSET T : U # T => U \in good
      PROVE  T \in good
  <2>1. IsFiniteSet(T)
    BY FS_Subset
  <2>2. CASE T = {}
    <3>1. SumFunctionOnSet(f, T) = 0
      BY <2>1, <2>2, SumFirst
    <3>2. SumFunctionOnSet(f, T) \in Int
      BY <3>1
    <3>3. QED BY <3>2
  <2>3. CASE T # {}
    <3> DEFINE p == Pick(T)
    <3>1. p \in T /\ T \ {p} \in good
      BY <1>1, <2>3, PickIn
    <3>2. SumFunctionOnSet(f, T) = f[p] + SumFunctionOnSet(f, T \ {p})
      BY <2>1, <2>3, SumFirst
    <3>3. f[p] \in Int /\ SumFunctionOnSet(f, T \ {p}) \in Int
      BY <3>1
    <3> HIDE DEF p
    <3>4. SumFunctionOnSet(f, T) \in Int
      BY <3>2, <3>3
    <3>5. QED BY <3>4
  <2>4. QED BY <2>2, <2>3
<1>2. S \in good
  <2> HIDE DEF good
  <2>1. good \in SUBSET SUBSET S
    BY DEF good
  <2>2. QED BY <1>1, <2>1, SubsetInduction
<1>3. QED BY <1>2

\* A sum of zeros is zero.
LEMMA SumOfZeros ==
  ASSUME NEW f, NEW S, IsFiniteSet(S), \A x \in S : f[x] = 0
  PROVE  SumFunctionOnSet(f, S) = 0
<1> DEFINE good == {T \in SUBSET S : SumFunctionOnSet(f, T) = 0}
<1>1. ASSUME NEW T \in SUBSET S, \A U \in SUBSET T : U # T => U \in good
      PROVE  T \in good
  <2>1. IsFiniteSet(T)
    BY FS_Subset
  <2>2. CASE T = {}
    BY <2>1, <2>2, SumFirst
  <2>3. CASE T # {}
    <3> DEFINE p == Pick(T)
    <3>1. p \in T /\ T \ {p} \in good
      BY <1>1, <2>3, PickIn
    <3>2. SumFunctionOnSet(f, T) = f[p] + SumFunctionOnSet(f, T \ {p})
      BY <2>1, <2>3, SumFirst
    <3>3. f[p] = 0 /\ SumFunctionOnSet(f, T \ {p}) = 0
      BY <3>1
    <3> HIDE DEF p
    <3>4. SumFunctionOnSet(f, T) = 0
      BY <3>2, <3>3
    <3>5. QED BY <3>4
  <2>4. QED BY <2>2, <2>3
<1>2. S \in good
  <2> HIDE DEF good
  <2>1. good \in SUBSET SUBSET S
    BY DEF good
  <2>2. QED BY <1>1, <2>1, SubsetInduction
<1>3. QED BY <1>2

\* Any element may be taken out of a sum of integers.
LEMMA SumRemove ==
  ASSUME NEW f, NEW S, IsFiniteSet(S), \A x \in S : f[x] \in Int, NEW y \in S
  PROVE  SumFunctionOnSet(f, S) = f[y] + SumFunctionOnSet(f, S \ {y})
<1> DEFINE Splits(T) == \A x \in T : SumFunctionOnSet(f, T)
                                       = f[x] + SumFunctionOnSet(f, T \ {x})
           good == {T \in SUBSET S : Splits(T)}
<1>1. ASSUME NEW T \in SUBSET S, \A U \in SUBSET T : U # T => U \in good
      PROVE  T \in good
  <2> SUFFICES ASSUME NEW x \in T
               PROVE  SumFunctionOnSet(f, T) = f[x] + SumFunctionOnSet(f, T \ {x})
    OBVIOUS
  <2> DEFINE p == Pick(T)
             rest == SumFunctionOnSet(f, (T \ {p}) \ {x})
  <2>1. IsFiniteSet(T) /\ p \in T
    BY FS_Subset, PickIn
  <2>2. SumFunctionOnSet(f, T) = f[p] + SumFunctionOnSet(f, T \ {p})
    BY <2>1, SumFirst
  <2>3. CASE x = p
    BY <2>2, <2>3
  <2>4. CASE x # p
    <3>1. x \in T \ {p} /\ p \in T \ {x} /\ (T \ {x}) \ {p} = (T \ {p}) \ {x}
      BY <2>1, <2>4
    <3>2. T \ {p} \in good /\ T \ {x} \in good
      BY <1>1, <2>1
    <3>3. SumFunctionOnSet(f, T \ {p}) = f[x] + rest
      BY <3>1, <3>2
    <3>4. SumFunctionOnSet(f, T \ {x}) = f[p] + rest
      BY <3>1, <3>2
    <3>5. rest \in Int
      <4> DEFINE U == (T \ {p}) \ {x}
      <4>1. IsFiniteSet(U) /\ \A z \in U : f[z] \in Int
        BY <2>1, FS_Subset
      <4> HIDE DEF U
      <4>2. SumFunctionOnSet(f, U) \in Int
        BY <4>1, SumType
      <4>3. QED BY <4>2 DEF U
    <3>6. f[x] \in Int /\ f[p] \in Int
      BY <2>1
    <3> HIDE DEF rest, p
    <3>7. QED BY <2>2, <3>3, <3>4, <3>5, <3>6
  <2>5. QED BY <2>3, <2>4
<1>2. S \in good
  <2> HIDE DEF good
  <2>1. good \in SUBSET SUBSET S
    BY DEF good
  <2>2. QED BY <1>1, <2>1, SubsetInduction
<1>3. QED BY <1>2

\* Adding an element adds its value.
LEMMA SumAdd ==
  ASSUME NEW f, NEW S, IsFiniteSet(S), \A x \in S : f[x] \in Int,
         NEW y, y \notin S, f[y] \in Int
  PROVE  SumFunctionOnSet(f, S \cup {y}) = f[y] + SumFunctionOnSet(f, S)
<1> DEFINE T == S \cup {y}
<1>1. IsFiniteSet(T) /\ y \in T /\ T \ {y} = S /\ \A x \in T : f[x] \in Int
  BY FS_AddElement
<1> HIDE DEF T
<1>2. SumFunctionOnSet(f, T) = f[y] + SumFunctionOnSet(f, S)
  BY <1>1, SumRemove
<1>3. QED BY <1>2 DEF T

\* Only the values at the elements count.
LEMMA SumAgree ==
  ASSUME NEW f, NEW g, NEW S, IsFiniteSet(S), \A x \in S : f[x] = g[x]
  PROVE  SumFunctionOnSet(f, S) = SumFunctionOnSet(g, S)
<1> DEFINE good == {T \in SUBSET S : SumFunctionOnSet(f, T) = SumFunctionOnSet(g, T)}
<1>1. ASSUME NEW T \in SUBSET S, \A U \in SUBSET T : U # T => U \in good
      PROVE  T \in good
  <2>1. IsFiniteSet(T)
    BY FS_Subset
  <2>2. CASE T = {}
    BY <2>1, <2>2, SumFirst
  <2>3. CASE T # {}
    <3> DEFINE p == Pick(T)
    <3>1. p \in T /\ T \ {p} \in good /\ f[p] = g[p]
      BY <1>1, <2>3, PickIn
    <3>2. SumFunctionOnSet(f, T) = f[p] + SumFunctionOnSet(f, T \ {p})
      BY <2>1, <2>3, SumFirst
    <3>3. SumFunctionOnSet(g, T) = g[p] + SumFunctionOnSet(g, T \ {p})
      BY <2>1, <2>3, SumFirst
    <3>4. SumFunctionOnSet(f, T \ {p}) = SumFunctionOnSet(g, T \ {p})
      BY <3>1
    <3> HIDE DEF p
    <3>5. SumFunctionOnSet(f, T) = SumFunctionOnSet(g, T)
      BY <3>1, <3>2, <3>3, <3>4
    <3>6. QED BY <3>5
  <2>4. QED BY <2>2, <2>3
<1>2. S \in good
  <2> HIDE DEF good
  <2>1. good \in SUBSET SUBSET S
    BY DEF good
  <2>2. QED BY <1>1, <2>1, SubsetInduction
<1>3. QED BY <1>2

\* A change at one element changes the sum by as much.
LEMMA SumChange ==
  ASSUME NEW f, NEW g, NEW S, IsFiniteSet(S), NEW y \in S,
         \A x \in S : f[x] \in Int /\ g[x] \in Int,
         \A x \in S \ {y} : f[x] = g[x]
  PROVE  SumFunctionOnSet(g, S) = SumFunctionOnSet(f, S) - f[y] + g[y]
<1> DEFINE T == S \ {y}
<1>1. IsFiniteSet(T) /\ \A x \in T : f[x] = g[x] /\ f[x] \in Int
  BY FS_Subset
<1>2. SumFunctionOnSet(f, S) = f[y] + SumFunctionOnSet(f, T)
  BY SumRemove
<1>3. SumFunctionOnSet(g, S) = g[y] + SumFunctionOnSet(g, T)
  BY SumRemove
<1> HIDE DEF T
<1>4. SumFunctionOnSet(f, T) = SumFunctionOnSet(g, T) /\ SumFunctionOnSet(f, T) \in Int
  BY <1>1, SumAgree, SumType
<1>5. QED BY <1>2, <1>3, <1>4

----------------------------------------------------------------------------

\* The creator's 70 percent, rounded down, and Wired's rest are both natural
\* numbers and make up the zap (creditSettledZap).
LEMMA ShareSplit ==
  ASSUME NEW a \in Nat
  PROVE  CreatorShare(a) \in Nat /\ a - CreatorShare(a) \in Nat
BY SMT DEF CreatorShare

\* What posting entries does to the sums, with the types of its arguments.
LEMMA PostType ==
  ASSUME LedgerTypeOK, NEW k \in PayoutKeys,
         NEW a \in Int, NEW r \in Int, NEW d \in Int, NEW w \in Int,
         Post(k, a, r, d, w)
  PROVE  /\ balance' \in [PayoutKeys -> [available : Int, reserved : Int, paid : Int]]
         /\ wired' \in Int
         /\ ledgerTotal' \in Int
         /\ ledgerTotal' = ledgerTotal + a + r + d + w
         /\ balance'[k].available = balance[k].available + a
         /\ balance'[k].reserved = balance[k].reserved + r
         /\ \A j \in PayoutKeys \ {k} : balance'[j] = balance[j]
BY DEF Post, LedgerTypeOK

\* The amounts of a payout row, and what is posted of them, are natural numbers.
LEMMA RowAmounts ==
  ASSUME NEW row \in PayoutRow
  PROVE  row.key \in PayoutKeys /\ row.amount \in Nat /\ row.rounding \in Nat
         /\ row.fee \in Nat
BY DEF PayoutRow

LEMMA PostedAmount ==
  ASSUME NEW kind, NEW p, NEW a \in Nat
  PROVE  IfFresh(kind, p, a) \in Nat
BY DEF IfFresh

\* Writing one field of a row at a time.
LEMMA RowFieldWrites ==
  ASSUME NEW row \in PayoutRow
  PROVE  /\ \A s \in {"ambiguous", "succeeded"} :
              LET t == [row EXCEPT !.state = s]
              IN  /\ t \in PayoutRow /\ t.state = s /\ t.fee = row.fee
                  /\ t.key = row.key /\ t.amount = row.amount
         /\ \A v \in ProviderIds :
              LET t == [row EXCEPT !.provider = v]
              IN  /\ t \in PayoutRow /\ t.state = row.state /\ t.fee = row.fee
                  /\ t.key = row.key /\ t.amount = row.amount
         /\ \A f \in Nat :
              LET t == [row EXCEPT !.fee = f]
              IN  /\ t \in PayoutRow /\ t.state = row.state /\ t.fee = f
                  /\ t.key = row.key /\ t.amount = row.amount
BY DEF PayoutRow

\* The row markPayoutAmbiguous writes is a row of the schema.
LEMMA AmbiguousRow ==
  ASSUME NEW row \in PayoutRow, NEW v \in ProviderIds
  PROVE  [row EXCEPT !.state = "ambiguous", !.provider = v] \in PayoutRow
<1> DEFINE t == [row EXCEPT !.state = "ambiguous"]
<1>1. t \in PayoutRow
  BY RowFieldWrites
<1>2. [row EXCEPT !.state = "ambiguous", !.provider = v] = [t EXCEPT !.provider = v]
  OBVIOUS
<1> HIDE DEF t
<1>3. [t EXCEPT !.provider = v] \in PayoutRow
  BY <1>1, RowFieldWrites
<1>4. QED BY <1>2, <1>3

\* So is the row completePayout writes; it keeps the key and the amounts.
CompletedRow(row, v, f) == [row EXCEPT !.state = "succeeded", !.provider = v, !.fee = f]
LEMMA CompletedRowType ==
  ASSUME NEW row \in PayoutRow, NEW v \in ProviderIds, NEW f \in Nat
  PROVE  LET done == CompletedRow(row, v, f)
         IN  /\ done \in PayoutRow
             /\ done.state = "succeeded" /\ done.fee = f
             /\ done.key = row.key /\ done.amount = row.amount
<1> DEFINE paid == [row EXCEPT !.state = "succeeded"]
           known == [paid EXCEPT !.provider = v]
<1>1. /\ paid \in PayoutRow /\ paid.state = "succeeded"
      /\ paid.key = row.key /\ paid.amount = row.amount
  BY RowFieldWrites
<1>2. CompletedRow(row, v, f) = [known EXCEPT !.fee = f]
  BY DEF CompletedRow
<1> HIDE DEF paid
<1>3. /\ known \in PayoutRow /\ known.state = "succeeded"
      /\ known.key = row.key /\ known.amount = row.amount
  BY <1>1, RowFieldWrites
<1> HIDE DEF known
<1> DEFINE done == [known EXCEPT !.fee = f]
<1>4. /\ done \in PayoutRow /\ done.state = "succeeded" /\ done.fee = f
      /\ done.key = row.key /\ done.amount = row.amount
  BY <1>3, RowFieldWrites
<1>5. CompletedRow(row, v, f) = done
  BY <1>2
<1> HIDE DEF done
<1>6. QED BY <1>4, <1>5

\* Every ledger call leaves rows of the schema and integer sums behind.
LEMMA LedgerTypeStep == LedgerTypeOK /\ [LedgerCall]_ledgerVars => LedgerTypeOK'
<1> SUFFICES ASSUME LedgerTypeOK, [LedgerCall]_ledgerVars
             PROVE  LedgerTypeOK'
  OBVIOUS
<1>1. ASSUME NEW s \in SettlementIds, NEW k \in PayoutKeys, NEW a \in Nat,
             CreditSettledZap(s, k, a)
      PROVE  LedgerTypeOK'
  <2>1. a \in Nat /\ CreatorShare(a) \in Nat /\ a - CreatorShare(a) \in Nat
    BY ShareSplit
  <2>2. Post(k, CreatorShare(a), 0, 0, a - CreatorShare(a))
    BY <1>1 DEF CreditSettledZap
  <2>3. balance' \in [PayoutKeys -> [available : Int, reserved : Int, paid : Int]]
        /\ wired' \in Int /\ ledgerTotal' \in Int
    BY <2>1, <2>2, PostType
  <2>4. QED BY <1>1, <2>1, <2>3 DEF CreditSettledZap, LedgerTypeOK
<1>2. ASSUME NEW p \in PayoutIds, NEW k \in PayoutKeys,
             NEW a \in Nat, NEW r \in Nat,
             ReservePayout(p, k, a, r)
      PROVE  LedgerTypeOK'
  <2>1. a \in Nat /\ r \in Nat /\ r \in Nat
    BY <1>2 DEF ReservePayout, CanReserve, WithReserved, PostReserve
  <2>2. ASSUME NEW q \in DOMAIN payouts'
        PROVE  q \in PayoutIds /\ payouts'[q] \in PayoutRow
    <3>1. CASE q = p
      BY <1>2, <2>1, <3>1 DEF ReservePayout, CanReserve, WithReserved, PostReserve, PayoutRow
    <3>2. CASE q # p
      BY <1>2, <3>2 DEF ReservePayout, CanReserve, WithReserved, PostReserve, LedgerTypeOK
    <3>3. QED BY <3>1, <3>2
  <2>3. balance' \in [PayoutKeys -> [available : Int, reserved : Int, paid : Int]]
        /\ wired' \in Int /\ ledgerTotal' \in Int
    BY <1>2, <2>1, PostType DEF ReservePayout, CanReserve, WithReserved, PostReserve
  <2>4. entries' \subseteq EntryKinds \X PayoutIds
    BY <1>2 DEF ReservePayout, CanReserve, WithReserved, PostReserve, LedgerTypeOK, EntryKinds
  <2>5. QED BY <1>2, <2>2, <2>3, <2>4 DEF ReservePayout, CanReserve, WithReserved, PostReserve, LedgerTypeOK
<1>3. ASSUME NEW p \in PayoutIds, NEW v \in ProviderIds, NEW f \in Nat,
             CompletePayout(p, v, f)
      PROVE  LedgerTypeOK'
  <2> DEFINE row == payouts[p]
             paid == IfFresh("complete", p, row.amount)
             dust == IfFresh("rounding-complete", p, row.rounding)
             cost == IfFresh("complete", p, f)
  <2>1. f \in Nat /\ row \in PayoutRow /\ p \in DOMAIN payouts
    BY <1>3 DEF CompletePayout, Active, LedgerTypeOK
  <2>2. row.key \in PayoutKeys /\ paid \in Int /\ dust \in Int /\ cost \in Int
    BY <2>1, RowAmounts, PostedAmount
  <2>3. Post(row.key, 0, -(paid + dust), paid, dust - cost)
    BY <1>3 DEF CompletePayout
  <2>4. balance' \in [PayoutKeys -> [available : Int, reserved : Int, paid : Int]]
        /\ wired' \in Int /\ ledgerTotal' \in Int
    <3> HIDE DEF row, paid, dust, cost
    <3>1. QED BY <2>2, <2>3, PostType
  <2>5. ASSUME NEW q \in DOMAIN payouts'
        PROVE  q \in PayoutIds /\ payouts'[q] \in PayoutRow
    <3>1. CASE q = p
      BY <1>3, <2>1, <3>1 DEF CompletePayout, PayoutRow
    <3>2. CASE q # p
      BY <1>3, <3>2 DEF CompletePayout, LedgerTypeOK
    <3>3. QED BY <3>1, <3>2
  <2>6. entries' \subseteq EntryKinds \X PayoutIds
    BY <1>3 DEF CompletePayout, LedgerTypeOK, EntryKinds
  <2>7. QED BY <1>3, <2>1, <2>4, <2>5, <2>6 DEF CompletePayout, LedgerTypeOK
<1>4. ASSUME NEW p \in PayoutIds, ReleasePayout(p)
      PROVE  LedgerTypeOK'
  <2> DEFINE row == payouts[p]
             back == IfFresh("release", p, row.amount)
                     + IfFresh("rounding-release", p, row.rounding)
  <2>1. row \in PayoutRow /\ p \in DOMAIN payouts
    BY <1>4 DEF ReleasePayout, Active, LedgerTypeOK
  <2>2. row.key \in PayoutKeys /\ back \in Int
    BY <2>1, RowAmounts, PostedAmount
  <2>3. Post(row.key, back, -back, 0, 0)
    BY <1>4 DEF ReleasePayout
  <2>4. balance' \in [PayoutKeys -> [available : Int, reserved : Int, paid : Int]]
        /\ wired' \in Int /\ ledgerTotal' \in Int
    <3> HIDE DEF row, back
    <3>1. QED BY <2>2, <2>3, PostType
  <2>5. ASSUME NEW q \in DOMAIN payouts'
        PROVE  q \in PayoutIds /\ payouts'[q] \in PayoutRow
    <3>1. CASE q = p
      BY <1>4, <2>1, <3>1 DEF ReleasePayout, PayoutRow
    <3>2. CASE q # p
      BY <1>4, <3>2 DEF ReleasePayout, LedgerTypeOK
    <3>3. QED BY <3>1, <3>2
  <2>6. entries' \subseteq EntryKinds \X PayoutIds
    BY <1>4 DEF ReleasePayout, LedgerTypeOK, EntryKinds
  <2>7. QED BY <1>4, <2>4, <2>5, <2>6 DEF ReleasePayout, LedgerTypeOK
<1>5. ASSUME NEW p \in PayoutIds, NEW v \in ProviderIds, MarkPayoutAmbiguous(p, v)
      PROVE  LedgerTypeOK'
  <2>1. ASSUME NEW q \in DOMAIN payouts'
        PROVE  q \in PayoutIds /\ payouts'[q] \in PayoutRow
    <3>1. CASE q = p
      <4>1. payouts[p] \in PayoutRow
        BY <1>5 DEF MarkPayoutAmbiguous, Active, LedgerTypeOK
      <4>2. payouts'[p] = [payouts[p] EXCEPT !.state = "ambiguous", !.provider = v]
        BY <1>5 DEF MarkPayoutAmbiguous, Active
      <4>3. payouts'[p] \in PayoutRow
        BY <4>1, <4>2, AmbiguousRow
      <4>4. QED BY <3>1, <4>3
    <3>2. CASE q # p
      BY <1>5, <3>2 DEF MarkPayoutAmbiguous, LedgerTypeOK
    <3>3. QED BY <3>1, <3>2
  <2>2. QED BY <1>5, <2>1 DEF MarkPayoutAmbiguous, LedgerTypeOK, sums
<1>6. ASSUME NEW k \in PayoutKeys, DeferPayout(k)
      PROVE  LedgerTypeOK'
  BY <1>6 DEF DeferPayout, LedgerTypeOK, sums
<1>7. ASSUME NEW k \in PayoutKeys, ResolveDeferredPayouts(k)
      PROVE  LedgerTypeOK'
  <2>1. ASSUME NEW q \in DOMAIN payouts'
        PROVE  q \in PayoutIds /\ payouts'[q] \in PayoutRow
    <3>1. q \in DOMAIN payouts /\ payouts[q] \in PayoutRow
      BY <1>7 DEF ResolveDeferredPayouts, ResolvedRows, LedgerTypeOK
    <3>2. payouts'[q] = payouts[q]
          \/ payouts'[q] = [payouts[q] EXCEPT !.state = "resolved"]
      BY <1>7, <3>1 DEF ResolveDeferredPayouts, ResolvedRows
    <3>3. QED BY <3>1, <3>2 DEF PayoutRow, LedgerTypeOK
  <2>2. QED BY <1>7, <2>1
          DEF ResolveDeferredPayouts, ResolvedRows, ResolvedDeferral, LedgerTypeOK, sums
<1>8. ASSUME NEW p \in PayoutIds, NEW v \in ProviderIds, NEW f \in Nat,
             ReconcileSucceededPayoutFee(p, v, f)
      PROVE  LedgerTypeOK'
  <2>1. f \in Nat /\ payouts[p] \in PayoutRow /\ p \in DOMAIN payouts
    BY <1>8
       DEF ReconcileSucceededPayoutFee, Succeeded, LedgerTypeOK
  <2>2. payouts[p].key \in PayoutKeys /\ payouts[p].fee - f \in Int
    BY <2>1 DEF PayoutRow
  <2>3. balance' \in [PayoutKeys -> [available : Int, reserved : Int, paid : Int]]
        /\ wired' \in Int /\ ledgerTotal' \in Int
    <3>1. Post(payouts[p].key, 0, 0, 0, payouts[p].fee - f)
      BY <1>8 DEF ReconcileSucceededPayoutFee
    <3>2. QED BY <2>2, <3>1, PostType
  <2>4. \A q \in DOMAIN payouts' : payouts'[q] \in PayoutRow
    BY <1>8, <2>1 DEF ReconcileSucceededPayoutFee, LedgerTypeOK, PayoutRow
  <2>5. entries' \subseteq EntryKinds \X PayoutIds
    BY <1>8 DEF ReconcileSucceededPayoutFee, LedgerTypeOK, EntryKinds
  <2>6. payoutFees' \in Int
    BY <1>8, <2>1 DEF ReconcileSucceededPayoutFee, LedgerTypeOK, PayoutRow
  <2>7. QED BY <1>8, <2>3, <2>4, <2>5, <2>6
          DEF ReconcileSucceededPayoutFee, LedgerTypeOK
<1>9. ASSUME NEW p \in PayoutIds, SweepLegacySucceededPayoutRemainder(p)
      PROVE  LedgerTypeOK'
  <2>1. payouts[p] \in PayoutRow /\ payouts[p].key \in PayoutKeys
    BY <1>9 DEF SweepLegacySucceededPayoutRemainder, Succeeded, LedgerTypeOK, PayoutRow
  <2>2. balance[payouts[p].key].available \in Int
    BY <2>1 DEF LedgerTypeOK
  <2>3. balance' \in [PayoutKeys -> [available : Int, reserved : Int, paid : Int]]
        /\ wired' \in Int /\ ledgerTotal' \in Int
    <3> DEFINE left == balance[payouts[p].key].available
    <3>1. Post(payouts[p].key, -left, 0, 0, left)
      BY <1>9 DEF SweepLegacySucceededPayoutRemainder
    <3> HIDE DEF left
    <3>2. PICK k \in PayoutKeys, a \in Int, b \in Int, w \in Int :
            k = payouts[p].key /\ a = -left /\ b = 0 /\ w = left
      <4>1. left \in Int
        BY <2>2 DEF left
      <4>2. QED BY <2>1, <4>1
    <3>3. Post(k, a, b, b, w)
      BY <3>1, <3>2
    <3>4. QED BY <3>2, <3>3, PostType
  <2>4. QED BY <1>9, <2>3
          DEF SweepLegacySucceededPayoutRemainder, LedgerTypeOK, EntryKinds
<1>10. CASE UNCHANGED ledgerVars
  BY <1>10 DEF ledgerVars, tables, sums, LedgerTypeOK
<1>11. QED
  BY <1>1, <1>2, <1>3, <1>4, <1>5, <1>6, <1>7, <1>8, <1>9, <1>10 DEF LedgerCall

\* Type correctness of the ledger tables and sums in every reachable state.
THEOREM LedgerTypeInvariant == LedgerSpec => []LedgerTypeOK
<1>1. LedgerInit => LedgerTypeOK
  BY DEF LedgerInit, LedgerTypeOK
<1>2. LedgerTypeOK /\ [LedgerNext]_ledgerVars => LedgerTypeOK'
  BY LedgerTypeStep, NextIsCall
<1>3. QED BY <1>1, <1>2, PTL DEF LedgerSpec
----------------------------------------------------------------------------

\* A key whose active payout, its amounts and its reserve a call leaves alone
\* stays reserved for that payout.
LEMMA ReservedFrame ==
  ASSUME NEW k \in PayoutKeys, ReservedFor(k),
         ActiveOf(k)' = ActiveOf(k),
         balance'[k].reserved = balance[k].reserved,
         \A q \in ActiveOf(k) : /\ payouts'[q].amount = payouts[q].amount
                                /\ payouts'[q].rounding = payouts[q].rounding
  PROVE  ReservedFor(k)'
BY DEF ReservedFor

\* The closing entries of every payout match its row after every ledger call.
LEMMA ClosingStep ==
  LedgerTypeOK /\ ClosingEntriesMatchOutcome /\ [LedgerCall]_ledgerVars
    => ClosingEntriesMatchOutcome'
<1> SUFFICES ASSUME LedgerTypeOK, ClosingEntriesMatchOutcome, [LedgerCall]_ledgerVars
             PROVE  ClosingEntriesMatchOutcome'
  OBVIOUS
<1> USE DEF Fresh, Succeeded, Released
<1>1. ASSUME NEW s \in SettlementIds, NEW k \in PayoutKeys, NEW a \in Nat,
             CreditSettledZap(s, k, a)
      PROVE  ClosingEntriesMatchOutcome'
  BY <1>1 DEF CreditSettledZap, ClosingEntriesMatchOutcome, ClosingFor
<1>2. ASSUME NEW p \in PayoutIds, NEW k \in PayoutKeys,
             NEW a \in Nat, NEW r \in Nat,
             ReservePayout(p, k, a, r)
      PROVE  ClosingEntriesMatchOutcome'
  BY <1>2 DEF ReservePayout, CanReserve, WithReserved, PostReserve, ClosingEntriesMatchOutcome, ClosingFor
<1>3. ASSUME NEW p \in PayoutIds, NEW v \in ProviderIds, NEW f \in Nat,
             CompletePayout(p, v, f)
      PROVE  ClosingEntriesMatchOutcome'
  <2> SUFFICES ASSUME NEW q \in PayoutIds PROVE ClosingFor(q)'
    BY DEF ClosingEntriesMatchOutcome
  <2>1. ClosingFor(q)
    BY DEF ClosingEntriesMatchOutcome
  <2>2. entries' \subseteq entries \cup {<<"complete", p>>, <<"rounding-complete", p>>}
    BY <1>3 DEF CompletePayout
  <2>3. Active(p) /\ payouts' = [payouts EXCEPT ![p].state = "succeeded",
                                 ![p].provider = v, ![p].fee = f]
    BY <1>3 DEF CompletePayout
  <2>4. CASE q = p
    <3>1. Succeeded(p)' /\ ~Released(p)
      <4>1. p \in DOMAIN payouts /\ payouts[p] \in PayoutRow
        BY <2>3 DEF Active, LedgerTypeOK
      <4>2. QED BY <2>3, <4>1 DEF Active, PayoutRow
    <3>2. QED BY <2>1, <2>2, <2>4, <3>1 DEF ClosingFor
  <2>5. CASE q # p
    <3>1. (Succeeded(q)' <=> Succeeded(q)) /\ (Released(q)' <=> Released(q))
      BY <2>3, <2>5 DEF Active
    <3>2. QED BY <2>1, <2>2, <2>5, <3>1 DEF ClosingFor
  <2>6. QED BY <2>4, <2>5
<1>4. ASSUME NEW p \in PayoutIds, ReleasePayout(p)
      PROVE  ClosingEntriesMatchOutcome'
  <2> SUFFICES ASSUME NEW q \in PayoutIds PROVE ClosingFor(q)'
    BY DEF ClosingEntriesMatchOutcome
  <2>1. ClosingFor(q)
    BY DEF ClosingEntriesMatchOutcome
  <2>2. entries' \subseteq entries \cup {<<"release", p>>, <<"rounding-release", p>>}
    BY <1>4 DEF ReleasePayout
  <2>3. Active(p) /\ payouts' = [payouts EXCEPT ![p].state = "deferred"]
    BY <1>4 DEF ReleasePayout
  <2>4. CASE q = p
    <3>1. Released(p)' /\ ~Succeeded(p)
      <4>1. p \in DOMAIN payouts /\ payouts[p] \in PayoutRow
        BY <2>3 DEF Active, LedgerTypeOK
      <4>2. QED BY <2>3, <4>1 DEF Active, PayoutRow
    <3>2. QED BY <2>1, <2>2, <2>4, <3>1 DEF ClosingFor
  <2>5. CASE q # p
    <3>1. (Succeeded(q)' <=> Succeeded(q)) /\ (Released(q)' <=> Released(q))
      BY <2>3, <2>5 DEF Active
    <3>2. QED BY <2>1, <2>2, <2>5, <3>1 DEF ClosingFor
  <2>6. QED BY <2>4, <2>5
<1>5. ASSUME NEW p \in PayoutIds, NEW v \in ProviderIds, MarkPayoutAmbiguous(p, v)
      PROVE  ClosingEntriesMatchOutcome'
  BY <1>5 DEF MarkPayoutAmbiguous, Active, ClosingEntriesMatchOutcome, ClosingFor
<1>6. ASSUME NEW k \in PayoutKeys, DeferPayout(k)
      PROVE  ClosingEntriesMatchOutcome'
  BY <1>6 DEF DeferPayout, ClosingEntriesMatchOutcome, ClosingFor
<1>7. ASSUME NEW k \in PayoutKeys, ResolveDeferredPayouts(k)
      PROVE  ClosingEntriesMatchOutcome'
  <2> SUFFICES ASSUME NEW q \in PayoutIds PROVE ClosingFor(q)'
    BY DEF ClosingEntriesMatchOutcome
  <2>1. entries' = entries /\ payouts' = ResolvedRows(payouts, k)
    BY <1>7 DEF ResolveDeferredPayouts
  <2>2. (Succeeded(q)' <=> Succeeded(q)) /\ (Released(q)' <=> Released(q))
    BY <2>1 DEF ResolvedRows
  <2>3. QED BY <2>1, <2>2 DEF ClosingEntriesMatchOutcome, ClosingFor
<1>8. ASSUME NEW p \in PayoutIds, NEW v \in ProviderIds, NEW f \in Nat,
             ReconcileSucceededPayoutFee(p, v, f)
      PROVE  ClosingEntriesMatchOutcome'
  <2> SUFFICES ASSUME NEW q \in PayoutIds PROVE ClosingFor(q)'
    BY DEF ClosingEntriesMatchOutcome
  <2>1. entries' = entries \cup {<<"fee-adjustment", p>>}
        /\ payouts' = [payouts EXCEPT ![p].fee = f]
    BY <1>8 DEF ReconcileSucceededPayoutFee
  <2>2. (Succeeded(q)' <=> Succeeded(q)) /\ (Released(q)' <=> Released(q))
    BY <2>1
  <2>3. QED BY <2>1, <2>2 DEF ClosingEntriesMatchOutcome, ClosingFor
<1>9. ASSUME NEW p \in PayoutIds, SweepLegacySucceededPayoutRemainder(p)
      PROVE  ClosingEntriesMatchOutcome'
  <2> SUFFICES ASSUME NEW q \in PayoutIds PROVE ClosingFor(q)'
    BY DEF ClosingEntriesMatchOutcome
  <2>1. entries' = entries \cup {<<"legacy-rounding-complete", p>>} /\ payouts' = payouts
    BY <1>9 DEF SweepLegacySucceededPayoutRemainder
  <2>2. QED BY <2>1 DEF ClosingEntriesMatchOutcome, ClosingFor
<1>10. CASE UNCHANGED ledgerVars
  BY <1>10 DEF ledgerVars, tables, ClosingEntriesMatchOutcome, ClosingFor
<1>11. QED
  BY <1>1, <1>2, <1>3, <1>4, <1>5, <1>6, <1>7, <1>8, <1>9, <1>10 DEF LedgerCall

\* The conservation check stays zero: a credit books the whole zap, a completion
\* or fee correction books exactly the fee it records, every other call moves
\* millisatoshi between balances.
LEMMA ConservationStep ==
  LedgerTypeOK /\ ClosingEntriesMatchOutcome /\ Conservation /\ [LedgerCall]_ledgerVars
    => Conservation'
<1> SUFFICES ASSUME LedgerTypeOK, ClosingEntriesMatchOutcome, Conservation,
                    [LedgerCall]_ledgerVars
             PROVE  Conservation'
  OBVIOUS
<1>0. grossSettled \in Int /\ payoutFees \in Int /\ ledgerTotal \in Int
      /\ grossSettled - payoutFees - ledgerTotal = 0
  BY DEF LedgerTypeOK, Conservation
<1>1. ASSUME NEW s \in SettlementIds, NEW k \in PayoutKeys, NEW a \in Nat,
             CreditSettledZap(s, k, a)
      PROVE  Conservation'
  <2>1. a \in Nat /\ CreatorShare(a) \in Nat
    BY ShareSplit
  <2>2. grossSettled' = grossSettled + a /\ payoutFees' = payoutFees
        /\ ledgerTotal' = ledgerTotal + CreatorShare(a) + 0 + 0 + (a - CreatorShare(a))
    BY <1>1 DEF CreditSettledZap, Post
  <2>3. QED BY <1>0, <2>1, <2>2 DEF Conservation
<1>2. ASSUME NEW p \in PayoutIds, NEW k \in PayoutKeys,
             NEW a \in Nat, NEW r \in Nat,
             ReservePayout(p, k, a, r)
      PROVE  Conservation'
  <2>1. a \in Nat /\ r \in Nat
    BY <1>2 DEF ReservePayout, CanReserve, WithReserved, PostReserve
  <2>2. grossSettled' = grossSettled /\ payoutFees' = payoutFees
        /\ ledgerTotal' = ledgerTotal + (-(a + r)) + (a + r) + 0 + 0
    BY <1>2 DEF ReservePayout, CanReserve, WithReserved, PostReserve, Post
  <2>3. QED BY <1>0, <2>1, <2>2 DEF Conservation
<1>3. ASSUME NEW p \in PayoutIds, NEW v \in ProviderIds, NEW f \in Nat,
             CompletePayout(p, v, f)
      PROVE  Conservation'
  <2> DEFINE amount == payouts[p].amount
             dust == IfFresh("rounding-complete", p, payouts[p].rounding)
  <2>1. Active(p) /\ payouts[p] \in PayoutRow
    BY <1>3 DEF CompletePayout, Active, LedgerTypeOK
  <2>2. amount \in Int /\ dust \in Int /\ f \in Int
    BY <2>1, RowAmounts, PostedAmount
  <2>3. Fresh("complete", p)
    BY <2>1 DEF ClosingEntriesMatchOutcome, ClosingFor, Active, Succeeded
  <2>4. grossSettled' = grossSettled /\ payoutFees' = payoutFees + f
        /\ ledgerTotal' = ledgerTotal + 0 + (-(amount + dust)) + amount + (dust - f)
    BY <1>3, <2>3 DEF CompletePayout, Post, IfFresh
  <2> HIDE DEF amount, dust
  <2>5. QED BY <1>0, <2>2, <2>4 DEF Conservation
<1>4. ASSUME NEW p \in PayoutIds, ReleasePayout(p)
      PROVE  Conservation'
  <2> DEFINE back == IfFresh("release", p, payouts[p].amount)
                     + IfFresh("rounding-release", p, payouts[p].rounding)
  <2>1. payouts[p] \in PayoutRow
    BY <1>4 DEF ReleasePayout, Active, LedgerTypeOK
  <2>2. back \in Int
    BY <2>1, RowAmounts, PostedAmount
  <2>3. grossSettled' = grossSettled /\ payoutFees' = payoutFees
        /\ ledgerTotal' = ledgerTotal + back + (-back) + 0 + 0
    BY <1>4 DEF ReleasePayout, Post
  <2> HIDE DEF back
  <2>4. QED BY <1>0, <2>2, <2>3 DEF Conservation
<1>5. ASSUME NEW p \in PayoutIds, NEW v \in ProviderIds, MarkPayoutAmbiguous(p, v)
      PROVE  Conservation'
  BY <1>5 DEF MarkPayoutAmbiguous, sums, Conservation
<1>6. ASSUME NEW k \in PayoutKeys, DeferPayout(k)
      PROVE  Conservation'
  BY <1>6 DEF DeferPayout, sums, Conservation
<1>7. ASSUME NEW k \in PayoutKeys, ResolveDeferredPayouts(k)
      PROVE  Conservation'
  BY <1>7 DEF ResolveDeferredPayouts, sums, Conservation
<1>8. ASSUME NEW p \in PayoutIds, NEW v \in ProviderIds, NEW f \in Nat,
             ReconcileSucceededPayoutFee(p, v, f)
      PROVE  Conservation'
  <2>1. payouts[p] \in PayoutRow
    BY <1>8 DEF ReconcileSucceededPayoutFee, Succeeded, LedgerTypeOK
  <2>2. payouts[p].fee \in Int /\ f \in Int
    BY <2>1 DEF PayoutRow
  <2>3. grossSettled' = grossSettled
        /\ payoutFees' = payoutFees + f - payouts[p].fee
        /\ ledgerTotal' = ledgerTotal + 0 + 0 + 0 + (payouts[p].fee - f)
    BY <1>8 DEF ReconcileSucceededPayoutFee, Post
  <2>4. QED BY <1>0, <2>2, <2>3 DEF Conservation
<1>9. ASSUME NEW p \in PayoutIds, SweepLegacySucceededPayoutRemainder(p)
      PROVE  Conservation'
  <2> DEFINE left == balance[payouts[p].key].available
  <2>1. payouts[p].key \in PayoutKeys
    BY <1>9 DEF SweepLegacySucceededPayoutRemainder, Succeeded, LedgerTypeOK, PayoutRow
  <2>2. left \in Int
    BY <2>1 DEF LedgerTypeOK
  <2>3. grossSettled' = grossSettled /\ payoutFees' = payoutFees
        /\ ledgerTotal' = ledgerTotal + (-left) + 0 + 0 + left
    BY <1>9 DEF SweepLegacySucceededPayoutRemainder, Post
  <2> HIDE DEF left
  <2>4. QED BY <1>0, <2>2, <2>3 DEF Conservation
<1>10. CASE UNCHANGED ledgerVars
  BY <1>10 DEF ledgerVars, sums, Conservation
<1>11. QED
  BY <1>1, <1>2, <1>3, <1>4, <1>5, <1>6, <1>7, <1>8, <1>9, <1>10 DEF LedgerCall

\* Closing the active payout p of key k with its whole reservation leaves k with
\* no active payout and nothing reserved (completePayout and releasePayout).
LEMMA CloseReserved ==
  ASSUME LedgerTypeOK, NEW p \in PayoutIds, NEW k \in PayoutKeys,
         Active(p), payouts[p].key = k, ReservedFor(k),
         NEW row, DOMAIN payouts' = DOMAIN payouts,
         payouts' = [payouts EXCEPT ![p] = row],
         row.state \notin {"attempting", "ambiguous"},
         balance'[k].reserved
           = balance[k].reserved - (payouts[p].amount + payouts[p].rounding)
  PROVE  ReservedFor(k)'
<1>1. p \in ActiveOf(k)
  BY DEF ActiveOf, Active
<1>2. ActiveOf(k) = {p} /\ balance[k].reserved = payouts[p].amount + payouts[p].rounding
  BY <1>1 DEF ReservedFor
<1>3. ActiveOf(k)' = {}
  <2> SUFFICES ASSUME NEW q \in DOMAIN payouts', payouts'[q].key = k, Active(q)'
               PROVE  FALSE
    BY DEF ActiveOf
  <2>1. q # p
    BY DEF Active
  <2>2. q \in ActiveOf(k)
    BY <2>1 DEF ActiveOf, Active
  <2>3. QED BY <1>2, <2>1, <2>2
<1>4. payouts[p] \in PayoutRow
  BY DEF Active, LedgerTypeOK
<1>5. balance'[k].reserved = 0
  BY <1>2, <1>4, RowAmounts
<1>6. QED BY <1>3, <1>5 DEF ReservedFor

BalanceOK(k) == ReservedFor(k) /\ balance[k].available >= 0

\* Every ledger call keeps each key's reserve equal to its active payout and its
\* available balance non-negative.
LEMMA BalanceStep ==
  LedgerInv /\ [LedgerCall]_ledgerVars => ReservedIsActivePayout' /\ NeverOverdrawn'
<1> SUFFICES ASSUME LedgerInv, [LedgerCall]_ledgerVars, NEW j \in PayoutKeys
             PROVE  BalanceOK(j)'
  BY DEF BalanceOK, ReservedIsActivePayout, NeverOverdrawn
<1>0. LedgerTypeOK /\ ClosingEntriesMatchOutcome /\ BalanceOK(j)
      /\ balance[j].available \in Int /\ balance[j].reserved \in Int
  BY DEF LedgerInv, BalanceOK, ReservedIsActivePayout, NeverOverdrawn, LedgerTypeOK
<1>a. LedgerTypeOK'
  BY <1>0, LedgerTypeStep
<1>f. ASSUME balance'[j].reserved = balance[j].reserved,
             balance'[j].available >= 0,
             ActiveOf(j)' = ActiveOf(j),
             \A q \in ActiveOf(j) : /\ payouts'[q].amount = payouts[q].amount
                                    /\ payouts'[q].rounding = payouts[q].rounding
      PROVE  BalanceOK(j)'
  BY <1>0, <1>f, ReservedFrame DEF BalanceOK
<1>1. ASSUME NEW s \in SettlementIds, NEW k \in PayoutKeys, NEW a \in Nat,
             CreditSettledZap(s, k, a)
      PROVE  BalanceOK(j)'
  <2>1. CreatorShare(a) \in Nat /\ a - CreatorShare(a) \in Int
    BY ShareSplit
  <2>2. Post(k, CreatorShare(a), 0, 0, a - CreatorShare(a)) /\ payouts' = payouts
    BY <1>1 DEF CreditSettledZap
  <2>3. balance'[j].reserved = balance[j].reserved /\ balance'[j].available >= 0
    BY <1>0, <2>1, <2>2 DEF Post, LedgerTypeOK, BalanceOK
  <2>4. QED BY <1>f, <2>2, <2>3 DEF ActiveOf, Active
<1>2. ASSUME NEW p \in PayoutIds, NEW k \in PayoutKeys,
             NEW a \in Nat, NEW r \in Nat,
             ReservePayout(p, k, a, r)
      PROVE  BalanceOK(j)'
  <2>1. a \in Nat /\ r \in Nat
    BY <1>2 DEF ReservePayout, CanReserve, WithReserved, PostReserve
  <2>2. Post(k, -(a + r), a + r, 0, 0) /\ balance[k].available >= a + r
        /\ p \notin DOMAIN payouts /\ ActiveOf(k) = {}
    BY <1>2 DEF ReservePayout, CanReserve, WithReserved, PostReserve
  <2>3. /\ DOMAIN payouts' = DOMAIN payouts \cup {p}
        /\ payouts'[p].key = k /\ payouts'[p].amount = a /\ payouts'[p].rounding = r
        /\ payouts'[p].state = "attempting"
        /\ \A q \in DOMAIN payouts : payouts'[q] = payouts[q]
    BY <1>2 DEF ReservePayout, CanReserve, WithReserved, PostReserve
  <2>4. CASE j = k
    <3>1. balance[k].reserved = 0
      BY <1>0, <2>2, <2>4 DEF BalanceOK, ReservedFor
    <3>2. balance'[k].reserved = a + r /\ balance'[k].available >= 0
      BY <1>0, <2>1, <2>2, <2>4, <3>1 DEF Post, LedgerTypeOK
    <3>3. ActiveOf(k)' = {p}
      BY <2>2, <2>3 DEF ActiveOf, Active
    <3>4. QED BY <2>3, <2>4, <3>2, <3>3 DEF BalanceOK, ReservedFor
  <2>5. CASE j # k
    <3>1. balance'[j] = balance[j]
      BY <1>0, <2>1, <2>2, <2>5 DEF Post, LedgerTypeOK
    <3>2. ActiveOf(j)' = ActiveOf(j)
      BY <2>2, <2>3, <2>5 DEF ActiveOf, Active
    <3>3. QED BY <1>0, <1>f, <2>3, <3>1, <3>2 DEF ActiveOf, BalanceOK
  <2>6. QED BY <2>4, <2>5
<1>3. ASSUME NEW p \in PayoutIds, NEW v \in ProviderIds, NEW f \in Nat,
             CompletePayout(p, v, f)
      PROVE  BalanceOK(j)'
  <2> DEFINE old == payouts[p]
             row == [old EXCEPT !.state = "succeeded", !.provider = v, !.fee = f]
  <2>1. Active(p) /\ old \in PayoutRow /\ f \in Nat
    BY <1>0, <1>3 DEF CompletePayout, Active, LedgerTypeOK
  <2>2. old.key \in PayoutKeys /\ old.amount \in Nat /\ old.rounding \in Nat
    BY <2>1, RowAmounts
  <2>3. Fresh("complete", p) /\ Fresh("rounding-complete", p)
    BY <1>0, <2>1 DEF ClosingEntriesMatchOutcome, ClosingFor, Active, Succeeded
  <2>4. Post(old.key, 0, -(old.amount + old.rounding), old.amount, old.rounding - f)
    BY <1>3, <2>3 DEF CompletePayout, IfFresh
  <2>5. payouts' = [payouts EXCEPT ![p] = row]
    BY <1>3 DEF CompletePayout
  <2>6. row.key = old.key /\ row.state = "succeeded" /\ DOMAIN payouts' = DOMAIN payouts
    BY <2>1, <2>5 DEF PayoutRow
  <2>7. CASE j = old.key
    <3>1. balance'[j].reserved = balance[j].reserved - (old.amount + old.rounding)
          /\ balance'[j].available = balance[j].available
      BY <1>0, <2>2, <2>4, <2>7 DEF Post, LedgerTypeOK
    <3>2. ReservedFor(j)'
      <4> HIDE DEF row
      <4>1. QED BY <1>0, <2>1, <2>5, <2>6, <2>7, <3>1, CloseReserved DEF BalanceOK
    <3>3. balance'[j].available >= 0
      BY <1>0, <3>1 DEF BalanceOK
    <3>4. QED BY <3>2, <3>3 DEF BalanceOK
  <2>8. CASE j # old.key
    <3>1. balance'[j] = balance[j]
      BY <1>0, <2>2, <2>4, <2>8 DEF Post, LedgerTypeOK
    <3>2. \A q \in DOMAIN payouts \ {p} : payouts'[q] = payouts[q]
      BY <2>5
    <3>3. p \notin ActiveOf(j) /\ p \notin ActiveOf(j)'
      BY <2>1, <2>5, <2>6, <2>8 DEF ActiveOf, Active
    <3>4. ActiveOf(j)' = ActiveOf(j)
      BY <2>6, <3>2, <3>3 DEF ActiveOf, Active
    <3>5. \A q \in ActiveOf(j) : payouts'[q] = payouts[q]
      BY <3>2, <3>3 DEF ActiveOf
    <3>6. balance'[j].reserved = balance[j].reserved /\ balance'[j].available >= 0
      BY <1>0, <3>1 DEF BalanceOK
    <3>7. QED BY <1>f, <3>4, <3>5, <3>6
  <2>9. QED BY <2>7, <2>8
<1>4. ASSUME NEW p \in PayoutIds, ReleasePayout(p)
      PROVE  BalanceOK(j)'
  <2> DEFINE old == payouts[p]
             row == [old EXCEPT !.state = "deferred"]
             back == old.amount + old.rounding
  <2>1. Active(p) /\ old \in PayoutRow
    BY <1>0, <1>4 DEF ReleasePayout, Active, LedgerTypeOK
  <2>2. old.key \in PayoutKeys /\ old.amount \in Nat /\ old.rounding \in Nat
    BY <2>1, RowAmounts
  <2>3. Fresh("release", p) /\ Fresh("rounding-release", p)
    BY <1>0, <2>1 DEF ClosingEntriesMatchOutcome, ClosingFor, Active, Released
  <2>4. Post(old.key, back, -back, 0, 0)
    BY <1>4, <2>3 DEF ReleasePayout, IfFresh
  <2>5. payouts' = [payouts EXCEPT ![p] = row]
    BY <1>4 DEF ReleasePayout
  <2>6. row.key = old.key /\ row.state = "deferred" /\ DOMAIN payouts' = DOMAIN payouts
    BY <2>1, <2>5 DEF PayoutRow
  <2>7. CASE j = old.key
    <3>1. balance'[j].reserved = balance[j].reserved - (old.amount + old.rounding)
          /\ balance'[j].available >= 0
      BY <1>0, <2>2, <2>4, <2>7 DEF Post, LedgerTypeOK, BalanceOK
    <3>2. ReservedFor(j)'
      <4> HIDE DEF row
      <4>1. QED BY <1>0, <2>1, <2>5, <2>6, <2>7, <3>1, CloseReserved DEF BalanceOK
    <3>3. balance'[j].available >= 0
      BY <1>0, <3>1 DEF BalanceOK
    <3>4. QED BY <3>2, <3>3 DEF BalanceOK
  <2>8. CASE j # old.key
    <3>1. balance'[j] = balance[j]
      BY <1>0, <2>2, <2>4, <2>8 DEF Post, LedgerTypeOK
    <3>2. \A q \in DOMAIN payouts \ {p} : payouts'[q] = payouts[q]
      BY <2>5
    <3>3. p \notin ActiveOf(j) /\ p \notin ActiveOf(j)'
      BY <2>1, <2>5, <2>6, <2>8 DEF ActiveOf, Active
    <3>4. ActiveOf(j)' = ActiveOf(j)
      BY <2>6, <3>2, <3>3 DEF ActiveOf, Active
    <3>5. \A q \in ActiveOf(j) : payouts'[q] = payouts[q]
      BY <3>2, <3>3 DEF ActiveOf
    <3>6. balance'[j].reserved = balance[j].reserved /\ balance'[j].available >= 0
      BY <1>0, <3>1 DEF BalanceOK
    <3>7. QED BY <1>f, <3>4, <3>5, <3>6
  <2>9. QED BY <2>7, <2>8
<1>5. ASSUME NEW p \in PayoutIds, NEW v \in ProviderIds, MarkPayoutAmbiguous(p, v)
      PROVE  BalanceOK(j)'
  <2>1. Active(p) /\ payouts[p] \in PayoutRow
    BY <1>0, <1>5 DEF MarkPayoutAmbiguous, Active, LedgerTypeOK
  <2>2. payouts' = [payouts EXCEPT ![p] =
                      [payouts[p] EXCEPT !.state = "ambiguous", !.provider = v]]
        /\ balance' = balance
    BY <1>5 DEF MarkPayoutAmbiguous, sums
  <2>3. ASSUME NEW q \in DOMAIN payouts
        PROVE  /\ payouts'[q].key = payouts[q].key
               /\ payouts'[q].amount = payouts[q].amount
               /\ payouts'[q].rounding = payouts[q].rounding
               /\ Active(q)' <=> Active(q)
    BY <2>1, <2>2 DEF Active, PayoutRow
  <2>4. ActiveOf(j)' = ActiveOf(j)
    BY <2>2, <2>3 DEF ActiveOf
  <2>5. QED BY <1>0, <1>f, <2>2, <2>3, <2>4 DEF ActiveOf, BalanceOK
<1>6. ASSUME NEW k \in PayoutKeys, DeferPayout(k)
      PROVE  BalanceOK(j)'
  BY <1>0, <1>6 DEF DeferPayout, sums, BalanceOK, ReservedFor, ActiveOf, Active
<1>7. ASSUME NEW k \in PayoutKeys, ResolveDeferredPayouts(k)
      PROVE  BalanceOK(j)'
  <2>1. payouts' = ResolvedRows(payouts, k) /\ balance' = balance
    BY <1>7 DEF ResolveDeferredPayouts, sums
  <2>2. DOMAIN payouts' = DOMAIN payouts
    BY <2>1 DEF ResolvedRows
  <2>3. ASSUME NEW q \in DOMAIN payouts
        PROVE  /\ payouts'[q].key = payouts[q].key
               /\ payouts'[q].amount = payouts[q].amount
               /\ payouts'[q].rounding = payouts[q].rounding
               /\ Active(q)' <=> Active(q)
    <3>1. payouts[q] \in PayoutRow
      BY <1>0 DEF LedgerTypeOK
    <3>2. \/ payouts'[q] = payouts[q]
          \/ /\ payouts[q].state = "deferred"
             /\ payouts'[q] = [payouts[q] EXCEPT !.state = "resolved"]
      BY <2>1 DEF ResolvedRows
    <3>3. QED BY <2>2, <3>1, <3>2 DEF Active, PayoutRow
  <2>4. ActiveOf(j)' = ActiveOf(j)
    BY <2>2, <2>3 DEF ActiveOf
  <2>5. QED BY <1>0, <1>f, <2>1, <2>3, <2>4 DEF ActiveOf, BalanceOK
<1>8. ASSUME NEW p \in PayoutIds, NEW v \in ProviderIds, NEW f \in Nat,
             ReconcileSucceededPayoutFee(p, v, f)
      PROVE  BalanceOK(j)'
  <2>1. p \in DOMAIN payouts /\ payouts[p] \in PayoutRow /\ f \in Int
    BY <1>0, <1>8
       DEF ReconcileSucceededPayoutFee, Succeeded, LedgerTypeOK
  <2>2. payouts' = [payouts EXCEPT ![p] = [payouts[p] EXCEPT !.fee = f]]
        /\ Post(payouts[p].key, 0, 0, 0, payouts[p].fee - f)
    BY <1>8 DEF ReconcileSucceededPayoutFee
  <2>3. balance'[j].reserved = balance[j].reserved
        /\ balance'[j].available = balance[j].available
    BY <1>0, <2>1, <2>2, RowAmounts DEF Post, LedgerTypeOK
  <2>4. ASSUME NEW q \in DOMAIN payouts
        PROVE  /\ payouts'[q].key = payouts[q].key
               /\ payouts'[q].amount = payouts[q].amount
               /\ payouts'[q].rounding = payouts[q].rounding
               /\ Active(q)' <=> Active(q)
    BY <2>1, <2>2 DEF Active, PayoutRow
  <2>5. ActiveOf(j)' = ActiveOf(j)
    BY <2>2, <2>4 DEF ActiveOf
  <2>6. QED BY <1>0, <1>f, <2>3, <2>4, <2>5 DEF ActiveOf, BalanceOK
<1>9. ASSUME NEW p \in PayoutIds, SweepLegacySucceededPayoutRemainder(p)
      PROVE  BalanceOK(j)'
  <2> DEFINE k == payouts[p].key
             left == balance[k].available
  <2>1. k \in PayoutKeys
    BY <1>0, <1>9, RowAmounts
       DEF SweepLegacySucceededPayoutRemainder, Succeeded, LedgerTypeOK
  <2>2. Post(k, -left, 0, 0, left) /\ payouts' = payouts
    BY <1>9 DEF SweepLegacySucceededPayoutRemainder
  <2>3. left \in Int
    BY <1>0, <2>1 DEF LedgerTypeOK
  <2>4. balance'[j].reserved = balance[j].reserved /\ balance'[j].available >= 0
    <3> HIDE DEF k
    <3>1. QED BY <1>0, <2>1, <2>2, <2>3 DEF Post, LedgerTypeOK, BalanceOK
  <2>5. QED BY <1>f, <2>2, <2>4 DEF ActiveOf, Active
<1>10. CASE UNCHANGED ledgerVars
  BY <1>0, <1>10 DEF ledgerVars, tables, sums, BalanceOK, ReservedFor, ActiveOf, Active
<1>11. QED
  BY <1>1, <1>2, <1>3, <1>4, <1>5, <1>6, <1>7, <1>8, <1>9, <1>10 DEF LedgerCall

----------------------------------------------------------------------------
(* The totals of the SQL queries *)

\* Only the rows of succeeded payouts are totalled: a call that leaves them
\* alone leaves the totals alone.
LEMMA TotalsFrame ==
  ASSUME IsFiniteSet(DOMAIN payouts),
         SucceededRows' = SucceededRows,
         \A p \in SucceededRows : /\ payouts'[p].key = payouts[p].key
                                  /\ payouts'[p].amount = payouts[p].amount
                                  /\ payouts'[p].fee = payouts[p].fee
  PROVE  /\ FeesCharged' = FeesCharged
         /\ \A k \in PayoutKeys : PaidTo(k)' = PaidTo(k)
<1> DEFINE f == [p \in DOMAIN payouts |-> payouts[p].fee]
           g == [p \in DOMAIN payouts' |-> payouts'[p].fee]
           m == [p \in DOMAIN payouts |-> payouts[p].amount]
           n == [p \in DOMAIN payouts' |-> payouts'[p].amount]
<1>1. SucceededRows \subseteq DOMAIN payouts /\ SucceededRows \subseteq DOMAIN payouts'
  BY DEF SucceededRows
<1>2. IsFiniteSet(SucceededRows)
  BY <1>1, FS_Subset
<1>3. \A p \in SucceededRows : f[p] = g[p] /\ m[p] = n[p]
  BY <1>1
<1>4. FeesCharged = SumFunctionOnSet(f, SucceededRows)
      /\ FeesCharged' = SumFunctionOnSet(g, SucceededRows)
  BY DEF FeesCharged
<1> DEFINE of(k) == {p \in SucceededRows : payouts[p].key = k}
<1>5. ASSUME NEW k \in PayoutKeys
      PROVE  /\ PaidTo(k) = SumFunctionOnSet(m, of(k))
             /\ PaidTo(k)' = SumFunctionOnSet(n, of(k))
  <2>1. {p \in SucceededRows : payouts'[p].key = k} = of(k)
    OBVIOUS
  <2>2. QED BY <2>1 DEF PaidTo
<1> HIDE DEF f, g, m, n
<1>6. FeesCharged' = FeesCharged
  BY <1>2, <1>3, <1>4, SumAgree
<1>7. ASSUME NEW k \in PayoutKeys PROVE PaidTo(k)' = PaidTo(k)
  <2>1. IsFiniteSet(of(k)) /\ \A p \in of(k) : m[p] = n[p]
    BY <1>2, <1>3, FS_Subset
  <2> HIDE DEF of
  <2>2. SumFunctionOnSet(m, of(k)) = SumFunctionOnSet(n, of(k))
    BY <2>1, SumAgree
  <2>3. QED BY <1>5, <2>2
<1>8. QED BY <1>6, <1>7

\* Completing payout p adds its fee and its amount to the totals.
LEMMA TotalsOfCompletion ==
  ASSUME LedgerTypeOK, IsFiniteSet(DOMAIN payouts),
         NEW p \in DOMAIN payouts, ~Succeeded(p),
         NEW row \in PayoutRow, row.state = "succeeded",
         row.key = payouts[p].key, row.amount = payouts[p].amount,
         payouts' = [payouts EXCEPT ![p] = row]
  PROVE  /\ FeesCharged' = FeesCharged + row.fee
         /\ \A k \in PayoutKeys :
              PaidTo(k)' = PaidTo(k) + IF k = row.key THEN row.amount ELSE 0
<1> DEFINE f == [q \in DOMAIN payouts |-> payouts[q].fee]
           g == [q \in DOMAIN payouts' |-> payouts'[q].fee]
           m == [q \in DOMAIN payouts |-> payouts[q].amount]
           n == [q \in DOMAIN payouts' |-> payouts'[q].amount]
           of(k) == {q \in SucceededRows : payouts[q].key = k}
<1>1. DOMAIN payouts' = DOMAIN payouts /\ payouts'[p] = row
      /\ \A q \in DOMAIN payouts \ {p} : payouts'[q] = payouts[q]
  OBVIOUS
<1>2. p \notin SucceededRows /\ SucceededRows' = SucceededRows \cup {p}
  BY <1>1 DEF SucceededRows, Succeeded
<1>3. SucceededRows \subseteq DOMAIN payouts /\ IsFiniteSet(SucceededRows)
  <2>1. SucceededRows \subseteq DOMAIN payouts
    BY DEF SucceededRows
  <2>2. QED BY <2>1, FS_Subset
<1>4. \A q \in DOMAIN payouts : /\ f[q] \in Int /\ g[q] \in Int
                                /\ m[q] \in Int /\ n[q] \in Int
  <2>1. \A q \in DOMAIN payouts : payouts[q] \in PayoutRow /\ payouts'[q] \in PayoutRow
    BY <1>1 DEF LedgerTypeOK
  <2>2. \A r \in PayoutRow : r.fee \in Int /\ r.amount \in Int
    BY RowAmounts
  <2>3. QED BY <1>1, <2>1, <2>2
<1>5. \A q \in SucceededRows : g[q] = f[q] /\ n[q] = m[q]
  BY <1>1, <1>2, <1>3
<1>6. g[p] = row.fee /\ n[p] = row.amount
  BY <1>1
<1>7. FeesCharged = SumFunctionOnSet(f, SucceededRows)
      /\ FeesCharged' = SumFunctionOnSet(g, SucceededRows \cup {p})
  BY <1>2 DEF FeesCharged
<1>8. ASSUME NEW k \in PayoutKeys
      PROVE  /\ PaidTo(k) = SumFunctionOnSet(m, of(k))
             /\ PaidTo(k)' = SumFunctionOnSet(n, IF k = row.key THEN of(k) \cup {p} ELSE of(k))
  <2>1. {q \in SucceededRows' : payouts'[q].key = k}
          = IF k = row.key THEN of(k) \cup {p} ELSE of(k)
    BY <1>1, <1>2, <1>3
  <2>2. QED BY <2>1 DEF PaidTo
<1> HIDE DEF f, g, m, n
<1>9. FeesCharged' = FeesCharged + row.fee
  <2>1. SumFunctionOnSet(g, SucceededRows \cup {p})
          = g[p] + SumFunctionOnSet(g, SucceededRows)
    <3>1. \A q \in SucceededRows : g[q] \in Int
      BY <1>3, <1>4
    <3>2. QED BY <1>2, <1>3, <1>4, <3>1, SumAdd
  <2>2. SumFunctionOnSet(g, SucceededRows) = SumFunctionOnSet(f, SucceededRows)
    BY <1>3, <1>5, SumAgree
  <2>3. SumFunctionOnSet(f, SucceededRows) \in Int /\ row.fee \in Int
    <3>1. \A q \in SucceededRows : f[q] \in Int
      BY <1>3, <1>4
    <3>2. QED BY <1>3, <3>1, SumType, RowAmounts
  <2>4. QED BY <1>6, <1>7, <2>1, <2>2, <2>3
<1>10. ASSUME NEW k \in PayoutKeys
       PROVE  PaidTo(k)' = PaidTo(k) + IF k = row.key THEN row.amount ELSE 0
  <2>1. IsFiniteSet(of(k)) /\ p \notin of(k)
        /\ \A q \in of(k) : n[q] = m[q] /\ m[q] \in Int /\ n[q] \in Int
    BY <1>2, <1>3, <1>4, <1>5, FS_Subset
  <2>2. PaidTo(k) = SumFunctionOnSet(m, of(k))
        /\ PaidTo(k)' = SumFunctionOnSet(n, IF k = row.key THEN of(k) \cup {p} ELSE of(k))
    BY <1>8
  <2> HIDE DEF of
  <2>3. SumFunctionOnSet(n, of(k)) = SumFunctionOnSet(m, of(k))
        /\ SumFunctionOnSet(m, of(k)) \in Int
    BY <2>1, SumAgree, SumType
  <2>4. SumFunctionOnSet(n, of(k) \cup {p}) = n[p] + SumFunctionOnSet(n, of(k))
    BY <1>4, <2>1, SumAdd
  <2>5. row.amount \in Int
    BY RowAmounts
  <2>6. CASE k = row.key
    BY <1>6, <2>2, <2>3, <2>4, <2>5, <2>6
  <2>7. CASE k # row.key
    BY <2>2, <2>3, <2>7
  <2>8. QED BY <2>6, <2>7
<1>11. QED BY <1>9, <1>10

\* Correcting the fee of a succeeded payout changes the total by as much.
LEMMA TotalsOfCorrection ==
  ASSUME LedgerTypeOK, IsFiniteSet(DOMAIN payouts),
         NEW p \in DOMAIN payouts, Succeeded(p), NEW fee \in Nat,
         payouts' = [payouts EXCEPT ![p].fee = fee]
  PROVE  /\ FeesCharged' = FeesCharged - payouts[p].fee + fee
         /\ \A k \in PayoutKeys : PaidTo(k)' = PaidTo(k)
<1> DEFINE f == [q \in DOMAIN payouts |-> payouts[q].fee]
           g == [q \in DOMAIN payouts' |-> payouts'[q].fee]
           m == [q \in DOMAIN payouts |-> payouts[q].amount]
           n == [q \in DOMAIN payouts' |-> payouts'[q].amount]
<1>1. \A q \in DOMAIN payouts : payouts[q] \in PayoutRow
  BY DEF LedgerTypeOK
<1>2. /\ DOMAIN payouts' = DOMAIN payouts
      /\ payouts'[p].fee = fee
      /\ \A q \in DOMAIN payouts \ {p} : payouts'[q] = payouts[q]
      /\ \A q \in DOMAIN payouts : /\ payouts'[q].key = payouts[q].key
                                   /\ payouts'[q].state = payouts[q].state
                                   /\ payouts'[q].amount = payouts[q].amount
  BY <1>1 DEF PayoutRow
<1>3. SucceededRows' = SucceededRows /\ p \in SucceededRows
      /\ SucceededRows \subseteq DOMAIN payouts
  BY <1>2 DEF SucceededRows, Succeeded
<1>4. IsFiniteSet(SucceededRows)
  BY <1>3, FS_Subset
<1>5. m = n
  BY <1>2
<1>6. \A k \in PayoutKeys : PaidTo(k)' = PaidTo(k)
  <2> SUFFICES ASSUME NEW k \in PayoutKeys PROVE PaidTo(k)' = PaidTo(k)
    OBVIOUS
  <2>1. {q \in SucceededRows' : payouts'[q].key = k} = {q \in SucceededRows : payouts[q].key = k}
    BY <1>2, <1>3
  <2>2. QED BY <1>5, <2>1 DEF PaidTo
<1>7. FeesCharged = SumFunctionOnSet(f, SucceededRows)
      /\ FeesCharged' = SumFunctionOnSet(g, SucceededRows)
  BY <1>3 DEF FeesCharged
<1>8. /\ \A q \in SucceededRows : f[q] \in Int /\ g[q] \in Int
      /\ \A q \in SucceededRows \ {p} : f[q] = g[q]
      /\ f[p] = payouts[p].fee /\ g[p] = fee
  <2>1. \A r \in PayoutRow : r.fee \in Int
    BY RowAmounts
  <2>2. \A q \in SucceededRows : f[q] \in Int
    BY <1>1, <1>3, <2>1
  <2>3. \A q \in SucceededRows \ {p} : f[q] = g[q]
    BY <1>2, <1>3
  <2>4. f[p] = payouts[p].fee /\ g[p] = fee
    BY <1>2
  <2> HIDE DEF f, g
  <2>5. QED BY <2>2, <2>3, <2>4
<1> HIDE DEF f, g
<1>9. SumFunctionOnSet(g, SucceededRows) = SumFunctionOnSet(f, SucceededRows) - f[p] + g[p]
  BY <1>3, <1>4, <1>8, SumChange
<1>10. QED BY <1>6, <1>7, <1>8, <1>9

\* Every ledger call leaves finitely many payout rows.
LEMMA FiniteRowsStep ==
  IsFiniteSet(DOMAIN payouts) /\ [LedgerCall]_ledgerVars => IsFiniteSet(DOMAIN payouts')
<1> SUFFICES ASSUME IsFiniteSet(DOMAIN payouts), [LedgerCall]_ledgerVars
             PROVE  IsFiniteSet(DOMAIN payouts')
  OBVIOUS
<1> DEFINE Same == DOMAIN payouts' = DOMAIN payouts
<1>1. Same \/ \E p \in PayoutIds : DOMAIN payouts' = DOMAIN payouts \cup {p}
  <2>1. ASSUME NEW s \in SettlementIds, NEW k \in PayoutKeys, NEW a \in Nat,
               CreditSettledZap(s, k, a)
        PROVE  Same
    BY <2>1 DEF CreditSettledZap
  <2>2. ASSUME NEW p \in PayoutIds, NEW k \in PayoutKeys, NEW a \in Nat, NEW r \in Nat,
               ReservePayout(p, k, a, r)
        PROVE  DOMAIN payouts' = DOMAIN payouts \cup {p}
    BY <2>2 DEF ReservePayout, WithReserved
  <2>3. ASSUME NEW p \in PayoutIds, NEW v \in ProviderIds, NEW f \in Nat,
               CompletePayout(p, v, f) \/ ReconcileSucceededPayoutFee(p, v, f)
        PROVE  Same
    BY <2>3 DEF CompletePayout, ReconcileSucceededPayoutFee
  <2>4. ASSUME NEW p \in PayoutIds, NEW v \in ProviderIds, MarkPayoutAmbiguous(p, v)
        PROVE  Same
    BY <2>4 DEF MarkPayoutAmbiguous
  <2>5. ASSUME NEW p \in PayoutIds, ReleasePayout(p) \/ SweepLegacySucceededPayoutRemainder(p)
        PROVE  Same
    BY <2>5 DEF ReleasePayout, SweepLegacySucceededPayoutRemainder
  <2>6. ASSUME NEW k \in PayoutKeys, DeferPayout(k) \/ ResolveDeferredPayouts(k)
        PROVE  Same
    BY <2>6 DEF DeferPayout, ResolveDeferredPayouts, ResolvedRows
  <2>7. CASE UNCHANGED ledgerVars
    BY <2>7 DEF ledgerVars, tables
  <2> HIDE DEF Same
  <2>8. QED BY <2>1, <2>2, <2>3, <2>4, <2>5, <2>6, <2>7 DEF LedgerCall
<1>2. QED BY <1>1, FS_AddElement

\* A posting that leaves the succeeded payouts alone and pays nothing, or one
\* that pays d to k while the succeeded payouts of k grow by d, keeps the sums.
LEMMA SumsOfPost ==
  ASSUME LedgerTypeOK, SumsMatchRows, NEW k \in PayoutKeys,
         NEW a \in Int, NEW r \in Int, NEW d \in Int, NEW w \in Int,
         Post(k, a, r, d, w),
         \A j \in PayoutKeys : PaidTo(j)' = PaidTo(j) + IF j = k THEN d ELSE 0,
         payoutFees' - payoutFees = FeesCharged' - FeesCharged,
         FeesCharged' \in Int, payoutFees' \in Int
  PROVE  SumsMatchRows'
<1>1. ledgerTotal = wired + FundsOfAll /\ payoutFees = FeesCharged /\ payoutFees \in Int
      /\ \A j \in PayoutKeys : balance[j].paid = PaidTo(j) /\ balance[j].paid \in Int
  BY DEF SumsMatchRows, LedgerTypeOK
<1>2. (ledgerTotal = wired + FundsOfAll)' /\ balance'[k].paid = balance[k].paid + d
  <2> DEFINE f == [j \in PayoutKeys |-> CreatorFunds(j)]
             g == [j \in PayoutKeys |-> CreatorFunds(j)']
  <2>1. /\ \A j \in PayoutKeys : f[j] \in Int /\ g[j] \in Int
        /\ \A j \in PayoutKeys \ {k} : f[j] = g[j]
        /\ g[k] = f[k] + a + r + d
        /\ balance'[k].paid = balance[k].paid + d
    BY DEF CreatorFunds, LedgerTypeOK, Post
  <2>2. /\ FundsOfAll = SumFunctionOnSet(f, PayoutKeys)
        /\ FundsOfAll' = SumFunctionOnSet(g, PayoutKeys)
    BY DEF FundsOfAll
  <2>3. /\ wired' = wired + w /\ ledgerTotal' = ledgerTotal + a + r + d + w
        /\ wired \in Int /\ ledgerTotal \in Int
    BY DEF Post, LedgerTypeOK
  <2> HIDE DEF f, g
  <2>4. /\ SumFunctionOnSet(g, PayoutKeys) = SumFunctionOnSet(f, PayoutKeys) - f[k] + g[k]
        /\ SumFunctionOnSet(f, PayoutKeys) \in Int
    BY <2>1, KeysAssumption, SumChange, SumType
  <2>5. QED BY <1>1, <2>1, <2>2, <2>3, <2>4
<1>3. \A j \in PayoutKeys \ {k} : balance'[j] = balance[j]
  BY PostType
<1>4. payoutFees' = FeesCharged'
  BY <1>1
<1>5. ASSUME NEW j \in PayoutKeys PROVE balance'[j].paid = PaidTo(j)'
  <2>1. CASE j = k
    BY <1>1, <1>2, <2>1
  <2>2. CASE j # k
    BY <1>1, <1>3, <2>2
  <2>3. QED BY <2>1, <2>2
<1>6. QED BY <1>2, <1>4, <1>5 DEF SumsMatchRows

\* Every ledger call keeps the totals equal to the sums over the rows.
LEMMA SumsStep == LedgerInv /\ [LedgerCall]_ledgerVars => SumsMatchRows'
<1> SUFFICES ASSUME LedgerInv, [LedgerCall]_ledgerVars
             PROVE  SumsMatchRows'
  OBVIOUS
<1>0. LedgerTypeOK /\ IsFiniteSet(DOMAIN payouts) /\ ClosingEntriesMatchOutcome
      /\ SumsMatchRows /\ payoutFees \in Int /\ payoutFees = FeesCharged
      /\ \A k \in PayoutKeys : PaidTo(k) \in Int
  BY DEF LedgerInv, LedgerTypeOK, SumsMatchRows
\* Calls that touch no succeeded payout.
<1>f. ASSUME SucceededRows' = SucceededRows,
             \A q \in SucceededRows : /\ payouts'[q].key = payouts[q].key
                                      /\ payouts'[q].amount = payouts[q].amount
                                      /\ payouts'[q].fee = payouts[q].fee,
             payoutFees' = payoutFees,
             NEW k \in PayoutKeys, NEW a \in Int, NEW r \in Int, NEW w \in Int,
             Post(k, a, r, 0, w)
      PROVE  SumsMatchRows'
  <2>1. FeesCharged' = FeesCharged /\ \A j \in PayoutKeys : PaidTo(j)' = PaidTo(j)
    BY <1>0, <1>f, TotalsFrame
  <2> DEFINE paid == 0
  <2>2. paid \in Int
        /\ \A j \in PayoutKeys : PaidTo(j)' = PaidTo(j) + IF j = k THEN paid ELSE 0
    BY <1>0, <2>1
  <2>3. payoutFees' - payoutFees = FeesCharged' - FeesCharged
        /\ FeesCharged' \in Int /\ payoutFees' \in Int
    BY <1>0, <1>f, <2>1
  <2>4. Post(k, a, r, paid, w)
    BY <1>f
  <2> HIDE DEF paid
  <2>5. QED BY <1>0, <1>f, <2>2, <2>3, <2>4, SumsOfPost
\* Calls that post nothing either.
<1>g. ASSUME UNCHANGED sums, SucceededRows' = SucceededRows,
             \A q \in SucceededRows : /\ payouts'[q].key = payouts[q].key
                                      /\ payouts'[q].amount = payouts[q].amount
                                      /\ payouts'[q].fee = payouts[q].fee
      PROVE  SumsMatchRows'
  <2>1. FeesCharged' = FeesCharged /\ \A j \in PayoutKeys : PaidTo(j)' = PaidTo(j)
    BY <1>0, <1>g, TotalsFrame
  <2>2. FundsOfAll' = FundsOfAll
    BY <1>g DEF FundsOfAll, CreatorFunds, sums
  <2>3. QED BY <1>0, <1>g, <2>1, <2>2 DEF SumsMatchRows, sums
<1>1. ASSUME NEW s \in SettlementIds, NEW k \in PayoutKeys, NEW a \in Nat,
             CreditSettledZap(s, k, a)
      PROVE  SumsMatchRows'
  <2>1. CreatorShare(a) \in Int /\ a - CreatorShare(a) \in Int
    BY ShareSplit
  <2>2. Post(k, CreatorShare(a), 0, 0, a - CreatorShare(a))
        /\ payouts' = payouts /\ payoutFees' = payoutFees
    BY <1>1 DEF CreditSettledZap
  <2>3. SucceededRows' = SucceededRows
    BY <2>2 DEF SucceededRows, Succeeded
  <2>4. QED BY <1>f, <2>1, <2>2, <2>3
<1>2. ASSUME NEW p \in PayoutIds, NEW k \in PayoutKeys, NEW a \in Nat, NEW r \in Nat,
             ReservePayout(p, k, a, r)
      PROVE  SumsMatchRows'
  <2>1. Post(k, -(a + r), a + r, 0, 0) /\ payoutFees' = payoutFees
        /\ p \notin DOMAIN payouts /\ payouts' = WithReserved(p, k, a, r)
    BY <1>2 DEF ReservePayout, CanReserve, PostReserve
  <2>2. SucceededRows' = SucceededRows
        /\ \A q \in SucceededRows : payouts'[q] = payouts[q]
    BY <2>1 DEF WithReserved, SucceededRows, Succeeded
  <2>3. -(a + r) \in Int /\ a + r \in Int
    OBVIOUS
  <2>4. QED BY <1>f, <2>1, <2>2, <2>3
<1>3. ASSUME NEW p \in PayoutIds, NEW v \in ProviderIds, NEW f \in Nat,
             CompletePayout(p, v, f)
      PROVE  SumsMatchRows'
  <2> DEFINE old == payouts[p]
             row == CompletedRow(old, v, f)
             reserved == -(old.amount + old.rounding)
             toWired == old.rounding - f
  <2>1. Active(p) /\ p \in DOMAIN payouts /\ old \in PayoutRow /\ ~Succeeded(p)
    BY <1>0, <1>3 DEF CompletePayout, Active, Succeeded, LedgerTypeOK
  <2>2. old.key \in PayoutKeys /\ old.amount \in Nat /\ reserved \in Int /\ toWired \in Int
    BY <2>1, RowAmounts
  <2>3. Fresh("complete", p) /\ Fresh("rounding-complete", p)
    BY <1>0, <2>1 DEF ClosingEntriesMatchOutcome, ClosingFor, Active, Succeeded
  <2>4. Post(old.key, 0, reserved, old.amount, toWired)
        /\ payouts' = [payouts EXCEPT ![p] = row] /\ payoutFees' = payoutFees + f
    BY <1>3, <2>3 DEF CompletePayout, IfFresh, CompletedRow
  <2>5. row \in PayoutRow /\ row.state = "succeeded" /\ row.key = old.key
        /\ row.amount = old.amount /\ row.fee = f
    BY <2>1, CompletedRowType
  <2> HIDE DEF row, old, reserved, toWired
  <2>6. FeesCharged' = FeesCharged + f
        /\ \A j \in PayoutKeys :
             PaidTo(j)' = PaidTo(j) + IF j = old.key THEN old.amount ELSE 0
    <3>1. row.key = payouts[p].key /\ row.amount = payouts[p].amount
      BY <2>5 DEF old
    <3>2. FeesCharged' = FeesCharged + row.fee
          /\ \A j \in PayoutKeys :
               PaidTo(j)' = PaidTo(j) + IF j = row.key THEN row.amount ELSE 0
      BY <1>0, <2>1, <2>4, <2>5, <3>1, TotalsOfCompletion
    <3>3. QED BY <2>5, <3>2
  <2>7. payoutFees' - payoutFees = FeesCharged' - FeesCharged
        /\ FeesCharged' \in Int /\ payoutFees' \in Int
    BY <1>0, <2>4, <2>6
  <2>8. old.amount \in Int /\ 0 \in Int
    BY <2>2
  <2>9. QED BY <1>0, <2>2, <2>4, <2>6, <2>7, <2>8, SumsOfPost
<1>4. ASSUME NEW p \in PayoutIds, ReleasePayout(p)
      PROVE  SumsMatchRows'
  <2> DEFINE old == payouts[p]
             back == IfFresh("release", p, old.amount)
                     + IfFresh("rounding-release", p, old.rounding)
  <2>1. Active(p) /\ old \in PayoutRow
    BY <1>0, <1>4 DEF ReleasePayout, Active, LedgerTypeOK
  <2>2. old.key \in PayoutKeys /\ back \in Int /\ -back \in Int
    BY <2>1, RowAmounts, PostedAmount
  <2>3. Post(old.key, back, -back, 0, 0) /\ payoutFees' = payoutFees
        /\ payouts' = [payouts EXCEPT ![p].state = "deferred"]
    BY <1>4 DEF ReleasePayout
  <2>4. SucceededRows' = SucceededRows
        /\ \A q \in SucceededRows : payouts'[q] = payouts[q]
    BY <2>1, <2>3 DEF SucceededRows, Succeeded, Active, PayoutRow
  <2> HIDE DEF old, back
  <2>5. QED BY <1>f, <2>2, <2>3, <2>4
<1>5. ASSUME NEW p \in PayoutIds, NEW v \in ProviderIds, MarkPayoutAmbiguous(p, v)
      PROVE  SumsMatchRows'
  <2>1. Active(p) /\ payouts[p] \in PayoutRow /\ UNCHANGED sums
    BY <1>0, <1>5 DEF MarkPayoutAmbiguous, Active, LedgerTypeOK
  <2>2. payouts' = [payouts EXCEPT ![p] =
                      [payouts[p] EXCEPT !.state = "ambiguous", !.provider = v]]
    BY <1>5 DEF MarkPayoutAmbiguous
  <2>3. SucceededRows' = SucceededRows
        /\ \A q \in SucceededRows : payouts'[q] = payouts[q]
    BY <2>1, <2>2 DEF SucceededRows, Succeeded, Active, PayoutRow
  <2>4. QED BY <1>g, <2>1, <2>3
<1>6. ASSUME NEW k \in PayoutKeys, DeferPayout(k)
      PROVE  SumsMatchRows'
  <2>1. UNCHANGED sums /\ payouts' = payouts
    BY <1>6 DEF DeferPayout
  <2>2. QED BY <1>g, <2>1 DEF SucceededRows, Succeeded
<1>7. ASSUME NEW k \in PayoutKeys, ResolveDeferredPayouts(k)
      PROVE  SumsMatchRows'
  <2>1. UNCHANGED sums /\ payouts' = ResolvedRows(payouts, k)
    BY <1>7 DEF ResolveDeferredPayouts
  <2>2. \A q \in DOMAIN payouts :
          \/ payouts'[q] = payouts[q]
          \/ /\ payouts[q].state = "deferred"
             /\ payouts'[q] = [payouts[q] EXCEPT !.state = "resolved"]
             /\ payouts[q] \in PayoutRow
    BY <1>0, <2>1 DEF ResolvedRows, LedgerTypeOK
  <2>3. DOMAIN payouts' = DOMAIN payouts
    BY <2>1 DEF ResolvedRows
  <2>4. SucceededRows' = SucceededRows
        /\ \A q \in SucceededRows : payouts'[q] = payouts[q]
    BY <2>2, <2>3 DEF SucceededRows, Succeeded, PayoutRow
  <2>5. QED BY <1>g, <2>1, <2>4
<1>8. ASSUME NEW p \in PayoutIds, NEW v \in ProviderIds, NEW f \in Nat,
             ReconcileSucceededPayoutFee(p, v, f)
      PROVE  SumsMatchRows'
  <2> DEFINE none == 0
  <2>1. p \in DOMAIN payouts /\ payouts[p] \in PayoutRow /\ Succeeded(p)
    BY <1>0, <1>8 DEF ReconcileSucceededPayoutFee, Succeeded, LedgerTypeOK
  <2>2. payouts[p].key \in PayoutKeys /\ payouts[p].fee \in Nat
        /\ payouts[p].fee - f \in Int
    BY <2>1, RowAmounts
  <2>3. payouts' = [payouts EXCEPT ![p].fee = f]
        /\ Post(payouts[p].key, none, none, none, payouts[p].fee - f)
        /\ payoutFees' = payoutFees + f - payouts[p].fee
    BY <1>8 DEF ReconcileSucceededPayoutFee
  <2>4. FeesCharged' = FeesCharged - payouts[p].fee + f
        /\ \A j \in PayoutKeys : PaidTo(j)' = PaidTo(j)
    BY <1>0, <2>1, <2>3, TotalsOfCorrection
  <2>5. none \in Int /\ \A j \in PayoutKeys :
          PaidTo(j)' = PaidTo(j) + IF j = payouts[p].key THEN none ELSE 0
    BY <1>0, <2>4
  <2>6. payoutFees' - payoutFees = FeesCharged' - FeesCharged
        /\ FeesCharged' \in Int /\ payoutFees' \in Int
    BY <1>0, <2>2, <2>3, <2>4
  <2> HIDE DEF none
  <2>7. QED BY <1>0, <2>2, <2>3, <2>5, <2>6, SumsOfPost
<1>9. ASSUME NEW p \in PayoutIds, SweepLegacySucceededPayoutRemainder(p)
      PROVE  SumsMatchRows'
  <2> DEFINE k == payouts[p].key
             left == balance[k].available
  <2>1. k \in PayoutKeys
    BY <1>0, <1>9, RowAmounts
       DEF SweepLegacySucceededPayoutRemainder, Succeeded, LedgerTypeOK
  <2>2. Post(k, -left, 0, 0, left) /\ payouts' = payouts /\ payoutFees' = payoutFees
    BY <1>9 DEF SweepLegacySucceededPayoutRemainder
  <2>3. left \in Int /\ -left \in Int
    BY <1>0, <2>1 DEF LedgerTypeOK
  <2>4. SucceededRows' = SucceededRows
    BY <2>2 DEF SucceededRows, Succeeded
  <2> HIDE DEF k, left
  <2>5. QED BY <1>f, <2>1, <2>2, <2>3, <2>4
<1>10. CASE UNCHANGED ledgerVars
  <2>1. UNCHANGED sums /\ payouts' = payouts
    BY <1>10 DEF ledgerVars, tables
  <2>2. QED BY <1>g, <2>1 DEF SucceededRows, Succeeded
<1>11. QED
  BY <1>1, <1>2, <1>3, <1>4, <1>5, <1>6, <1>7, <1>8, <1>9, <1>10 DEF LedgerCall

----------------------------------------------------------------------------

LEMMA LedgerInvInit == LedgerInit => LedgerInv
<1> SUFFICES ASSUME LedgerInit PROVE LedgerInv
  OBVIOUS
<1>1. LedgerTypeOK /\ DOMAIN payouts = {} /\ payoutFees = 0 /\ ledgerTotal = 0 /\ wired = 0
      /\ \A k \in PayoutKeys : balance[k].paid = 0 /\ CreatorFunds(k) = 0
  BY DEF LedgerInit, LedgerTypeOK, CreatorFunds
<1>2. ClosingEntriesMatchOutcome /\ Conservation /\ ReservedIsActivePayout /\ NeverOverdrawn
  BY DEF LedgerInit, ClosingEntriesMatchOutcome, ClosingFor, Fresh, Conservation,
         ReservedIsActivePayout, ReservedFor, ActiveOf, NeverOverdrawn
<1>3. IsFiniteSet(DOMAIN payouts)
  BY <1>1, FS_EmptySet
<1>4. FeesCharged = 0 /\ \A k \in PayoutKeys : PaidTo(k) = 0
  <2>1. SucceededRows = {}
    BY <1>1 DEF SucceededRows
  <2>2. \A f : SumFunctionOnSet(f, {}) = 0
    BY FS_EmptySet, SumFirst
  <2>3. \A k \in PayoutKeys : {p \in SucceededRows : payouts[p].key = k} = {}
    BY <2>1
  <2>4. QED BY <2>1, <2>2, <2>3 DEF FeesCharged, PaidTo
<1>5. FundsOfAll = 0
  <2> DEFINE f == [k \in PayoutKeys |-> CreatorFunds(k)]
  <2>1. \A k \in PayoutKeys : f[k] = 0
    BY <1>1
  <2> HIDE DEF f
  <2>2. SumFunctionOnSet(f, PayoutKeys) = 0
    BY <2>1, SumOfZeros, KeysAssumption
  <2>3. QED BY <2>2 DEF FundsOfAll, f
<1>6. SumsMatchRows
  BY <1>1, <1>4, <1>5 DEF SumsMatchRows
<1>7. QED BY <1>1, <1>2, <1>3, <1>6 DEF LedgerInv

\* Every ledger call preserves the invariant.
LEMMA LedgerInvStep == LedgerInv /\ [LedgerCall]_ledgerVars => LedgerInv'
BY LedgerTypeStep, FiniteRowsStep, ClosingStep, ConservationStep, SumsStep, BalanceStep
   DEF LedgerInv

\* The inductive invariant holds in every reachable state of the ledger.
THEOREM LedgerInvariant == LedgerSpec => []LedgerInv
<1>1. LedgerInv /\ [LedgerNext]_ledgerVars => LedgerInv'
  BY LedgerInvStep, NextIsCall
<1>2. QED BY <1>1, LedgerInvInit, PTL DEF LedgerSpec

\* accountingDivergenceMsat() is zero in every reachable state, so the operator's
\* "revenue ledger conservation check failed" alert can never be raised; and the
\* totals it is computed from are the sums over the rows they are about.
THEOREM LedgerBooksBalance == LedgerSpec => []BooksBalance
<1>1. LedgerInv => BooksBalance
  BY DEF LedgerInv, BooksBalance
<1>2. QED BY <1>1, LedgerInvariant, PTL

\* A creator's reserve is exactly the one open payout, its closing entries are
\* fresh until its row is closed, and no available balance is ever negative.
THEOREM LedgerReservesAreHeld == LedgerSpec => []ReservesAreHeld
<1>1. LedgerInv => ReservesAreHeld
  BY DEF LedgerInv, ReservesAreHeld
<1>2. QED BY <1>1, LedgerInvariant, PTL

\* No call takes a whole satoshi from a creator: completing forfeits at most the
\* rounding, a sweep less than a thousand millisatoshi.
LEMMA FundsStep ==
  ASSUME LedgerInv, [LedgerCall]_ledgerVars, NEW k \in PayoutKeys
  PROVE  CreatorFunds(k)' > CreatorFunds(k) - 1000
<1>0. LedgerTypeOK /\ ClosingEntriesMatchOutcome /\ CreatorFunds(k) \in Int
  BY DEF LedgerInv, LedgerTypeOK, CreatorFunds
\* What a posting to j means for the funds of k.
<1>f. ASSUME NEW j \in PayoutKeys, NEW a \in Int, NEW r \in Int, NEW d \in Int, NEW w \in Int,
             Post(j, a, r, d, w), a + r + d > -1000
      PROVE  CreatorFunds(k)' > CreatorFunds(k) - 1000
  BY <1>0, <1>f DEF CreatorFunds, LedgerTypeOK, Post
<1>g. ASSUME balance' = balance
      PROVE  CreatorFunds(k)' > CreatorFunds(k) - 1000
  BY <1>0, <1>g DEF CreatorFunds
<1>1. ASSUME NEW s \in SettlementIds, NEW j \in PayoutKeys, NEW a \in Nat,
             CreditSettledZap(s, j, a)
      PROVE  CreatorFunds(k)' > CreatorFunds(k) - 1000
  <2>1. CreatorShare(a) \in Nat /\ a - CreatorShare(a) \in Int
    BY ShareSplit
  <2>2. QED BY <1>1, <1>f, <2>1 DEF CreditSettledZap
<1>2. ASSUME NEW p \in PayoutIds, NEW j \in PayoutKeys, NEW a \in Nat, NEW r \in Nat,
             ReservePayout(p, j, a, r)
      PROVE  CreatorFunds(k)' > CreatorFunds(k) - 1000
  <2>1. Post(j, -(a + r), a + r, 0, 0) /\ -(a + r) + (a + r) + 0 > -1000
    BY <1>2 DEF ReservePayout, PostReserve
  <2>2. QED BY <1>f, <2>1
<1>3. ASSUME NEW p \in PayoutIds, NEW v \in ProviderIds, NEW f \in Nat,
             CompletePayout(p, v, f)
      PROVE  CreatorFunds(k)' > CreatorFunds(k) - 1000
  <2> DEFINE old == payouts[p]
             reserved == -(old.amount + old.rounding)
             toWired == old.rounding - f
  <2>1. Active(p) /\ old \in PayoutRow
    BY <1>0, <1>3 DEF CompletePayout, Active, LedgerTypeOK
  <2>2. old.key \in PayoutKeys /\ old.amount \in Nat /\ old.rounding \in 0..999
    BY <2>1 DEF PayoutRow
  <2>3. Fresh("complete", p) /\ Fresh("rounding-complete", p)
    BY <1>0, <2>1 DEF ClosingEntriesMatchOutcome, ClosingFor, Active, Succeeded
  <2>4. Post(old.key, 0, reserved, old.amount, toWired)
    BY <1>3, <2>3 DEF CompletePayout, IfFresh
  <2> HIDE DEF old
  <2>5. reserved \in Int /\ toWired \in Int /\ 0 + reserved + old.amount > -1000
    <3>1. old.amount \in Int /\ old.rounding \in Int /\ old.rounding < 1000
      BY <2>2
    <3>2. QED BY <3>1
  <2> HIDE DEF reserved, toWired
  <2>6. QED BY <1>f, <2>2, <2>4, <2>5
<1>4. ASSUME NEW p \in PayoutIds, ReleasePayout(p)
      PROVE  CreatorFunds(k)' > CreatorFunds(k) - 1000
  <2> DEFINE old == payouts[p]
             back == IfFresh("release", p, old.amount)
                     + IfFresh("rounding-release", p, old.rounding)
  <2>1. old \in PayoutRow
    BY <1>0, <1>4 DEF ReleasePayout, Active, LedgerTypeOK
  <2>2. old.key \in PayoutKeys /\ back \in Nat
    BY <2>1, RowAmounts, PostedAmount
  <2>3. Post(old.key, back, -back, 0, 0)
    BY <1>4 DEF ReleasePayout
  <2>4. -back \in Int /\ back + (-back) + 0 > -1000
    BY <2>2
  <2> HIDE DEF old, back
  <2>5. QED BY <1>f, <2>2, <2>3, <2>4
<1>5. ASSUME NEW p \in PayoutIds, SweepLegacySucceededPayoutRemainder(p)
      PROVE  CreatorFunds(k)' > CreatorFunds(k) - 1000
  <2> DEFINE j == payouts[p].key
             left == balance[j].available
  <2>1. j \in PayoutKeys
    BY <1>0, <1>5, RowAmounts
       DEF SweepLegacySucceededPayoutRemainder, Succeeded, LedgerTypeOK
  <2>2. Post(j, -left, 0, 0, left) /\ left < 1000
    BY <1>5 DEF SweepLegacySucceededPayoutRemainder
  <2>3. left \in Int /\ -left \in Int
    BY <1>0, <2>1 DEF LedgerTypeOK
  <2>4. -left + 0 + 0 > -1000
    BY <2>2, <2>3
  <2> HIDE DEF j, left
  <2>5. QED BY <1>f, <2>1, <2>2, <2>3, <2>4
<1>6. ASSUME NEW p \in PayoutIds, NEW v \in ProviderIds, NEW f \in Nat,
             ReconcileSucceededPayoutFee(p, v, f)
      PROVE  CreatorFunds(k)' > CreatorFunds(k) - 1000
  <2>1. payouts[p] \in PayoutRow
    BY <1>0, <1>6 DEF ReconcileSucceededPayoutFee, Succeeded, LedgerTypeOK
  <2>2. payouts[p].key \in PayoutKeys /\ payouts[p].fee - f \in Int
    BY <2>1, RowAmounts
  <2>3. Post(payouts[p].key, 0, 0, 0, payouts[p].fee - f)
    BY <1>6 DEF ReconcileSucceededPayoutFee
  <2>4. QED BY <1>f, <2>2, <2>3
<1>7. ASSUME NEW p \in PayoutIds, NEW v \in ProviderIds, MarkPayoutAmbiguous(p, v)
      PROVE  CreatorFunds(k)' > CreatorFunds(k) - 1000
  BY <1>7, <1>g DEF MarkPayoutAmbiguous, sums
<1>8. ASSUME NEW j \in PayoutKeys, DeferPayout(j) \/ ResolveDeferredPayouts(j)
      PROVE  CreatorFunds(k)' > CreatorFunds(k) - 1000
  BY <1>8, <1>g DEF DeferPayout, ResolveDeferredPayouts, sums
<1>9. CASE UNCHANGED ledgerVars
  BY <1>9, <1>g DEF ledgerVars, sums
<1>10. QED
  BY <1>1, <1>2, <1>3, <1>4, <1>5, <1>6, <1>7, <1>8, <1>9 DEF LedgerCall

Final(p) ==
  /\ p \in DOMAIN payouts'
  /\ Succeeded(p) => /\ payouts'[p].state = "succeeded"
                     /\ payouts'[p].provider = payouts[p].provider
  /\ payouts[p].state \in {"deferred", "resolved"}
       => payouts'[p].state \in {"deferred", "resolved"}

\* No call rewrites the outcome of a payout.
LEMMA OutcomeStep ==
  ASSUME LedgerTypeOK, [LedgerCall]_ledgerVars, NEW p \in DOMAIN payouts
  PROVE  Final(p)
<1>0. payouts[p] \in PayoutRow
  BY DEF LedgerTypeOK
<1> USE DEF Final, Succeeded, Active
<1>f. ASSUME payouts' = payouts PROVE Final(p)
  BY <1>f
<1>1. ASSUME NEW q \in PayoutIds, NEW k \in PayoutKeys, NEW a \in Nat, NEW r \in Nat,
             ReservePayout(q, k, a, r)
      PROVE  Final(p)
  BY <1>1 DEF ReservePayout, CanReserve, WithReserved
<1>2. ASSUME NEW q \in PayoutIds, NEW v \in ProviderIds, NEW f \in Nat,
             CompletePayout(q, v, f)
      PROVE  Final(p)
  BY <1>0, <1>2 DEF CompletePayout, PayoutRow
<1>3. ASSUME NEW q \in PayoutIds, ReleasePayout(q)
      PROVE  Final(p)
  BY <1>0, <1>3 DEF ReleasePayout, PayoutRow
<1>4. ASSUME NEW q \in PayoutIds, NEW v \in ProviderIds, MarkPayoutAmbiguous(q, v)
      PROVE  Final(p)
  BY <1>0, <1>4 DEF MarkPayoutAmbiguous, PayoutRow
<1>5. ASSUME NEW k \in PayoutKeys, ResolveDeferredPayouts(k)
      PROVE  Final(p)
  <2>1. payouts'[p] = IF payouts[p].key = k /\ payouts[p].state = "deferred"
                      THEN [payouts[p] EXCEPT !.state = "resolved"] ELSE payouts[p]
    BY <1>5 DEF ResolveDeferredPayouts, ResolvedRows
  <2>2. p \in DOMAIN payouts'
    BY <1>5 DEF ResolveDeferredPayouts, ResolvedRows
  <2>3. QED BY <1>0, <2>1, <2>2 DEF PayoutRow
<1>6. ASSUME NEW q \in PayoutIds, NEW v \in ProviderIds, NEW f \in Nat,
             ReconcileSucceededPayoutFee(q, v, f)
      PROVE  Final(p)
  BY <1>0, <1>6 DEF ReconcileSucceededPayoutFee, PayoutRow
<1>7. ASSUME NEW q \in PayoutIds, SweepLegacySucceededPayoutRemainder(q)
      PROVE  Final(p)
  BY <1>7, <1>f DEF SweepLegacySucceededPayoutRemainder
<1>8. ASSUME NEW s \in SettlementIds, NEW k \in PayoutKeys, NEW a \in Nat,
             CreditSettledZap(s, k, a)
      PROVE  Final(p)
  BY <1>8, <1>f DEF CreditSettledZap
<1>9. ASSUME NEW k \in PayoutKeys, DeferPayout(k)
      PROVE  Final(p)
  BY <1>9, <1>f DEF DeferPayout
<1>10. CASE UNCHANGED ledgerVars
  BY <1>10, <1>f DEF ledgerVars, tables
<1>11. QED
  BY <1>1, <1>2, <1>3, <1>4, <1>5, <1>6, <1>7, <1>8, <1>9, <1>10 DEF LedgerCall

\* What was paid or charged stands, for every creator and payout: no call takes
\* a satoshi of a creator's or rewrites the outcome of a payout.
THEOREM LedgerOutcomesStand == LedgerSpec => OutcomesStand
<1>1. LedgerInv /\ [LedgerNext]_ledgerVars
        => [\A k \in PayoutKeys : CreatorFunds(k)' > CreatorFunds(k) - 1000]_ledgerVars
  BY FundsStep, NextIsCall
<1>2. LedgerInv /\ [LedgerNext]_ledgerVars
        => [\A p \in DOMAIN payouts :
              /\ p \in DOMAIN payouts'
              /\ Succeeded(p) => /\ payouts'[p].state = "succeeded"
                                 /\ payouts'[p].provider = payouts[p].provider
              /\ payouts[p].state \in {"deferred", "resolved"}
                   => payouts'[p].state \in {"deferred", "resolved"}]_ledgerVars
  BY OutcomeStep, NextIsCall DEF LedgerInv, Final
<1>3. QED
  BY <1>1, <1>2, LedgerInvariant, PTL
     DEF LedgerSpec, OutcomesStand, CreatorLosesOnlyDust, OutcomesAreFinal

----------------------------------------------------------------------------
(* The revenue service: what its calls may rely on *)

\* Local variables of the calls, and the snapshot a reconcileAll run visits.
CallsTyped ==
  /\ worker \in [Workers -> WorkerState]
  /\ seen \in [Reconcilers -> SUBSET PayoutKeys]
  /\ latest \in [PayoutKeys -> {"none", "attempting", "ambiguous", "succeeded",
                                "deferred", "resolved"}]
  /\ provider \in [PayoutIds -> ProviderStates]
  /\ crashes \in 0..MaxCrashes
  /\ todo = [w \in Reconcilers |-> todo[w]]
  /\ \A w \in Reconcilers : \A item \in todo[w] :
       /\ item.key \in PayoutKeys
       /\ item.lookup => item.row \in DOMAIN payouts

\* A call that knows a payout knows a row of the table.
HoldsPayout(w) == worker[w].at \in {"reserved", "paying", "lookup", "answered"}
CallsHoldRows == \A w \in Workers : HoldsPayout(w) => worker[w].payout \in DOMAIN payouts

\* Until a payout is dispatched nobody has asked the provider to pay it, and one
\* call at a time is about to.
DispatchedOnce ==
  /\ \A p \in PayoutIds \ DOMAIN payouts : provider[p] = "none"
  /\ \A w \in Workers : worker[w].at = "reserved" => provider[worker[w].payout] = "none"
  /\ \A v, w \in Workers :
       worker[v].at = "reserved" /\ worker[w].at = "reserved" => v = w

\* An answer that proves something still tells the truth when it is handled.
AnswersStayTrue ==
  \A w \in Workers :
    worker[w].at = "answered" /\ worker[w].answer # "open"
      => provider[worker[w].payout] = worker[w].answer

\* The outcome a row records is the provider's.
OutcomesAreReal ==
  \A p \in PayoutIds : /\ Succeeded(p) => provider[p] = "succeeded"
                       /\ Released(p) => provider[p] = "failed"

\* No payout is empty.
AmountsPositive == \A p \in DOMAIN payouts : payouts[p].amount >= 1

PayoutsInv ==
  /\ LedgerInv
  /\ CallsTyped
  /\ AttemptingIsOwned
  /\ CallsHoldRows
  /\ DispatchedOnce
  /\ AnswersStayTrue
  /\ OutcomesAreReal
  /\ AmountsPositive
  /\ WiredOverdraftBounded

----------------------------------------------------------------------------
(* What a call is waiting for *)

\* The local variables of a call at each of its awaits.
LEMMA WorkerFields ==
  ASSUME NEW s \in WorkerState
  PROVE  /\ s.at \in {"publishing", "quoting"} => s.key \in PayoutKeys
         /\ s.at = "quoting" => s.funds \in Nat
         /\ s.at \in {"reserved", "paying", "lookup", "answered"} => s.payout \in PayoutIds
         /\ s.at = "answered" => s.answer \in {"succeeded", "failed", "open"}
<1>1. CASE s \in {Idle, Visiting}
  BY <1>1 DEF Idle, Visiting
<1>2. CASE s \in [at : {"publishing"}, key : PayoutKeys]
  BY <1>2
<1>3. CASE s \in [at : {"quoting"}, key : PayoutKeys, funds : Nat]
  BY <1>3
<1>4. CASE s \in [at : {"reserved", "paying", "lookup"}, payout : PayoutIds]
  BY <1>4
<1>5. CASE s \in [at : {"answered"}, payout : PayoutIds,
                  answer : {"succeeded", "failed", "open"}]
  BY <1>5
<1>6. QED BY <1>1, <1>2, <1>3, <1>4, <1>5 DEF WorkerState

LEMMA WorkerMakes ==
  /\ Idle \in WorkerState /\ Visiting \in WorkerState
  /\ \A w : Resting(w) \in {Idle, Visiting}
  /\ \A k \in PayoutKeys : [at |-> "publishing", key |-> k] \in WorkerState
  /\ \A k \in PayoutKeys, n \in Nat : [at |-> "quoting", key |-> k, funds |-> n] \in WorkerState
  /\ \A p \in PayoutIds : /\ [at |-> "reserved", payout |-> p] \in WorkerState
                          /\ [at |-> "paying", payout |-> p] \in WorkerState
                          /\ [at |-> "lookup", payout |-> p] \in WorkerState
  /\ \A p \in PayoutIds, a \in {"succeeded", "failed", "open"} :
       [at |-> "answered", payout |-> p, answer |-> a] \in WorkerState
BY DEF WorkerState, Resting

LEMMA ReportProves ==
  ASSUME NEW p
  PROVE  /\ Report(p) \in {"succeeded", "failed", "open"}
         /\ Report(p) # "open" => provider[p] = Report(p)
BY DEF Report

----------------------------------------------------------------------------
(* The steps of the service by what they can disturb *)

\* A call that will still write the outcome of its payout.
Owns(w) == worker[w].at \in {"reserved", "paying", "answered"}

\* No row and no payment changes, and no call that owns a payout moves.
QuietStep ==
  /\ payouts' = payouts /\ provider' = provider /\ crashes' = crashes
  /\ wired' >= wired
  /\ \/ worker' = worker
     \/ \E w \in Workers, s \in WorkerState :
          /\ ~Owns(w) /\ Goto(w, s)
          /\ s.at \in {"idle", "next", "publishing", "quoting"}

\* A call learns which payout it is about, or what the provider says of it.
LearnStep ==
  /\ UNCHANGED <<ledgerVars, provider, crashes>>
  /\ \E w \in Workers, s \in WorkerState :
       /\ Goto(w, s)
       /\ s.payout \in DOMAIN payouts
       /\ \/ ~Owns(w) /\ s.at = "lookup"
          \/ /\ worker[w].at \in {"paying", "lookup"}
             /\ s.at = "answered" /\ s.payout = worker[w].payout
             /\ s.answer # "open" => provider[s.payout] = s.answer

OwnerStep ==
  \/ LoopFree /\ \E w \in Workers : QuoteReserves(w)
  \/ \E w \in Workers : Dispatch(w) \/ HandleAnswer(w)
  \/ \E p \in PayoutIds : Deliver(p) \/ Lose(p) \/ Conclude(p)
  \/ Crash

\* Attempting a payout up to its first await moves a call that owns nothing.
LEMMA AttemptIsQuiet ==
  ASSUME PayoutsInv, NEW w \in Workers, NEW k \in PayoutKeys, Attempt(w, k), ~Owns(w),
         UNCHANGED <<provider, crashes>>
  PROVE  QuietStep
<1>1. balance[k].available \in Nat /\ wired \in Int
  BY DEF PayoutsInv, LedgerInv, LedgerTypeOK, NeverOverdrawn
<1>2. payouts' = payouts /\ wired' = wired
  BY DEF Attempt, Defer, DeferPayout, ledgerVars, tables, sums
<1>3. \E s \in WorkerState : Goto(w, s) /\ s.at \in {"idle", "next", "publishing", "quoting"}
  <2>1. CASE Return(w)
    BY <2>1, WorkerMakes DEF Return, Idle, Visiting
  <2>2. CASE Goto(w, [at |-> "quoting", key |-> k, funds |-> balance[k].available])
    BY <1>1, <2>2, WorkerMakes
  <2>3. QED BY <2>1, <2>2 DEF Attempt
<1>4. QED BY <1>1, <1>2, <1>3 DEF QuietStep

LEMMA AnswerLearns ==
  ASSUME PayoutsInv, NEW w \in Workers, worker[w].at \in {"paying", "lookup"},
         NEW a \in {"succeeded", "failed", "open"}, Answer(w, a),
         a # "open" => provider[worker[w].payout] = a
  PROVE  LearnStep
<1> DEFINE s == [at |-> "answered", payout |-> worker[w].payout, answer |-> a]
<1>1. worker[w].payout \in PayoutIds /\ worker[w].payout \in DOMAIN payouts
  BY WorkerFields DEF PayoutsInv, CallsTyped, CallsHoldRows, HoldsPayout
<1>2. s \in WorkerState
  BY <1>1, WorkerMakes
<1>3. QED BY <1>1, <1>2 DEF LearnStep, Answer

LEMMA StepKinds == PayoutsInv /\ [Next]_vars => QuietStep \/ LearnStep \/ OwnerStep
<1> SUFFICES ASSUME PayoutsInv, [Next]_vars, ~OwnerStep PROVE QuietStep \/ LearnStep
  OBVIOUS
<1>0. /\ CallsTyped /\ wired \in Int
      /\ \A w \in Workers : worker[w] \in WorkerState
      /\ Idle \in WorkerState /\ Visiting \in WorkerState
      /\ \A w : Resting(w) \in {Idle, Visiting}
      /\ Webhooks \subseteq Workers /\ Reconcilers \subseteq Workers
  BY WorkerMakes DEF PayoutsInv, LedgerInv, LedgerTypeOK, CallsTyped, Workers
\* A call that owns nothing returns, the ledger at most notes a deferral.
<1>r. ASSUME NEW w \in Workers, ~Owns(w), Return(w), payouts' = payouts, wired' = wired,
             UNCHANGED <<provider, crashes>>
      PROVE  QuietStep
  BY <1>0, <1>r DEF Return, QuietStep, Idle, Visiting
<1>1. ASSUME NEW w \in Workers, QuoteFails(w) PROVE QuietStep
  BY <1>r, <1>1 DEF QuoteFails, Owns, Defer, DeferPayout, sums
<1>2. ASSUME NEW w \in Workers,
             ReserveThrows(w) \/ LookupThrows(w) \/ PublishFails(w)
      PROVE  QuietStep
  BY <1>r, <1>2 DEF ReserveThrows, LookupThrows, PublishFails, Owns, ledgerVars, tables, sums
<1>3. ASSUME NEW w \in Workers, PayReply(w) \/ PayThrows(w) \/ LookupReply(w)
      PROVE  LearnStep
  BY <1>3, AnswerLearns, ReportProves DEF PayReply, PayThrows, LookupReply
<1>4. ASSUME NEW w \in Workers, Published(w) PROVE QuietStep
  <2>1. worker[w].key \in PayoutKeys
    BY <1>0, <1>4, WorkerFields DEF Published
  <2>2. QED BY <1>4, <2>1, AttemptIsQuiet DEF Published, Owns
<1>5. ASSUME NEW w \in Reconcilers, NEW item \in todo[w], VisitDue(w, item)
      PROVE  QuietStep \/ LearnStep
  <2>1. item.key \in PayoutKeys /\ (item.lookup => item.row \in DOMAIN payouts)
    BY <1>0 DEF CallsTyped
  <2>2. ~Owns(w)
    BY <1>5 DEF VisitDue, Owns, Visiting
  <2>3. CASE item.lookup
    <3> DEFINE s == [at |-> "lookup", payout |-> item.row]
    <3>1. Goto(w, s) /\ UNCHANGED <<ledgerVars, provider, crashes>>
      BY <1>5, <2>3 DEF VisitDue
    <3>2. item.row \in PayoutIds
      BY <2>1, <2>3 DEF PayoutsInv, LedgerInv, LedgerTypeOK
    <3>3. s \in WorkerState
      BY <3>2, WorkerMakes
    <3>4. LearnStep
      BY <1>0, <2>1, <2>2, <2>3, <3>1, <3>3 DEF LearnStep
    <3>5. QED BY <3>4
  <2>4. CASE ~item.lookup
    <3>1. Attempt(w, item.key) /\ UNCHANGED <<provider, crashes>>
      BY <1>5, <2>4 DEF VisitDue
    <3>2. QED BY <1>0, <2>1, <2>2, <3>1, AttemptIsQuiet
  <2>5. QED BY <2>3, <2>4
<1>6. ASSUME NEW w \in Reconcilers, NEW k \in PayoutKeys, VisitActive(w, k)
      PROVE  QuietStep
  <2>1. ~Owns(w)
    BY <1>6 DEF VisitActive, Owns, Visiting
  <2>2. CASE Attempt(w, k)
    BY <1>0, <1>6, <2>1, <2>2, AttemptIsQuiet DEF VisitActive
  <2>3. CASE UNCHANGED <<ledgerVars, worker, latest>>
    BY <1>0, <1>6, <2>3 DEF VisitActive, QuietStep, ledgerVars, tables, sums
  <2>4. QED BY <1>6, <2>2, <2>3 DEF VisitActive
<1>7. ASSUME NEW w \in Reconcilers, FinishReconcile(w)
      PROVE  QuietStep
  <2>1. ~Owns(w)
    BY <1>7 DEF FinishReconcile, Owns, Visiting
  <2>2. Idle.at = "idle"
    BY DEF Idle
  <2>3. QED
    BY <1>0, <1>7, <2>1, <2>2 DEF FinishReconcile, QuietStep, ledgerVars, tables, sums
<1>8. ASSUME NEW w \in Webhooks, NEW s \in SettlementIds, ReconcileInvoice(w, s)
      PROVE  QuietStep
  <2>1. ZapKey[s] \in PayoutKeys /\ ZapAmount[s] \in Nat
    BY ServiceAssumption
  <2>2. payouts' = payouts /\ wired' >= wired
    <3>1. CASE CreditSettledZap(s, ZapKey[s], ZapAmount[s])
      <4>1. ZapAmount[s] - CreatorShare(ZapAmount[s]) \in Nat
        BY <2>1, ShareSplit
      <4>2. QED BY <1>0, <3>1, <4>1 DEF CreditSettledZap, Post
    <3>2. CASE UNCHANGED ledgerVars
      BY <1>0, <3>2 DEF ledgerVars, tables, sums
    <3>3. QED BY <1>8, <3>1, <3>2 DEF ReconcileInvoice
  <2>3. [at |-> "publishing", key |-> ZapKey[s]] \in WorkerState
    BY <2>1, WorkerMakes
  <2>4. ~Owns(w)
    BY <1>8 DEF ReconcileInvoice, Owns, Idle
  <2>5. QED BY <1>0, <1>8, <2>2, <2>3, <2>4 DEF ReconcileInvoice, QuietStep
<1>9. ASSUME NEW w \in Reconcilers, NEW due \in SUBSET OpenItems, StartReconcile(w, due)
      PROVE  QuietStep
  <2>1. ~Owns(w) /\ Visiting.at = "next"
    BY <1>9 DEF StartReconcile, Owns, Idle, Visiting
  <2>2. QED BY <1>0, <1>9, <2>1 DEF StartReconcile, QuietStep, ledgerVars, tables, sums
<1>10. CASE UNCHANGED vars
  BY <1>0, <1>10 DEF vars, serviceVars, ledgerVars, tables, sums, QuietStep
<1>11. ASSUME NEW w \in Workers, Call(w) PROVE QuietStep \/ LearnStep
  BY <1>1, <1>2, <1>3, <1>4, <1>11 DEF Call, OwnerStep
<1>12. ASSUME NEW w \in Reconcilers, Reconcile(w) PROVE QuietStep \/ LearnStep
  BY <1>5, <1>6, <1>7, <1>12 DEF Reconcile
<1>13. QED
  BY <1>8, <1>9, <1>10, <1>11, <1>12 DEF Next, OwnerStep

----------------------------------------------------------------------------
(* The ledger under the service *)

\* The size of a payout is a whole number of satoshis and what is left of a
\* satoshi (attemptPayout).
LEMMA PayoutSize ==
  ASSUME NEW n \in Nat
  PROVE  WholeSats(n) \in Nat /\ n - WholeSats(n) \in 0..999
BY SMT DEF WholeSats

\* What QuoteReserves does, with the types of its local values.
LEMMA ReservesRow ==
  ASSUME PayoutsInv, NEW w \in Workers, QuoteReserves(w)
  PROVE  \E p \in PayoutIds, k \in PayoutKeys, a \in Nat, r \in Nat :
           /\ a >= 1
           /\ ReservePayout(p, k, a, r)
           /\ Goto(w, [at |-> "reserved", payout |-> p])
           /\ Wrote(k, "attempting")
<1>1. PICK limit \in MaxSendables, p \in NewPayout :
        LET k == worker[w].key
            amount == WholeSats(Basis(w, limit))
            rounding == Basis(w, limit) - amount
        IN  /\ CanReserve(p, k, amount, rounding)
            /\ payouts' = WithReserved(p, k, amount, rounding)
            /\ PostReserve(p, k, amount, rounding)
            /\ Wrote(k, "attempting")
            /\ Goto(w, [at |-> "reserved", payout |-> p])
  BY DEF QuoteReserves
<1>2. worker[w].key \in PayoutKeys /\ worker[w].funds \in Nat
  BY WorkerFields DEF QuoteReserves, PayoutsInv, CallsTyped
<1>3. Basis(w, limit) \in Nat
  BY <1>2, ServiceAssumption DEF Basis
<1>4. WholeSats(Basis(w, limit)) \in Nat /\ Basis(w, limit) - WholeSats(Basis(w, limit)) \in Nat
  <2> DEFINE n == Basis(w, limit)
  <2>1. n \in Nat
    BY <1>3
  <2> HIDE DEF n
  <2>2. WholeSats(n) \in Nat /\ n - WholeSats(n) \in 0..999
    BY <2>1, PayoutSize
  <2>3. QED BY <2>2 DEF n
<1>5. p \in PayoutIds
  BY DEF NewPayout
<1>6. WholeSats(Basis(w, limit)) >= 1
  BY <1>1, <1>4 DEF CanReserve
<1>7. ReservePayout(p, worker[w].key, WholeSats(Basis(w, limit)),
                    Basis(w, limit) - WholeSats(Basis(w, limit)))
  BY <1>1 DEF ReservePayout, QuoteReserves
<1>8. QED BY <1>1, <1>2, <1>4, <1>5, <1>6, <1>7

\* What handling an answer does to the rows: nothing, or what the answer says.
LEMMA HandlesAnswer ==
  ASSUME PayoutsInv, NEW w \in Workers, HandleAnswer(w)
  PROVE  LET p == worker[w].payout
             answer == worker[w].answer
         IN  /\ p \in DOMAIN payouts /\ payouts[p].key \in PayoutKeys
             /\ \/ /\ answer = "succeeded"
                   /\ \E v \in ProviderIds, f \in 0..MaxRoutingFee : CompletePayout(p, v, f)
                   /\ Wrote(payouts[p].key, "succeeded")
                \/ /\ answer = "failed" /\ ReleasePayout(p)
                   /\ Wrote(payouts[p].key, "deferred")
                \/ /\ answer = "open" /\ \E v \in ProviderIds : MarkPayoutAmbiguous(p, v)
                   /\ Wrote(payouts[p].key, "ambiguous")
                \/ ~Active(p) /\ UNCHANGED <<ledgerVars, latest>>
<1> DEFINE p == worker[w].payout
<1>1. p \in DOMAIN payouts
  BY DEF HandleAnswer, PayoutsInv, CallsHoldRows, HoldsPayout
<1>2. payouts[p].key \in PayoutKeys
  BY <1>1, RowAmounts DEF PayoutsInv, LedgerInv, LedgerTypeOK
<1>3. Fees \subseteq 0..MaxRoutingFee
  BY ServiceAssumption
<1>4. QED BY <1>1, <1>2, <1>3 DEF HandleAnswer

LEMMA DispatchesRow ==
  ASSUME PayoutsInv, NEW w \in Workers, Dispatch(w)
  PROVE  LET p == worker[w].payout
         IN  /\ p \in DOMAIN payouts /\ p \in PayoutIds /\ payouts[p].key \in PayoutKeys
             /\ ResolveDeferredPayouts(payouts[p].key)
             /\ provider' = [provider EXCEPT ![p] = "sent"]
             /\ Goto(w, [at |-> "paying", payout |-> p])
             /\ Wrote(payouts[p].key, "attempting") \/ Wrote(payouts[p].key, "resolved")
<1> DEFINE p == worker[w].payout
<1>1. p \in DOMAIN payouts
  BY DEF Dispatch, PayoutsInv, CallsHoldRows, HoldsPayout
<1>2. payouts[p].key \in PayoutKeys /\ p \in PayoutIds
  BY <1>1, RowAmounts DEF PayoutsInv, LedgerInv, LedgerTypeOK
<1>3. QED BY <1>1, <1>2 DEF Dispatch

\* Attempting a payout touches the ledger by a deferral at most.
LEMMA AttemptDefers ==
  ASSUME NEW w, NEW k \in PayoutKeys, Attempt(w, k)
  PROVE  \/ UNCHANGED <<ledgerVars, latest>>
         \/ DeferPayout(k) /\ Wrote(k, "deferred")
BY DEF Attempt, Defer

\* A step of the service calls at most one method of the ledger.
LEMMA ServiceCallsLedger == PayoutsInv /\ [Next]_vars => [LedgerCall]_ledgerVars
<1> SUFFICES ASSUME PayoutsInv, [Next]_vars PROVE [LedgerCall]_ledgerVars
  OBVIOUS
<1>0. \A w \in Workers : worker[w] \in WorkerState
  BY DEF PayoutsInv, CallsTyped
<1>1. ASSUME NEW w \in Workers, QuoteFails(w) PROVE LedgerCall
  BY <1>0, <1>1, WorkerFields DEF QuoteFails, Defer, LedgerCall
<1>2. ASSUME NEW w \in Workers, QuoteReserves(w) PROVE LedgerCall
  <2>1. PICK p \in PayoutIds, k \in PayoutKeys, a \in Nat, r \in Nat : ReservePayout(p, k, a, r)
    BY <1>2, ReservesRow
  <2>2. QED BY <2>1 DEF LedgerCall
<1>3. ASSUME NEW w \in Workers, Dispatch(w) PROVE LedgerCall
  BY <1>3, DispatchesRow DEF LedgerCall
<1>4. ASSUME NEW w \in Workers, HandleAnswer(w) PROVE [LedgerCall]_ledgerVars
  <2> DEFINE p == worker[w].payout
  <2>1. p \in PayoutIds
    BY <1>0, <1>4, WorkerFields DEF HandleAnswer
  <2>2. \/ \E v \in ProviderIds, f \in 0..MaxRoutingFee : CompletePayout(p, v, f)
        \/ ReleasePayout(p)
        \/ \E v \in ProviderIds : MarkPayoutAmbiguous(p, v)
        \/ UNCHANGED ledgerVars
    BY <1>4, HandlesAnswer
  <2>3. ASSUME NEW v \in ProviderIds, NEW f \in 0..MaxRoutingFee, CompletePayout(p, v, f)
        PROVE  LedgerCall
    <3>1. f \in Nat
      BY ServiceAssumption
    <3>2. QED BY <2>1, <2>3, <3>1 DEF LedgerCall
  <2>4. QED BY <2>1, <2>2, <2>3 DEF LedgerCall
<1>5. ASSUME NEW w \in Workers, Published(w) PROVE [LedgerCall]_ledgerVars
  <2>1. worker[w].key \in PayoutKeys
    BY <1>0, <1>5, WorkerFields DEF Published
  <2>2. QED BY <1>5, <2>1, AttemptDefers DEF Published, LedgerCall
<1>6. ASSUME NEW w \in Reconcilers, NEW item \in todo[w], VisitDue(w, item)
      PROVE  [LedgerCall]_ledgerVars
  <2>1. item.key \in PayoutKeys
    BY DEF PayoutsInv, CallsTyped
  <2>2. QED BY <1>6, <2>1, AttemptDefers DEF VisitDue, LedgerCall
<1>7. ASSUME NEW w \in Reconcilers, NEW k \in PayoutKeys, VisitActive(w, k)
      PROVE  [LedgerCall]_ledgerVars
  BY <1>7, AttemptDefers DEF VisitActive, LedgerCall
<1>8. ASSUME NEW w \in Webhooks, NEW s \in SettlementIds, ReconcileInvoice(w, s)
      PROVE  [LedgerCall]_ledgerVars
  <2>1. ZapKey[s] \in PayoutKeys /\ ZapAmount[s] \in Nat
    BY ServiceAssumption
  <2>2. QED BY <1>8, <2>1 DEF ReconcileInvoice, LedgerCall
<1>9. ASSUME NEW w \in Workers, Call(w) PROVE [LedgerCall]_ledgerVars
  BY <1>1, <1>2, <1>3, <1>4, <1>5, <1>9
     DEF Call, ReserveThrows, PayReply, PayThrows, LookupReply, LookupThrows, Answer,
         PublishFails
<1>10. ASSUME NEW w \in Reconcilers, Reconcile(w) PROVE [LedgerCall]_ledgerVars
  BY <1>6, <1>7, <1>10 DEF Reconcile, FinishReconcile
<1>11. QED
  BY <1>8, <1>9, <1>10
     DEF Next, StartReconcile, Deliver, Lose, Conclude, Crash, vars

\* Rows are never deleted and keep their key and their amounts.
LEMMA RowsKeep ==
  ASSUME LedgerTypeOK, [LedgerCall]_ledgerVars, NEW p \in DOMAIN payouts
  PROVE  /\ p \in DOMAIN payouts'
         /\ payouts'[p].key = payouts[p].key
         /\ payouts'[p].amount = payouts[p].amount
         /\ payouts'[p].rounding = payouts[p].rounding
<1> DEFINE Keeps == /\ p \in DOMAIN payouts'
                    /\ payouts'[p].key = payouts[p].key
                    /\ payouts'[p].amount = payouts[p].amount
                    /\ payouts'[p].rounding = payouts[p].rounding
<1>0. payouts[p] \in PayoutRow
  BY DEF LedgerTypeOK
<1>1. ASSUME NEW q \in PayoutIds, NEW k \in PayoutKeys, NEW a \in Nat, NEW r \in Nat,
             ReservePayout(q, k, a, r)
      PROVE  Keeps
  BY <1>1 DEF ReservePayout, CanReserve, WithReserved
<1>2. ASSUME NEW q \in PayoutIds, NEW v \in ProviderIds, NEW f \in Nat,
             CompletePayout(q, v, f)
      PROVE  Keeps
  BY <1>0, <1>2 DEF CompletePayout, PayoutRow
<1>3. ASSUME NEW q \in PayoutIds, ReleasePayout(q)
      PROVE  Keeps
  BY <1>0, <1>3 DEF ReleasePayout, PayoutRow
<1>4. ASSUME NEW q \in PayoutIds, NEW v \in ProviderIds, MarkPayoutAmbiguous(q, v)
      PROVE  Keeps
  BY <1>0, <1>4 DEF MarkPayoutAmbiguous, PayoutRow
<1>5. ASSUME NEW k \in PayoutKeys, ResolveDeferredPayouts(k)
      PROVE  Keeps
  <2>1. p \in DOMAIN payouts'
        /\ payouts'[p] \in {payouts[p], [payouts[p] EXCEPT !.state = "resolved"]}
    BY <1>5 DEF ResolveDeferredPayouts, ResolvedRows
  <2>2. QED BY <1>0, <2>1 DEF PayoutRow
<1>6. ASSUME NEW q \in PayoutIds, NEW v \in ProviderIds, NEW f \in Nat,
             ReconcileSucceededPayoutFee(q, v, f)
      PROVE  Keeps
  BY <1>0, <1>6 DEF ReconcileSucceededPayoutFee, PayoutRow
<1>7. CASE payouts' = payouts
  BY <1>7
<1>8. QED
  BY <1>1, <1>2, <1>3, <1>4, <1>5, <1>6, <1>7
     DEF LedgerCall, CreditSettledZap, DeferPayout, SweepLegacySucceededPayoutRemainder,
         ledgerVars, tables

----------------------------------------------------------------------------
(* Every step preserves each part of the invariant *)

\* Calls, snapshots and what is known of the provider keep their types.
LEMMA CallsTypedStep == PayoutsInv /\ [Next]_vars => CallsTyped'
<1> SUFFICES ASSUME PayoutsInv, [Next]_vars PROVE CallsTyped'
  OBVIOUS
<1>0. CallsTyped /\ LedgerTypeOK /\ Webhooks \subseteq Workers /\ Reconcilers \subseteq Workers
  BY DEF PayoutsInv, LedgerInv, Workers
<1>1. worker' \in [Workers -> WorkerState]
  <2>1. ASSUME NEW w \in Workers, NEW s \in WorkerState, Goto(w, s)
        PROVE  worker' \in [Workers -> WorkerState]
    BY <1>0, <2>1 DEF CallsTyped, Goto
  <2>2. CASE QuietStep
    BY <1>0, <2>1, <2>2 DEF QuietStep, CallsTyped
  <2>3. CASE LearnStep
    BY <2>1, <2>3 DEF LearnStep
  <2>4. ASSUME NEW w \in Workers, QuoteReserves(w) PROVE worker' \in [Workers -> WorkerState]
    <3>1. PICK p \in PayoutIds : Goto(w, [at |-> "reserved", payout |-> p])
      BY <2>4, ReservesRow
    <3>2. QED BY <2>1, <3>1, WorkerMakes
  <2>5. ASSUME NEW w \in Workers, Dispatch(w) PROVE worker' \in [Workers -> WorkerState]
    BY <2>1, <2>5, DispatchesRow, WorkerMakes
  <2>6. ASSUME NEW w \in Workers, HandleAnswer(w) PROVE worker' \in [Workers -> WorkerState]
    BY <2>1, <2>6, WorkerMakes DEF HandleAnswer, Return
  <2>7. ASSUME NEW p \in PayoutIds, Deliver(p) \/ Lose(p) \/ Conclude(p)
        PROVE  worker' \in [Workers -> WorkerState]
    BY <1>0, <2>7 DEF Deliver, Lose, Conclude, serviceVars, CallsTyped
  <2>8. CASE Crash
    BY <2>8, WorkerMakes DEF Crash
  <2>9. QED BY <2>2, <2>3, <2>4, <2>5, <2>6, <2>7, <2>8, StepKinds DEF OwnerStep
<1>2. provider' \in [PayoutIds -> ProviderStates]
  <2>1. ASSUME NEW p \in PayoutIds, NEW state \in ProviderStates,
               provider' = [provider EXCEPT ![p] = state]
        PROVE  provider' \in [PayoutIds -> ProviderStates]
    BY <1>0, <2>1 DEF CallsTyped
  <2>2. CASE provider' = provider
    BY <1>0, <2>2 DEF CallsTyped
  <2>3. ASSUME NEW w \in Workers, Dispatch(w) PROVE provider' \in [PayoutIds -> ProviderStates]
    BY <2>1, <2>3, DispatchesRow DEF ProviderStates
  <2>4. ASSUME NEW p \in PayoutIds, Deliver(p) \/ Lose(p) \/ Conclude(p)
        PROVE  provider' \in [PayoutIds -> ProviderStates]
    BY <2>1, <2>4 DEF Deliver, Lose, Conclude, ProviderStates
  <2>5. QED
    BY <2>2, <2>3, <2>4, StepKinds
       DEF QuietStep, LearnStep, OwnerStep, QuoteReserves, HandleAnswer, Crash
<1>3. crashes' \in 0..MaxCrashes
  <2>1. crashes' = crashes \/ Crash
    BY StepKinds
       DEF QuietStep, LearnStep, OwnerStep, QuoteReserves, Dispatch, HandleAnswer,
           Deliver, Lose, Conclude
  <2>2. QED BY <1>0, <2>1, ServiceAssumption DEF CallsTyped, Crash
<1>4. latest' \in [PayoutKeys -> {"none", "attempting", "ambiguous", "succeeded",
                                  "deferred", "resolved"}]
  <2> DEFINE States == {"none", "attempting", "ambiguous", "succeeded", "deferred", "resolved"}
  <2>1. ASSUME NEW k \in PayoutKeys, NEW state \in States, Wrote(k, state)
        PROVE  latest' \in [PayoutKeys -> States]
    BY <1>0, <2>1 DEF CallsTyped, Wrote
  <2>2. ASSUME UNCHANGED latest PROVE latest' \in [PayoutKeys -> States]
    BY <1>0, <2>2 DEF CallsTyped
  <2>3. ASSUME NEW k \in PayoutKeys, NEW w, Attempt(w, k)
        PROVE  latest' \in [PayoutKeys -> States]
    BY <2>1, <2>2, <2>3, AttemptDefers
  <2>4. ASSUME NEW w \in Workers, QuoteFails(w) \/ Published(w)
        PROVE  latest' \in [PayoutKeys -> States]
    <3>1. worker[w].key \in PayoutKeys
      BY <1>0, <2>4, WorkerFields DEF QuoteFails, Published, CallsTyped
    <3>2. QED BY <2>1, <2>3, <2>4, <3>1 DEF QuoteFails, Published, Defer
  <2>5. ASSUME NEW w \in Workers, QuoteReserves(w) PROVE latest' \in [PayoutKeys -> States]
    BY <2>1, <2>5, ReservesRow
  <2>6. ASSUME NEW w \in Workers, Dispatch(w) PROVE latest' \in [PayoutKeys -> States]
    BY <2>1, <2>6, DispatchesRow
  <2>7. ASSUME NEW w \in Workers, HandleAnswer(w) PROVE latest' \in [PayoutKeys -> States]
    <3>1. payouts[worker[w].payout].key \in PayoutKeys
          /\ \/ \E state \in States : Wrote(payouts[worker[w].payout].key, state)
             \/ UNCHANGED latest
      BY <2>7, HandlesAnswer
    <3>2. QED BY <2>1, <2>2, <3>1
  <2>8. ASSUME NEW w \in Reconcilers, NEW item \in todo[w], VisitDue(w, item)
        PROVE  latest' \in [PayoutKeys -> States]
    <3>1. item.key \in PayoutKeys
      BY <1>0 DEF CallsTyped
    <3>2. QED BY <2>2, <2>3, <2>8, <3>1 DEF VisitDue
  <2>9. ASSUME NEW w \in Reconcilers, NEW k \in PayoutKeys, VisitActive(w, k)
        PROVE  latest' \in [PayoutKeys -> States]
    BY <2>2, <2>3, <2>9 DEF VisitActive
  <2> HIDE DEF States
  <2>10. latest' \in [PayoutKeys -> States]
    <3>1. ASSUME NEW w \in Workers, Call(w) PROVE latest' \in [PayoutKeys -> States]
      BY <2>2, <2>4, <2>5, <2>6, <2>7, <3>1
         DEF Call, ReserveThrows, PayReply, PayThrows, LookupReply, LookupThrows, Answer,
             PublishFails
    <3>2. ASSUME NEW w \in Reconcilers, Reconcile(w) PROVE latest' \in [PayoutKeys -> States]
      BY <2>2, <2>8, <2>9, <3>2 DEF Reconcile, FinishReconcile
    <3>3. ASSUME UNCHANGED vars PROVE latest' \in [PayoutKeys -> States]
      BY <2>2, <3>3 DEF vars, serviceVars
    <3>4. QED
      BY <2>2, <3>1, <3>2, <3>3
         DEF Next, ReconcileInvoice, StartReconcile, Deliver, Lose, Conclude, Crash, serviceVars
  <2>11. QED BY <2>10 DEF States
<1>5. /\ seen' \in [Reconcilers -> SUBSET PayoutKeys]
      /\ todo' = [w \in Reconcilers |-> todo'[w]]
      /\ \A w \in Reconcilers : \A item \in todo'[w] :
           /\ item.key \in PayoutKeys
           /\ item.lookup => item.row \in DOMAIN payouts
  <2> DEFINE Good == /\ seen' \in [Reconcilers -> SUBSET PayoutKeys]
                     /\ todo' = [w \in Reconcilers |-> todo'[w]]
                     /\ \A w \in Reconcilers : \A item \in todo'[w] :
                          /\ item.key \in PayoutKeys
                          /\ item.lookup => item.row \in DOMAIN payouts
  <2>1. ASSUME UNCHANGED <<todo, seen>> PROVE Good
    BY <1>0, <2>1 DEF CallsTyped
  <2>2. ASSUME NEW w \in Reconcilers, NEW item \in todo[w], VisitDue(w, item)
        PROVE  Good
    BY <1>0, <2>2 DEF VisitDue, CallsTyped
  <2>3. ASSUME NEW w \in Reconcilers, NEW k \in PayoutKeys, VisitActive(w, k)
        PROVE  Good
    BY <1>0, <2>3 DEF VisitActive, CallsTyped
  <2>4. ASSUME NEW w \in Reconcilers, NEW due \in SUBSET OpenItems, StartReconcile(w, due)
        PROVE  Good
    <3>1. ASSUME NEW item \in OpenItems
          PROVE  item.key \in PayoutKeys /\ (item.lookup => item.row \in DOMAIN payouts)
      <4>1. CASE \E p \in DOMAIN payouts : item = PayoutItem(p)
        <5>1. \A p \in DOMAIN payouts : payouts[p].key \in PayoutKeys
          BY <1>0, RowAmounts DEF LedgerTypeOK
        <5>2. QED BY <4>1, <5>1 DEF PayoutItem
      <4>2. CASE \E k \in PayoutKeys : item = DeferralItem(k)
        BY <4>2 DEF DeferralItem
      <4>3. QED BY <4>1, <4>2 DEF OpenItems
    <3>2. todo' = [todo EXCEPT ![w] = due] /\ seen' = [seen EXCEPT ![w] = {}]
      BY <2>4 DEF StartReconcile
    <3>3. QED BY <1>0, <3>1, <3>2 DEF CallsTyped
  <2>5. ASSUME Crash PROVE Good
    BY <2>5 DEF Crash
  <2> HIDE DEF Good
  <2>6. Good
    <3>1. ASSUME NEW w \in Workers, Call(w) PROVE UNCHANGED <<todo, seen>>
      BY <3>1
         DEF Call, QuoteFails, QuoteReserves, Dispatch, Published, HandleAnswer,
             ReserveThrows, PayReply, PayThrows, LookupReply, LookupThrows, Answer, PublishFails
    <3>2. ASSUME NEW w \in Reconcilers, Reconcile(w) PROVE Good
      BY <2>1, <2>2, <2>3, <3>2 DEF Reconcile, FinishReconcile
    <3>3. ASSUME UNCHANGED vars PROVE Good
      BY <2>1, <3>3 DEF vars, serviceVars
    <3>4. QED
      BY <2>1, <2>4, <2>5, <3>1, <3>2, <3>3
         DEF Next, ReconcileInvoice, Deliver, Lose, Conclude, serviceVars
  <2>7. QED BY <2>6 DEF Good
<1>6. DOMAIN payouts \subseteq DOMAIN payouts'
  BY <1>0, ServiceCallsLedger, RowsKeep
<1>7. QED BY <1>1, <1>2, <1>3, <1>4, <1>5, <1>6 DEF CallsTyped

\* A call that holds a payout keeps holding a row.
LEMMA CallsHoldRowsStep == PayoutsInv /\ [Next]_vars => CallsHoldRows'
<1> SUFFICES ASSUME PayoutsInv, [Next]_vars, NEW v \in Workers, HoldsPayout(v)'
             PROVE  worker'[v].payout \in DOMAIN payouts'
  BY DEF CallsHoldRows
<1>0. DOMAIN payouts \subseteq DOMAIN payouts' /\ DOMAIN worker = Workers
      /\ (HoldsPayout(v) => worker[v].payout \in DOMAIN payouts)
  BY ServiceCallsLedger, RowsKeep DEF PayoutsInv, LedgerInv, CallsHoldRows, CallsTyped
<1>1. CASE worker'[v] = worker[v]
  BY <1>0, <1>1 DEF HoldsPayout
<1>2. CASE QuietStep
  BY <1>0, <1>1, <1>2 DEF QuietStep, Goto, HoldsPayout
<1>3. CASE LearnStep
  BY <1>0, <1>1, <1>3 DEF LearnStep, Goto
<1>4. ASSUME NEW w \in Workers, QuoteReserves(w)
      PROVE  worker'[v].payout \in DOMAIN payouts'
  <2>1. PICK p \in PayoutIds, k \in PayoutKeys, a \in Nat, r \in Nat :
          ReservePayout(p, k, a, r) /\ Goto(w, [at |-> "reserved", payout |-> p])
    BY <1>4, ReservesRow
  <2>2. p \in DOMAIN payouts'
    BY <2>1 DEF ReservePayout, WithReserved
  <2>3. QED BY <1>0, <1>1, <2>1, <2>2 DEF Goto
<1>5. ASSUME NEW w \in Workers, Dispatch(w)
      PROVE  worker'[v].payout \in DOMAIN payouts'
  BY <1>0, <1>1, <1>5, DispatchesRow DEF Goto
<1>6. ASSUME NEW w \in Workers, HandleAnswer(w)
      PROVE  worker'[v].payout \in DOMAIN payouts'
  BY <1>0, <1>1, <1>6, WorkerMakes DEF HandleAnswer, Return, Goto, HoldsPayout, Idle, Visiting
<1>7. ASSUME NEW p \in PayoutIds, Deliver(p) \/ Lose(p) \/ Conclude(p)
      PROVE  worker'[v].payout \in DOMAIN payouts'
  BY <1>1, <1>7 DEF Deliver, Lose, Conclude, serviceVars
<1>8. CASE Crash
  BY <1>8 DEF Crash, HoldsPayout, Idle
<1>9. QED BY <1>2, <1>3, <1>4, <1>5, <1>6, <1>7, <1>8, StepKinds DEF OwnerStep

\* No payment is dispatched twice.
LEMMA DispatchedOnceStep == PayoutsInv /\ [Next]_vars => DispatchedOnce'
<1> SUFFICES ASSUME PayoutsInv, [Next]_vars PROVE DispatchedOnce'
  OBVIOUS
<1>0. DispatchedOnce /\ DOMAIN payouts \subseteq DOMAIN payouts' /\ DOMAIN worker = Workers
      /\ provider \in [PayoutIds -> ProviderStates]
      /\ \A w \in Workers : HoldsPayout(w) => worker[w].payout \in DOMAIN payouts
  BY ServiceCallsLedger, RowsKeep DEF PayoutsInv, LedgerInv, CallsHoldRows, CallsTyped
\* No call comes to hold a reservation that was not dispatched.
<1>f. ASSUME provider' = provider,
             \A w \in Workers : worker'[w].at = "reserved" => worker'[w] = worker[w]
      PROVE  DispatchedOnce'
  BY <1>0, <1>f DEF DispatchedOnce
<1>1. CASE QuietStep
  BY <1>0, <1>1, <1>f DEF QuietStep, Goto
<1>2. CASE LearnStep
  BY <1>0, <1>2, <1>f DEF LearnStep, Goto
<1>3. ASSUME NEW w \in Workers, QuoteReserves(w), LoopFree PROVE DispatchedOnce'
  <2>1. PICK p \in PayoutIds, k \in PayoutKeys, a \in Nat, r \in Nat :
          ReservePayout(p, k, a, r) /\ Goto(w, [at |-> "reserved", payout |-> p])
    BY <1>3, ReservesRow
  <2>2. p \notin DOMAIN payouts /\ provider[p] = "none" /\ provider' = provider
    BY <1>0, <1>3, <2>1 DEF ReservePayout, CanReserve, DispatchedOnce, QuoteReserves
  <2>3. \A v \in Workers : worker'[v].at = "reserved" => v = w /\ worker'[v].payout = p
    BY <1>0, <1>3, <2>1 DEF LoopFree, Goto
  <2>4. QED BY <1>0, <2>2, <2>3 DEF DispatchedOnce
<1>4. ASSUME NEW w \in Workers, Dispatch(w) PROVE DispatchedOnce'
  <2> DEFINE p == worker[w].payout
  <2>1. p \in DOMAIN payouts /\ provider' = [provider EXCEPT ![p] = "sent"]
        /\ Goto(w, [at |-> "paying", payout |-> p]) /\ worker[w].at = "reserved"
    BY <1>4, DispatchesRow DEF Dispatch
  <2>2. \A v \in Workers : worker'[v].at # "reserved"
    BY <1>0, <2>1 DEF DispatchedOnce, Goto
  <2> HIDE DEF p
  <2>3. \A q \in PayoutIds \ DOMAIN payouts' : provider'[q] = "none"
    BY <1>0, <2>1 DEF DispatchedOnce
  <2>4. QED BY <2>2, <2>3 DEF DispatchedOnce
<1>5. ASSUME NEW w \in Workers, HandleAnswer(w) PROVE DispatchedOnce'
  BY <1>0, <1>5, <1>f, WorkerMakes DEF HandleAnswer, Return, Goto, Idle, Visiting
<1>6. ASSUME NEW p \in PayoutIds, Deliver(p) \/ Lose(p) \/ Conclude(p)
      PROVE  DispatchedOnce'
  <2>1. provider[p] # "none" /\ \A q \in PayoutIds \ {p} : provider'[q] = provider[q]
    BY <1>0, <1>6 DEF Deliver, Lose, Conclude
  <2>2. worker' = worker
    BY <1>6 DEF Deliver, Lose, Conclude, serviceVars
  <2>3. \A w \in Workers : worker[w].at = "reserved" => worker[w].payout \in PayoutIds
    BY <1>0 DEF HoldsPayout, PayoutsInv, LedgerInv, LedgerTypeOK
  <2>4. QED BY <1>0, <2>1, <2>2, <2>3 DEF DispatchedOnce
<1>7. CASE Crash
  BY <1>7, <1>f DEF Crash, Idle
<1>8. QED
  BY <1>1, <1>2, <1>3, <1>4, <1>5, <1>6, <1>7, StepKinds DEF OwnerStep

\* An answer that proves something stays true until it is handled.
LEMMA AnswersStayTrueStep == PayoutsInv /\ [Next]_vars => AnswersStayTrue'
<1> SUFFICES ASSUME PayoutsInv, [Next]_vars PROVE AnswersStayTrue'
  OBVIOUS
<1>0. AnswersStayTrue /\ DispatchedOnce /\ DOMAIN worker = Workers
      /\ provider \in [PayoutIds -> ProviderStates]
      /\ \A w \in Workers : worker[w].at = "answered"
           => worker[w].payout \in PayoutIds
              /\ worker[w].answer \in {"succeeded", "failed", "open"}
  BY WorkerFields DEF PayoutsInv, CallsTyped
<1>f. ASSUME provider' = provider,
             \A w \in Workers : worker'[w].at = "answered" => worker'[w] = worker[w]
      PROVE  AnswersStayTrue'
  BY <1>0, <1>f DEF AnswersStayTrue
<1>1. CASE QuietStep
  BY <1>0, <1>1, <1>f DEF QuietStep, Goto
<1>2. CASE LearnStep
  <2>1. PICK w \in Workers, s \in WorkerState :
          /\ Goto(w, s)
          /\ s.at = "lookup" \/ (s.answer # "open" => provider[s.payout] = s.answer)
    BY <1>2 DEF LearnStep
  <2>2. provider' = provider
    BY <1>2 DEF LearnStep
  <2>3. QED BY <1>0, <2>1, <2>2 DEF AnswersStayTrue, Goto
<1>3. ASSUME NEW w \in Workers, QuoteReserves(w) PROVE AnswersStayTrue'
  <2>1. PICK p \in PayoutIds : Goto(w, [at |-> "reserved", payout |-> p])
    BY <1>3, ReservesRow
  <2>2. provider' = provider
    BY <1>3 DEF QuoteReserves
  <2>3. QED BY <1>0, <1>f, <2>1, <2>2 DEF Goto
<1>4. ASSUME NEW w \in Workers, Dispatch(w) PROVE AnswersStayTrue'
  <2> DEFINE p == worker[w].payout
  <2>1. p \in PayoutIds /\ provider' = [provider EXCEPT ![p] = "sent"] /\ provider[p] = "none"
        /\ Goto(w, [at |-> "paying", payout |-> p])
    BY <1>0, <1>4, DispatchesRow DEF Dispatch, DispatchedOnce
  <2> HIDE DEF p
  <2>2. QED BY <1>0, <2>1 DEF AnswersStayTrue, Goto
<1>5. ASSUME NEW w \in Workers, HandleAnswer(w) PROVE AnswersStayTrue'
  BY <1>0, <1>5, <1>f, WorkerMakes DEF HandleAnswer, Return, Goto, Idle, Visiting
<1>6. ASSUME NEW p \in PayoutIds, Deliver(p) \/ Lose(p) \/ Conclude(p)
      PROVE  AnswersStayTrue'
  <2>1. provider[p] \in {"sent", "pending"}
        /\ \A q \in PayoutIds \ {p} : provider'[q] = provider[q]
    BY <1>0, <1>6 DEF Deliver, Lose, Conclude
  <2>2. worker' = worker
    BY <1>6 DEF Deliver, Lose, Conclude, serviceVars
  <2>3. QED BY <1>0, <2>1, <2>2 DEF AnswersStayTrue
<1>7. CASE Crash
  BY <1>7, <1>f DEF Crash, Idle
<1>8. QED
  BY <1>1, <1>2, <1>3, <1>4, <1>5, <1>6, <1>7, StepKinds DEF OwnerStep

\* A row records an outcome only when the provider has come to it.
LEMMA OutcomesAreRealStep == PayoutsInv /\ [Next]_vars => OutcomesAreReal'
<1> SUFFICES ASSUME PayoutsInv, [Next]_vars PROVE OutcomesAreReal'
  OBVIOUS
<1>0. OutcomesAreReal /\ DispatchedOnce /\ AnswersStayTrue /\ LedgerTypeOK
      /\ provider \in [PayoutIds -> ProviderStates]
      /\ \A q \in DOMAIN payouts : payouts[q] \in PayoutRow
  BY DEF PayoutsInv, CallsTyped, LedgerInv, LedgerTypeOK
<1>f. ASSUME \A q \in PayoutIds :
               /\ Succeeded(q)' => Succeeded(q)
               /\ Released(q)' => Released(q)
               /\ Succeeded(q) \/ Released(q) => provider'[q] = provider[q]
      PROVE  OutcomesAreReal'
  BY <1>0, <1>f DEF OutcomesAreReal
<1>1. CASE QuietStep \/ LearnStep \/ Crash
  <2>1. payouts' = payouts /\ provider' = provider
    BY <1>1 DEF QuietStep, LearnStep, Crash, ledgerVars, tables
  <2>2. QED BY <1>f, <2>1 DEF Succeeded, Released
<1>2. ASSUME NEW w \in Workers, QuoteReserves(w) PROVE OutcomesAreReal'
  <2>1. PICK p \in PayoutIds, k \in PayoutKeys, a \in Nat, r \in Nat : ReservePayout(p, k, a, r)
    BY <1>2, ReservesRow
  <2>2. provider' = provider
    BY <1>2 DEF QuoteReserves
  <2>3. \A q \in PayoutIds : /\ Succeeded(q)' => Succeeded(q)
                             /\ Released(q)' => Released(q)
    BY <2>1 DEF ReservePayout, WithReserved, Succeeded, Released
  <2>4. QED BY <1>f, <2>2, <2>3
<1>3. ASSUME NEW w \in Workers, Dispatch(w) PROVE OutcomesAreReal'
  <2> DEFINE p == worker[w].payout
             k == payouts[p].key
  <2>1. p \in PayoutIds /\ provider' = [provider EXCEPT ![p] = "sent"] /\ provider[p] = "none"
        /\ ResolveDeferredPayouts(k)
    BY <1>0, <1>3, DispatchesRow DEF Dispatch, DispatchedOnce
  <2> HIDE DEF p, k
  <2>2. \A q \in PayoutIds : Succeeded(q) \/ Released(q) => provider'[q] = provider[q]
    BY <1>0, <2>1 DEF OutcomesAreReal
  <2>3. payouts' = ResolvedRows(payouts, k)
    BY <2>1 DEF ResolveDeferredPayouts
  <2>4. ASSUME NEW q \in DOMAIN payouts
        PROVE  \/ payouts'[q] = payouts[q]
               \/ payouts[q].state = "deferred" /\ payouts'[q].state = "resolved"
    BY <1>0, <2>3 DEF ResolvedRows, PayoutRow
  <2>5. DOMAIN payouts' = DOMAIN payouts
    BY <2>3 DEF ResolvedRows
  <2>6. \A q \in PayoutIds : /\ Succeeded(q)' => Succeeded(q)
                             /\ Released(q)' => Released(q)
    BY <2>4, <2>5 DEF Succeeded, Released
  <2>7. QED BY <1>f, <2>2, <2>6
<1>4. ASSUME NEW w \in Workers, HandleAnswer(w) PROVE OutcomesAreReal'
  <2> DEFINE p == worker[w].payout
             answer == worker[w].answer
  <2>1. p \in DOMAIN payouts /\ provider' = provider /\ worker[w].at = "answered"
    BY <1>4, HandlesAnswer DEF HandleAnswer
  <2>2. \/ answer = "succeeded" /\ \E v \in ProviderIds, f \in 0..MaxRoutingFee : CompletePayout(p, v, f)
        \/ answer = "failed" /\ ReleasePayout(p)
        \/ answer = "open" /\ \E v \in ProviderIds : MarkPayoutAmbiguous(p, v)
        \/ UNCHANGED ledgerVars
    BY <1>4, HandlesAnswer
  <2>3. answer # "open" => provider[p] = answer
    BY <1>0, <2>1 DEF AnswersStayTrue
  <2> HIDE DEF p, answer
  <2>4. ASSUME NEW v \in ProviderIds, NEW f, answer = "succeeded", CompletePayout(p, v, f)
        PROVE  OutcomesAreReal'
    <3>1. /\ payouts'[p].state = "succeeded" /\ DOMAIN payouts' = DOMAIN payouts
          /\ \A q \in DOMAIN payouts \ {p} : payouts'[q] = payouts[q]
      BY <1>0, <2>1, <2>4 DEF CompletePayout, PayoutRow
    <3>2. QED BY <1>0, <2>1, <2>3, <2>4, <3>1 DEF OutcomesAreReal, Succeeded, Released
  <2>5. CASE answer = "failed" /\ ReleasePayout(p)
    <3>1. /\ payouts'[p].state = "deferred" /\ DOMAIN payouts' = DOMAIN payouts
          /\ \A q \in DOMAIN payouts \ {p} : payouts'[q] = payouts[q]
      BY <1>0, <2>1, <2>5 DEF ReleasePayout, PayoutRow
    <3>2. QED BY <1>0, <2>1, <2>3, <2>5, <3>1 DEF OutcomesAreReal, Succeeded, Released
  <2>6. ASSUME NEW v \in ProviderIds, MarkPayoutAmbiguous(p, v)
        PROVE  OutcomesAreReal'
    <3>1. /\ payouts'[p].state = "ambiguous" /\ DOMAIN payouts' = DOMAIN payouts
          /\ \A q \in DOMAIN payouts \ {p} : payouts'[q] = payouts[q]
      BY <1>0, <2>1, <2>6 DEF MarkPayoutAmbiguous, PayoutRow
    <3>2. QED BY <1>f, <2>1, <3>1 DEF Succeeded, Released
  <2>7. CASE UNCHANGED ledgerVars
    BY <1>f, <2>1, <2>7 DEF Succeeded, Released, ledgerVars, tables
  <2>8. QED BY <2>2, <2>4, <2>5, <2>6, <2>7
<1>5. ASSUME NEW p \in PayoutIds, Deliver(p) \/ Lose(p) \/ Conclude(p)
      PROVE  OutcomesAreReal'
  <2>1. provider[p] \in {"sent", "pending"}
        /\ \A q \in PayoutIds \ {p} : provider'[q] = provider[q]
    BY <1>0, <1>5 DEF Deliver, Lose, Conclude
  <2>2. payouts' = payouts
    BY <1>5 DEF Deliver, Lose, Conclude, ledgerVars, tables
  <2>3. QED BY <1>0, <1>f, <2>1, <2>2 DEF OutcomesAreReal, Succeeded, Released
<1>6. QED BY <1>1, <1>2, <1>3, <1>4, <1>5, StepKinds DEF OwnerStep

\* No step creates an empty payout.
LEMMA AmountsPositiveStep == PayoutsInv /\ [Next]_vars => AmountsPositive'
<1> SUFFICES ASSUME PayoutsInv, [Next]_vars, NEW q \in DOMAIN payouts'
             PROVE  payouts'[q].amount >= 1
  BY DEF AmountsPositive
<1>1. CASE q \in DOMAIN payouts
  BY <1>1, ServiceCallsLedger, RowsKeep DEF PayoutsInv, LedgerInv, AmountsPositive
<1>2. ASSUME NEW w \in Workers, QuoteReserves(w) PROVE payouts'[q].amount >= 1
  <2>1. PICK p \in PayoutIds, k \in PayoutKeys, a \in Nat, r \in Nat :
          a >= 1 /\ ReservePayout(p, k, a, r)
    BY <1>2, ReservesRow
  <2>2. q \in DOMAIN payouts \/ payouts'[q].amount = a
    BY <2>1 DEF ReservePayout, WithReserved
  <2>3. QED BY <1>1, <2>1, <2>2
<1>3. ASSUME NEW w \in Workers, Dispatch(w) PROVE q \in DOMAIN payouts
  BY <1>3, DispatchesRow DEF ResolveDeferredPayouts, ResolvedRows
<1>4. ASSUME NEW w \in Workers, HandleAnswer(w) PROVE q \in DOMAIN payouts
  BY <1>4, HandlesAnswer
     DEF CompletePayout, ReleasePayout, MarkPayoutAmbiguous, ledgerVars, tables
<1>5. ASSUME NEW p \in PayoutIds, Deliver(p) \/ Lose(p) \/ Conclude(p)
      PROVE  q \in DOMAIN payouts
  BY <1>5 DEF Deliver, Lose, Conclude, ledgerVars, tables
<1>6. CASE QuietStep \/ LearnStep \/ Crash
  BY <1>1, <1>6 DEF QuietStep, LearnStep, Crash, ledgerVars, tables
<1>7. QED BY <1>1, <1>2, <1>3, <1>4, <1>5, <1>6, StepKinds DEF OwnerStep

\* A payout that is being attempted keeps a call that will write its outcome.
LEMMA AttemptingIsOwnedStep == PayoutsInv /\ [Next]_vars => AttemptingIsOwned'
<1> DEFINE OwnedBy(q, w) == Owns(w) /\ worker[w].payout = q
<1> SUFFICES ASSUME PayoutsInv, [Next]_vars, NEW q \in DOMAIN payouts',
                    payouts'[q].state = "attempting", ~(crashes' > 0)
             PROVE  \E w \in Workers : OwnedBy(q, w)'
  BY DEF AttemptingIsOwned, Owns
<1>0. /\ DOMAIN worker = Workers /\ crashes \in Nat /\ LedgerTypeOK
      /\ \A p \in DOMAIN payouts : payouts[p] \in PayoutRow
  BY ServiceAssumption DEF PayoutsInv, LedgerInv, LedgerTypeOK, CallsTyped
<1>a. q \in DOMAIN payouts /\ payouts[q].state = "attempting" /\ crashes' = crashes
        => \E w \in Workers : OwnedBy(q, w)
  BY <1>0 DEF PayoutsInv, AttemptingIsOwned, Owns
<1>1. CASE QuietStep
  <2>1. PICK v \in Workers : OwnedBy(q, v)
    BY <1>a, <1>1 DEF QuietStep
  <2>2. worker'[v] = worker[v]
    BY <1>0, <1>1, <2>1 DEF QuietStep, Goto
  <2>3. QED BY <2>1, <2>2 DEF Owns
<1>2. CASE LearnStep
  <2>1. PICK v \in Workers : OwnedBy(q, v)
    BY <1>a, <1>2 DEF LearnStep, ledgerVars, tables
  <2>2. worker'[v] = worker[v] \/ (worker'[v].at = "answered" /\ worker'[v].payout = q)
    BY <1>0, <1>2, <2>1 DEF LearnStep, Goto
  <2>3. QED BY <2>1, <2>2 DEF Owns
<1>3. ASSUME NEW w \in Workers, QuoteReserves(w) PROVE \E v \in Workers : OwnedBy(q, v)'
  <2>1. PICK p \in PayoutIds, k \in PayoutKeys, a \in Nat, r \in Nat :
          ReservePayout(p, k, a, r) /\ Goto(w, [at |-> "reserved", payout |-> p])
    BY <1>3, ReservesRow
  <2>2. crashes' = crashes /\ worker[w].at = "quoting"
    BY <1>3 DEF QuoteReserves
  <2>3. CASE q = p
    <3>1. worker'[w] = [at |-> "reserved", payout |-> p]
      BY <1>0, <2>1 DEF Goto
    <3>2. QED BY <2>3, <3>1 DEF Owns
  <2>4. CASE q # p
    <3>1. q \in DOMAIN payouts /\ payouts[q].state = "attempting"
      BY <2>1, <2>4 DEF ReservePayout, WithReserved
    <3>2. PICK v \in Workers : OwnedBy(q, v)
      BY <1>a, <2>2, <3>1
    <3>3. worker'[v] = worker[v]
      BY <1>0, <2>1, <2>2, <3>2 DEF Goto, Owns
    <3>4. QED BY <3>2, <3>3 DEF Owns
  <2>5. QED BY <2>3, <2>4
<1>4. ASSUME NEW w \in Workers, Dispatch(w) PROVE \E v \in Workers : OwnedBy(q, v)'
  <2> DEFINE p == worker[w].payout
             k == payouts[p].key
  <2>1. Goto(w, [at |-> "paying", payout |-> p]) /\ crashes' = crashes
        /\ ResolveDeferredPayouts(k)
    BY <1>4, DispatchesRow DEF Dispatch
  <2>2. q \in DOMAIN payouts /\ payouts[q].state = "attempting"
    <3> HIDE DEF k
    <3>1. q \in DOMAIN payouts
          /\ payouts'[q] \in {payouts[q], [payouts[q] EXCEPT !.state = "resolved"]}
      BY <2>1 DEF ResolveDeferredPayouts, ResolvedRows
    <3>2. QED BY <1>0, <3>1 DEF PayoutRow
  <2>3. PICK v \in Workers : OwnedBy(q, v)
    BY <1>a, <2>1, <2>2
  <2>4. worker'[v] = worker[v] \/ (worker'[v].at = "paying" /\ worker'[v].payout = q)
    BY <1>0, <2>1, <2>3 DEF Goto
  <2>5. QED BY <2>3, <2>4 DEF Owns
<1>5. ASSUME NEW w \in Workers, HandleAnswer(w) PROVE \E v \in Workers : OwnedBy(q, v)'
  <2> DEFINE p == worker[w].payout
  <2>1. crashes' = crashes /\ Return(w) /\ p \in DOMAIN payouts
    BY <1>5, HandlesAnswer DEF HandleAnswer
  <2>2. \/ \E v \in ProviderIds, f \in 0..MaxRoutingFee : CompletePayout(p, v, f)
        \/ ReleasePayout(p)
        \/ \E v \in ProviderIds : MarkPayoutAmbiguous(p, v)
        \/ ~Active(p) /\ payouts' = payouts
    BY <1>5, HandlesAnswer DEF ledgerVars, tables
  <2> HIDE DEF p
  <2>3. q # p /\ q \in DOMAIN payouts /\ payouts[q].state = "attempting"
    <3>1. DOMAIN payouts' = DOMAIN payouts
          /\ \A r \in DOMAIN payouts \ {p} : payouts'[r] = payouts[r]
      BY <2>2 DEF CompletePayout, ReleasePayout, MarkPayoutAmbiguous
    <3>2. payouts'[p].state # "attempting"
      <4>1. payouts[p] \in PayoutRow
        BY <1>0, <2>1
      <4>2. ASSUME NEW v \in ProviderIds, NEW f, CompletePayout(p, v, f)
            PROVE  payouts'[p].state = "succeeded"
        BY <2>1, <4>1, <4>2 DEF CompletePayout, PayoutRow
      <4>3. CASE ReleasePayout(p)
        BY <2>1, <4>1, <4>3 DEF ReleasePayout, PayoutRow
      <4>4. ASSUME NEW v \in ProviderIds, MarkPayoutAmbiguous(p, v)
            PROVE  payouts'[p].state = "ambiguous"
        BY <2>1, <4>1, <4>4 DEF MarkPayoutAmbiguous, PayoutRow
      <4>5. CASE ~Active(p) /\ payouts' = payouts
        BY <2>1, <4>5 DEF Active
      <4>6. QED BY <2>2, <4>2, <4>3, <4>4, <4>5
    <3>3. QED BY <3>1, <3>2
  <2>4. PICK v \in Workers : OwnedBy(q, v)
    BY <1>a, <2>1, <2>3
  <2>5. worker'[v] = worker[v]
    BY <1>0, <2>1, <2>3, <2>4 DEF Return, Goto, p
  <2>6. QED BY <2>4, <2>5 DEF Owns
<1>6. ASSUME NEW p \in PayoutIds, Deliver(p) \/ Lose(p) \/ Conclude(p)
      PROVE  \E v \in Workers : OwnedBy(q, v)'
  <2>1. payouts' = payouts /\ worker' = worker /\ crashes' = crashes
    BY <1>6 DEF Deliver, Lose, Conclude, ledgerVars, tables, serviceVars
  <2>2. QED BY <1>a, <2>1 DEF Owns
<1>7. CASE Crash
  BY <1>0, <1>7 DEF Crash
<1>8. QED
  BY <1>1, <1>2, <1>3, <1>4, <1>5, <1>6, <1>7, StepKinds DEF OwnerStep

\* One active payout per key at most: never more than there are keys.
ActiveFit == /\ IsFiniteSet(ActivePayouts)
             /\ Cardinality(ActivePayouts) \in Nat
             /\ Cardinality(PayoutKeys) \in Nat
             /\ Cardinality(ActivePayouts) <= Cardinality(PayoutKeys)

LEMMA ActiveBounded == LedgerInv => ActiveFit
<1> SUFFICES ASSUME LedgerInv PROVE ActiveFit
  OBVIOUS
<1>1. IsFiniteSet(ActivePayouts) /\ IsFiniteSet(PayoutKeys)
  <2>1. ActivePayouts \in SUBSET DOMAIN payouts
    BY DEF ActivePayouts
  <2>2. QED BY <2>1, FS_Subset, KeysAssumption DEF LedgerInv
<1>2. Cardinality(ActivePayouts) \in Nat /\ Cardinality(PayoutKeys) \in Nat
  BY <1>1, FS_CardinalityType
<1>3. ASSUME Cardinality(PayoutKeys) < Cardinality(ActivePayouts) PROVE FALSE
  <2> DEFINE keyOf == [p \in ActivePayouts |-> payouts[p].key]
  <2>1. keyOf \in [ActivePayouts -> PayoutKeys]
    BY RowAmounts DEF ActivePayouts, LedgerInv, LedgerTypeOK
  <2>2. \E x, y \in ActivePayouts : x # y /\ keyOf[x] = keyOf[y]
    <3> HIDE DEF keyOf
    <3>1. QED BY <1>1, <1>3, <2>1, FS_PigeonHole
  <2>3. PICK x \in ActivePayouts, y \in ActivePayouts : x # y /\ payouts[x].key = payouts[y].key
    BY <2>2
  <2>4. payouts[x].key \in PayoutKeys
    BY RowAmounts DEF ActivePayouts, LedgerInv, LedgerTypeOK
  <2>5. x \in ActiveOf(payouts[x].key) /\ y \in ActiveOf(payouts[x].key)
    BY <2>3 DEF ActiveOf, ActivePayouts
  <2>6. QED BY <2>3, <2>4, <2>5 DEF LedgerInv, ReservedIsActivePayout, ReservedFor
<1>4. QED BY <1>1, <1>2, <1>3 DEF ActiveFit

LEMMA ActiveBoundedNext == LedgerInv' => ActiveFit'
BY ActiveBounded, PTL

\* A fee bound more or less for every key that is not being paid.
LEMMA FeeBound ==
  ASSUME NEW n \in Int, NEW m \in Int, n <= m
  PROVE  n * MaxRoutingFee <= m * MaxRoutingFee
         /\ n * MaxRoutingFee \in Int /\ m * MaxRoutingFee \in Int
<1>1. MaxRoutingFee \in Nat
  BY ServiceAssumption
<1> HIDE DEF ServiceAssumption
<1>2. QED BY <1>1, SMTT(30)

\* What keeps the bound when the Wired balance or the active payouts change.
LEMMA OverdraftFrame ==
  ASSUME PayoutsInv, LedgerInv', DOMAIN payouts # {},
         \/ /\ wired' >= wired
            /\ Cardinality(ActivePayouts') <= Cardinality(ActivePayouts)
         \/ /\ wired' >= wired - MaxRoutingFee
            /\ Cardinality(ActivePayouts') = Cardinality(ActivePayouts) - 1
  PROVE  WiredOverdraftBounded'
<1> SUFFICES ASSUME NEW least \in Quotes, \A quote \in Quotes : least <= quote
             PROVE  wired' >= least - (Cardinality(PayoutKeys) - Cardinality(ActivePayouts'))
                                        * MaxRoutingFee
  BY DEF WiredOverdraftBounded
<1> DEFINE idle == Cardinality(PayoutKeys) - Cardinality(ActivePayouts)
           idle2 == Cardinality(PayoutKeys) - Cardinality(ActivePayouts')
<1>1. idle \in Nat /\ idle2 \in Nat
  <2>1. /\ Cardinality(ActivePayouts) \in Nat /\ Cardinality(PayoutKeys) \in Nat
        /\ Cardinality(ActivePayouts) <= Cardinality(PayoutKeys)
    BY ActiveBounded DEF PayoutsInv, ActiveFit
  <2>2. /\ Cardinality(ActivePayouts') \in Nat
        /\ Cardinality(ActivePayouts') <= Cardinality(PayoutKeys)
    BY ActiveBoundedNext DEF ActiveFit
  <2>3. QED BY <2>1, <2>2
<1>2. wired \in Int /\ wired' \in Int /\ least \in Int /\ MaxRoutingFee \in Nat
  BY ServiceAssumption DEF PayoutsInv, LedgerInv, LedgerTypeOK
<1>3. wired >= least - idle * MaxRoutingFee
  BY DEF PayoutsInv, WiredOverdraftBounded
<1>4. \/ idle2 >= idle /\ wired' >= wired
      \/ idle2 = idle + 1 /\ wired' >= wired - MaxRoutingFee
  <2>1. Cardinality(ActivePayouts) \in Nat /\ Cardinality(PayoutKeys) \in Nat
        /\ Cardinality(ActivePayouts') \in Nat
    BY ActiveBounded, ActiveBoundedNext DEF PayoutsInv, ActiveFit
  <2>2. ASSUME Cardinality(ActivePayouts') <= Cardinality(ActivePayouts) PROVE idle2 >= idle
    BY <2>1, <2>2
  <2>3. ASSUME Cardinality(ActivePayouts') = Cardinality(ActivePayouts) - 1
        PROVE  idle2 = idle + 1
    BY <2>1, <2>3
  <2> HIDE DEF idle, idle2
  <2>4. QED BY <2>2, <2>3
<1> HIDE DEF idle, idle2
<1>5. CASE idle2 >= idle /\ wired' >= wired
  <2>1. idle * MaxRoutingFee <= idle2 * MaxRoutingFee
        /\ idle * MaxRoutingFee \in Int /\ idle2 * MaxRoutingFee \in Int
    BY <1>1, <1>5, FeeBound
  <2>2. wired' >= least - idle2 * MaxRoutingFee
    BY <1>2, <1>3, <1>5, <2>1
  <2>3. QED BY <2>2 DEF idle2
<1>6. CASE idle2 = idle + 1 /\ wired' >= wired - MaxRoutingFee
  <2>1. idle2 * MaxRoutingFee = idle * MaxRoutingFee + MaxRoutingFee
        /\ idle * MaxRoutingFee \in Int
    BY <1>1, <1>2, <1>6
  <2>2. wired' >= least - idle2 * MaxRoutingFee
    BY <1>2, <1>3, <1>6, <2>1
  <2>3. QED BY <2>2 DEF idle2
<1>7. QED BY <1>4, <1>5, <1>6

\* Closing a payout takes it out of the active ones.
LEMMA ClosesActive ==
  ASSUME PayoutsInv, NEW p \in DOMAIN payouts, Active(p),
         DOMAIN payouts' = DOMAIN payouts,
         payouts'[p].state \notin {"attempting", "ambiguous"},
         \A q \in DOMAIN payouts \ {p} : payouts'[q] = payouts[q]
  PROVE  Cardinality(ActivePayouts') = Cardinality(ActivePayouts) - 1
<1>1. ActivePayouts' = ActivePayouts \ {p} /\ p \in ActivePayouts
  BY DEF ActivePayouts, Active
<1>2. IsFiniteSet(ActivePayouts)
  BY ActiveBounded DEF PayoutsInv, ActiveFit
<1>3. QED BY <1>1, <1>2, FS_RemoveElement

\* Routing fees overdraw the Wired balance by one fee bound per idle key at most.
LEMMA WiredOverdraftStep == PayoutsInv /\ [Next]_vars => WiredOverdraftBounded'
<1> SUFFICES ASSUME PayoutsInv, [Next]_vars PROVE WiredOverdraftBounded'
  OBVIOUS
<1>0. /\ LedgerInv' /\ LedgerTypeOK /\ wired \in Int
      /\ ClosingEntriesMatchOutcome /\ WiredOverdraftBounded
      /\ \A q \in DOMAIN payouts : payouts[q] \in PayoutRow
  BY LedgerInvStep, ServiceCallsLedger DEF PayoutsInv, LedgerInv, LedgerTypeOK
\* Steps that close no payout.
<1>f. ASSUME wired' >= wired, ActivePayouts' = ActivePayouts, DOMAIN payouts' = DOMAIN payouts
      PROVE  WiredOverdraftBounded'
  <2>1. CASE DOMAIN payouts = {}
    BY <1>f, <2>1 DEF WiredOverdraftBounded
  <2>2. CASE DOMAIN payouts # {}
    <3>1. Cardinality(ActivePayouts) \in Nat
      BY ActiveBounded DEF PayoutsInv, ActiveFit
    <3>2. Cardinality(ActivePayouts') <= Cardinality(ActivePayouts)
      BY <1>f, <3>1
    <3>3. QED BY <1>0, <1>f, <2>2, <3>2, OverdraftFrame
  <2>3. QED BY <2>1, <2>2
<1>1. CASE QuietStep
  BY <1>1, <1>f DEF QuietStep, ActivePayouts, Active
<1>2. CASE LearnStep \/ Crash
  <2>1. payouts' = payouts /\ wired' = wired
    BY <1>2 DEF LearnStep, Crash, ledgerVars, tables, sums
  <2>2. QED BY <1>0, <1>f, <2>1 DEF ActivePayouts, Active
<1>3. ASSUME NEW w \in Workers, QuoteReserves(w) PROVE WiredOverdraftBounded'
  <2> SUFFICES ASSUME NEW least \in Quotes, \A quote \in Quotes : least <= quote
               PROVE  wired' >= least - (Cardinality(PayoutKeys) - Cardinality(ActivePayouts'))
                                          * MaxRoutingFee
    BY DEF WiredOverdraftBounded
  <2> DEFINE idle == Cardinality(PayoutKeys) - Cardinality(ActivePayouts')
  <2>1. PICK quote \in Quotes : QuoteFits(quote)
    BY <1>3 DEF QuoteReserves
  <2>2. PICK p \in PayoutIds, k \in PayoutKeys, a \in Nat, r \in Nat : ReservePayout(p, k, a, r)
    BY <1>3, ReservesRow
  <2>3. wired' = wired
    BY <1>0, <2>2 DEF ReservePayout, PostReserve, Post
  <2>4. quote \in Int /\ least \in Int /\ MaxRoutingFee \in Nat
    BY ServiceAssumption
  <2>5. idle \in Nat
    BY <1>0, ActiveBoundedNext DEF ActiveFit
  <2>6. wired' >= least
    BY <1>0, <2>1, <2>3, <2>4 DEF QuoteFits
  <2> HIDE DEF idle
  <2>7. 0 * MaxRoutingFee <= idle * MaxRoutingFee /\ idle * MaxRoutingFee \in Int
    BY <2>5, FeeBound
  <2>8. wired' >= least - idle * MaxRoutingFee
    BY <1>0, <2>3, <2>4, <2>6, <2>7
  <2>9. QED BY <2>8 DEF idle
<1>4. ASSUME NEW w \in Workers, Dispatch(w) PROVE WiredOverdraftBounded'
  <2> DEFINE k == payouts[worker[w].payout].key
  <2>1. ResolveDeferredPayouts(k)
    BY <1>4, DispatchesRow
  <2> HIDE DEF k
  <2>2. DOMAIN payouts' = DOMAIN payouts /\ wired' = wired
    BY <2>1 DEF ResolveDeferredPayouts, ResolvedRows, sums
  <2>3. ASSUME NEW q \in DOMAIN payouts PROVE Active(q)' <=> Active(q)
    <3>1. \/ payouts'[q] = payouts[q]
          \/ payouts[q].state = "deferred" /\ payouts'[q].state = "resolved"
      BY <1>0, <2>1 DEF ResolveDeferredPayouts, ResolvedRows, PayoutRow
    <3>2. QED BY <2>2, <3>1 DEF Active
  <2>4. ActivePayouts' = ActivePayouts
    BY <2>2, <2>3 DEF ActivePayouts
  <2>5. QED BY <1>0, <1>f, <2>2, <2>4
<1>5. ASSUME NEW w \in Workers, HandleAnswer(w) PROVE WiredOverdraftBounded'
  <2> DEFINE p == worker[w].payout
  <2>1. p \in DOMAIN payouts /\ DOMAIN payouts # {} /\ p \in PayoutIds /\ payouts[p] \in PayoutRow
    BY <1>0, <1>5, HandlesAnswer DEF LedgerTypeOK
  <2>2. \/ \E v \in ProviderIds, f \in 0..MaxRoutingFee : CompletePayout(p, v, f)
        \/ ReleasePayout(p)
        \/ \E v \in ProviderIds : MarkPayoutAmbiguous(p, v)
        \/ UNCHANGED ledgerVars
    BY <1>5, HandlesAnswer
  <2> HIDE DEF p
  <2>3. ASSUME NEW v \in ProviderIds, NEW f \in 0..MaxRoutingFee, CompletePayout(p, v, f)
        PROVE  WiredOverdraftBounded'
    <3>0. Active(p)
      BY <2>3 DEF CompletePayout
    <3>1. /\ DOMAIN payouts' = DOMAIN payouts
          /\ payouts'[p].state = "succeeded"
          /\ \A q \in DOMAIN payouts \ {p} : payouts'[q] = payouts[q]
      BY <2>1, <2>3 DEF CompletePayout, PayoutRow
    <3>a. payouts'[p].state \notin {"attempting", "ambiguous"}
      BY <3>1
    <3>2. Fresh("complete", p) /\ Fresh("rounding-complete", p)
      BY <1>0, <2>1, <3>0 DEF ClosingEntriesMatchOutcome, ClosingFor, Active, Succeeded
    <3>3. wired' = wired + (payouts[p].rounding - f)
      BY <2>3, <3>2 DEF CompletePayout, IfFresh, Post
    <3>4. f \in Int /\ f <= MaxRoutingFee /\ MaxRoutingFee \in Int
      BY ServiceAssumption
    <3>5. payouts[p].rounding \in Nat
      BY <2>1, RowAmounts
    <3>6. wired' >= wired - MaxRoutingFee
      BY <1>0, <3>3, <3>4, <3>5
    <3>7. Cardinality(ActivePayouts') = Cardinality(ActivePayouts) - 1
      BY <2>1, <3>0, <3>1, <3>a, ClosesActive
    <3>8. QED BY <1>0, <2>1, <3>6, <3>7, OverdraftFrame
  <2>4. CASE ReleasePayout(p)
    <3>0. Active(p)
      BY <2>4 DEF ReleasePayout
    <3>1. /\ DOMAIN payouts' = DOMAIN payouts
          /\ payouts'[p].state = "deferred"
          /\ \A q \in DOMAIN payouts \ {p} : payouts'[q] = payouts[q]
      BY <2>1, <2>4 DEF ReleasePayout, PayoutRow
    <3>a. payouts'[p].state \notin {"attempting", "ambiguous"}
      BY <3>1
    <3>2. wired' >= wired
      BY <1>0, <2>4 DEF ReleasePayout, Post
    <3>3. Cardinality(ActivePayouts') = Cardinality(ActivePayouts) - 1
      BY <2>1, <3>0, <3>1, <3>a, ClosesActive
    <3>4. Cardinality(ActivePayouts) \in Nat
      BY ActiveBounded DEF PayoutsInv, ActiveFit
    <3>5. Cardinality(ActivePayouts') <= Cardinality(ActivePayouts)
      BY <3>3, <3>4
    <3>6. QED BY <1>0, <2>1, <3>2, <3>5, OverdraftFrame
  <2>5. ASSUME NEW v \in ProviderIds, MarkPayoutAmbiguous(p, v)
        PROVE  WiredOverdraftBounded'
    <3>0. Active(p)
      BY <2>5 DEF MarkPayoutAmbiguous
    <3>1. /\ DOMAIN payouts' = DOMAIN payouts
          /\ payouts'[p].state = "ambiguous"
          /\ \A q \in DOMAIN payouts \ {p} : payouts'[q] = payouts[q]
      BY <2>1, <2>5 DEF MarkPayoutAmbiguous, PayoutRow
    <3>2. ActivePayouts' = ActivePayouts
      BY <3>0, <3>1 DEF ActivePayouts, Active
    <3>3. wired' >= wired
      BY <1>0, <2>5 DEF MarkPayoutAmbiguous, sums
    <3>4. QED BY <1>f, <3>1, <3>2, <3>3
  <2>6. CASE UNCHANGED ledgerVars
    BY <1>0, <1>f, <2>6 DEF ledgerVars, tables, sums, ActivePayouts, Active
  <2>7. QED BY <2>2, <2>3, <2>4, <2>5, <2>6
<1>6. ASSUME NEW p \in PayoutIds, Deliver(p) \/ Lose(p) \/ Conclude(p)
      PROVE  WiredOverdraftBounded'
  <2>1. payouts' = payouts /\ wired' = wired
    BY <1>6 DEF Deliver, Lose, Conclude, ledgerVars, tables, sums
  <2>2. QED BY <1>0, <1>f, <2>1 DEF ActivePayouts, Active
<1>7. QED
  BY <1>1, <1>2, <1>3, <1>4, <1>5, <1>6, StepKinds DEF OwnerStep

----------------------------------------------------------------------------

LEMMA PayoutsInvInit == Init => PayoutsInv
<1> SUFFICES ASSUME Init PROVE PayoutsInv
  OBVIOUS
<1>1. LedgerInv /\ DOMAIN payouts = {}
  BY LedgerInvInit DEF Init, LedgerInit
<1>2. CallsTyped
  BY WorkerMakes, ServiceAssumption DEF Init, CallsTyped, ProviderStates
<1>3. \A w \in Workers : worker[w].at = "idle"
  BY DEF Init, Idle
<1>4. AttemptingIsOwned /\ AmountsPositive /\ WiredOverdraftBounded /\ OutcomesAreReal
  BY <1>1 DEF AttemptingIsOwned, AmountsPositive, WiredOverdraftBounded, OutcomesAreReal,
              Succeeded, Released
<1>5. CallsHoldRows /\ DispatchedOnce /\ AnswersStayTrue
  BY <1>3 DEF Init, CallsHoldRows, HoldsPayout, DispatchedOnce, AnswersStayTrue
<1>6. QED BY <1>1, <1>2, <1>4, <1>5 DEF PayoutsInv

LEMMA PayoutsInvStep == PayoutsInv /\ [Next]_vars => PayoutsInv'
<1>1. PayoutsInv /\ [Next]_vars => LedgerInv'
  BY LedgerInvStep, ServiceCallsLedger DEF PayoutsInv
<1>2. QED
  BY <1>1, CallsTypedStep, AttemptingIsOwnedStep, CallsHoldRowsStep, DispatchedOnceStep,
     AnswersStayTrueStep, OutcomesAreRealStep, AmountsPositiveStep, WiredOverdraftStep
     DEF PayoutsInv

\* The inductive invariant holds in every reachable state of the service.
THEOREM PayoutsInvariant == Spec => []PayoutsInv
BY PayoutsInvInit, PayoutsInvStep, PTL DEF Spec

\* Every call of the service holds values of the right kind, and a payout that is
\* being attempted has a call that will write its outcome, unless there was a crash.
THEOREM PayoutsTypeInvariant == Spec => []TypeOK
<1>1. PayoutsInv => TypeOK
  BY DEF PayoutsInv, LedgerInv, CallsTyped, TypeOK
<1>2. QED BY <1>1, PayoutsInvariant, PTL

\* Overlapping webhooks, reconcileAll runs, lost answers and crashes never release
\* what may still be paid, and never overdraw Wired beyond the fee bounds.
THEOREM PayoutsSafe == Spec => []PayoutsAreSafe
<1>1. PayoutsInv => PayoutsAreSafe
  BY DEF PayoutsInv, OutcomesAreReal, PayoutsAreSafe, ReleaseOnlyAfterFailure
<1>2. QED BY <1>1, PayoutsInvariant, PTL

\* What the ledger promises alone it keeps under everything the service does.
THEOREM ServiceKeepsBooks == Spec => [](BooksBalance /\ ReservesAreHeld)
<1>1. PayoutsInv => BooksBalance /\ ReservesAreHeld
  BY DEF PayoutsInv, LedgerInv, BooksBalance, ReservesAreHeld
<1>2. QED BY <1>1, PayoutsInvariant, PTL

----------------------------------------------------------------------------
(* The service implements CreatorAccount *)

\* Payments that reached a creator while the ledger still holds their funds.
OpenPaid(k) == {p \in Reached(k) : Active(p)}
Owed(k) == balance[k].available + balance[k].reserved - AmountOf(OpenPaid(k))
Sent(k) == AmountOf(Reached(k))

LEMMA RowsAreFinite ==
  ASSUME LedgerInv, NEW S \in SUBSET DOMAIN payouts
  PROVE  IsFiniteSet(S) /\ AmountOf(S) \in Int
<1>1. IsFiniteSet(S)
  BY FS_Subset DEF LedgerInv
<1> DEFINE f == [p \in DOMAIN payouts |-> payouts[p].amount]
<1>2. \A p \in S : f[p] \in Int
  BY RowAmounts DEF LedgerInv, LedgerTypeOK
<1> HIDE DEF f
<1>3. SumFunctionOnSet(f, S) \in Int
  BY <1>1, <1>2, SumType
<1>4. QED BY <1>1, <1>3 DEF AmountOf, f

\* The amounts of the rows there are do not change.
LEMMA AmountsKeep ==
  ASSUME PayoutsInv, [Next]_vars, NEW S \in SUBSET DOMAIN payouts
  PROVE  SumFunctionOnSet([p \in DOMAIN payouts' |-> payouts'[p].amount], S) = AmountOf(S)
<1> DEFINE f == [p \in DOMAIN payouts |-> payouts[p].amount]
           g == [p \in DOMAIN payouts' |-> payouts'[p].amount]
<1>1. IsFiniteSet(S)
  BY RowsAreFinite DEF PayoutsInv
<1>2. \A p \in S : g[p] = f[p]
  BY ServiceCallsLedger, RowsKeep DEF PayoutsInv, LedgerInv
<1> HIDE DEF f, g
<1>3. SumFunctionOnSet(g, S) = SumFunctionOnSet(f, S)
  BY <1>1, <1>2, SumAgree
<1>4. QED BY <1>3 DEF AmountOf, f, g

\* A step that moves no payment to the creator or out of the reservations, and
\* no funds into or out of them, is none of the account.
LEMMA AccountFrame ==
  ASSUME PayoutsInv, [Next]_vars, NEW k \in PayoutKeys,
         Reached(k)' = Reached(k)
  PROVE  /\ Sent(k)' = Sent(k)
         /\ OpenPaid(k)' = OpenPaid(k) => AmountOf(OpenPaid(k))' = AmountOf(OpenPaid(k))
<1> DEFINE R == Reached(k)
           O == OpenPaid(k)
<1>1. R \in SUBSET DOMAIN payouts /\ O \in SUBSET DOMAIN payouts
  BY DEF Reached, OpenPaid
<1> HIDE DEF R, O
<1>2. /\ SumFunctionOnSet([p \in DOMAIN payouts' |-> payouts'[p].amount], R) = AmountOf(R)
      /\ SumFunctionOnSet([p \in DOMAIN payouts' |-> payouts'[p].amount], O) = AmountOf(O)
  BY <1>1, AmountsKeep
<1>3. QED BY <1>2 DEF Sent, AmountOf, R, O

LEMMA AccountStutter ==
  ASSUME PayoutsInv, [Next]_vars, settlements' = settlements,
         \A k \in PayoutKeys :
           /\ Reached(k)' = Reached(k)
           /\ OpenPaid(k)' = OpenPaid(k)
           /\ balance'[k].available + balance'[k].reserved
                = balance[k].available + balance[k].reserved
  PROVE  UNCHANGED Account!accountVars
<1>1. ASSUME NEW k \in PayoutKeys
      PROVE  Sent(k)' = Sent(k) /\ Owed(k)' = Owed(k)
  <2>1. Sent(k)' = Sent(k) /\ AmountOf(OpenPaid(k))' = AmountOf(OpenPaid(k))
    BY AccountFrame
  <2> DEFINE open == AmountOf(OpenPaid(k))
  <2>2. open' = open /\ open \in Int
    BY <2>1, RowsAreFinite DEF PayoutsInv, OpenPaid, Reached
  <2>a. LedgerTypeOK /\ LedgerTypeOK'
    BY LedgerInvStep, ServiceCallsLedger DEF PayoutsInv, LedgerInv
  <2>b. /\ balance[k].available \in Int /\ balance[k].reserved \in Int
        /\ balance'[k].available \in Int /\ balance'[k].reserved \in Int
    BY <2>a DEF LedgerTypeOK
  <2> HIDE DEF open
  <2>c. balance'[k].available + balance'[k].reserved
          = balance[k].available + balance[k].reserved
    OBVIOUS
  <2>3. balance'[k].available + balance'[k].reserved - open'
          = balance[k].available + balance[k].reserved - open
    BY <2>2, <2>b, <2>c
  <2>4. QED BY <2>1, <2>3 DEF Owed, open
<1>2. [k \in PayoutKeys |-> Owed(k)]' = [k \in PayoutKeys |-> Owed(k)]
  BY <1>1
<1>3. [k \in PayoutKeys |-> Sent(k)]' = [k \in PayoutKeys |-> Sent(k)]
  BY <1>1
<1>4. QED BY <1>2, <1>3 DEF Account!accountVars, Owed, Sent, OpenPaid

FundsAreNumbers == \A k \in PayoutKeys : Owed(k) \in Int /\ Sent(k) \in Int

LEMMA FundsTyped == PayoutsInv => FundsAreNumbers
<1> SUFFICES ASSUME PayoutsInv, NEW k \in PayoutKeys
             PROVE  Owed(k) \in Int /\ Sent(k) \in Int
  BY DEF FundsAreNumbers
<1>1. AmountOf(OpenPaid(k)) \in Int /\ AmountOf(Reached(k)) \in Int
  BY RowsAreFinite DEF PayoutsInv, OpenPaid, Reached
<1>2. balance[k].available \in Int /\ balance[k].reserved \in Int
  BY DEF PayoutsInv, LedgerInv, LedgerTypeOK
<1>3. QED BY <1>1, <1>2 DEF Owed, Sent

LEMMA FundsTypedNext == PayoutsInv' => FundsAreNumbers'
BY FundsTyped, PTL

LEMMA AccountEarns ==
  ASSUME NEW s \in SettlementIds, s \notin settlements,
         settlements' = settlements \cup {s},
         \A j \in PayoutKeys \ {ZapKey[s]} : Owed(j)' = Owed(j),
         Owed(ZapKey[s])' = Owed(ZapKey[s]) + CreatorShare(ZapAmount[s]),
         \A j \in PayoutKeys : Sent(j)' = Sent(j)
  PROVE  Account!Earn(s)
<1> DEFINE owed == [j \in PayoutKeys |-> Owed(j)]
           sent == [j \in PayoutKeys |-> Sent(j)]
<1>1. owed' = [owed EXCEPT ![ZapKey[s]] = @ + CreatorShare(ZapAmount[s])]
  BY ServiceAssumption
<1>2. sent' = sent
  OBVIOUS
<1>3. QED BY <1>1, <1>2 DEF Account!Earn, owed, sent, Owed, Sent, OpenPaid

LEMMA AccountSends ==
  ASSUME NEW k \in PayoutKeys, settlements' = settlements,
         \A j \in PayoutKeys \ {k} : Owed(j)' = Owed(j) /\ Sent(j)' = Sent(j),
         Sent(k) \in Int, NEW n \in Int, n \in 1..Owed(k),
         Sent(k)' = Sent(k) + n,
         Owed(k)' = Owed(k) - n
  PROVE  Account!Send(k)
<1> DEFINE owed == [j \in PayoutKeys |-> Owed(j)]
           sent == [j \in PayoutKeys |-> Sent(j)]
<1>1. owed' = [owed EXCEPT ![k] = @ - n] /\ sent' = [sent EXCEPT ![k] = @ + n]
  OBVIOUS
<1>2. sent'[k] - sent[k] = n /\ n \in 1..owed[k]
  OBVIOUS
<1>3. QED BY <1>1, <1>2 DEF Account!Send, Owed, Sent, OpenPaid

LEMMA AccountForfeits ==
  ASSUME NEW k \in PayoutKeys, settlements' = settlements,
         \A j \in PayoutKeys \ {k} : Owed(j)' = Owed(j),
         \A j \in PayoutKeys : Sent(j)' = Sent(j),
         Owed(k) \in Int, NEW d \in 1..999,
         Owed(k)' = Owed(k) - d
  PROVE  Account!ForfeitDust(k)
<1> DEFINE owed == [j \in PayoutKeys |-> Owed(j)]
           sent == [j \in PayoutKeys |-> Sent(j)]
<1>1. owed' = [owed EXCEPT ![k] = @ - d] /\ sent' = sent
  OBVIOUS
<1>2. owed[k] - owed'[k] = d
  OBVIOUS
<1>3. QED BY <1>1, <1>2 DEF Account!ForfeitDust, Owed, Sent, OpenPaid

\* Nothing that the account speaks of changes.
FundsStay == UNCHANGED <<payouts, provider, settlements, balance>>

FundsMove ==
  \/ \E w \in Workers : QuoteReserves(w) \/ Dispatch(w) \/ HandleAnswer(w)
  \/ \E w \in Webhooks, s \in SettlementIds : ReconcileInvoice(w, s)
  \/ \E p \in PayoutIds : Deliver(p) \/ Lose(p) \/ Conclude(p)

LEMMA FundsKinds == PayoutsInv /\ [Next]_vars => FundsStay \/ FundsMove
<1> SUFFICES ASSUME PayoutsInv, [Next]_vars, ~FundsMove PROVE FundsStay
  OBVIOUS
<1>0. \A w \in Workers : worker[w] \in WorkerState
  BY DEF PayoutsInv, CallsTyped
<1>1. ASSUME NEW w \in Workers, QuoteFails(w) PROVE FundsStay
  BY <1>1 DEF QuoteFails, Defer, DeferPayout, FundsStay, sums
<1>2. ASSUME NEW w, NEW k \in PayoutKeys, Attempt(w, k), provider' = provider
      PROVE  FundsStay
  BY <1>2, AttemptDefers DEF DeferPayout, FundsStay, ledgerVars, tables, sums
<1>3. ASSUME NEW w \in Workers, Published(w) PROVE FundsStay
  <2>1. worker[w].key \in PayoutKeys
    BY <1>0, <1>3, WorkerFields DEF Published
  <2>2. QED BY <1>2, <1>3, <2>1 DEF Published
<1>4. ASSUME NEW w \in Workers, Call(w) PROVE FundsStay
  BY <1>1, <1>3, <1>4
     DEF Call, FundsMove, ReserveThrows, PayReply, PayThrows, LookupReply, LookupThrows,
         Answer, PublishFails, FundsStay, ledgerVars, tables, sums
<1>5. ASSUME NEW w \in Reconcilers, NEW item \in todo[w], VisitDue(w, item) PROVE FundsStay
  <2>1. item.key \in PayoutKeys
    BY DEF PayoutsInv, CallsTyped
  <2>2. QED BY <1>2, <1>5, <2>1 DEF VisitDue, FundsStay, ledgerVars, tables, sums
<1>6. ASSUME NEW w \in Reconcilers, NEW k \in PayoutKeys, VisitActive(w, k) PROVE FundsStay
  BY <1>2, <1>6 DEF VisitActive, FundsStay, ledgerVars, tables, sums
<1>7. ASSUME NEW w \in Reconcilers, Reconcile(w) PROVE FundsStay
  BY <1>5, <1>6, <1>7 DEF Reconcile, FinishReconcile, FundsStay, ledgerVars, tables, sums
<1>8. CASE Crash \/ UNCHANGED vars
           \/ \E w \in Reconcilers, due \in SUBSET OpenItems : StartReconcile(w, due)
  BY <1>8 DEF Crash, StartReconcile, vars, FundsStay, ledgerVars, tables, sums
<1>9. QED BY <1>4, <1>7, <1>8 DEF Next, FundsMove

\* Unless a payment that is known to the ledger succeeds, the same payments have
\* reached the creators.
LEMMA ReachedFrame ==
  ASSUME PayoutsInv, [Next]_vars,
         \A q \in DOMAIN payouts : provider'[q] = "succeeded" <=> provider[q] = "succeeded",
         \A q \in DOMAIN payouts' \ DOMAIN payouts : provider'[q] # "succeeded",
         NEW k
  PROVE  /\ Reached(k)' = Reached(k)
         /\ (\A q \in Reached(k) : Active(q)' <=> Active(q)) => OpenPaid(k)' = OpenPaid(k)
<1>1. \A q \in DOMAIN payouts : q \in DOMAIN payouts' /\ payouts'[q].key = payouts[q].key
  BY ServiceCallsLedger, RowsKeep DEF PayoutsInv, LedgerInv
<1>2. Reached(k)' = Reached(k)
  BY <1>1 DEF Reached
<1>3. QED BY <1>2 DEF OpenPaid

LEMMA ReserveKeepsAccount ==
  ASSUME PayoutsInv, [Next]_vars, NEW w \in Workers, QuoteReserves(w)
  PROVE  UNCHANGED Account!accountVars
<1>1. PICK p \in PayoutIds, k0 \in PayoutKeys, a \in Nat, r \in Nat : ReservePayout(p, k0, a, r)
  BY ReservesRow
<1>2. p \notin DOMAIN payouts /\ provider[p] = "none" /\ provider' = provider
  BY <1>1 DEF ReservePayout, CanReserve, DispatchedOnce, QuoteReserves, PayoutsInv
<1>3. /\ DOMAIN payouts' = DOMAIN payouts \cup {p}
      /\ \A q \in DOMAIN payouts : payouts'[q] = payouts[q]
  BY <1>1 DEF ReservePayout, CanReserve, WithReserved
<1>4. settlements' = settlements
  BY <1>1 DEF ReservePayout, PostReserve
<1>5. ASSUME NEW k \in PayoutKeys
      PROVE  Reached(k)' = Reached(k) /\ OpenPaid(k)' = OpenPaid(k)
  <2>1. \A q \in Reached(k) : Active(q)' <=> Active(q)
    BY <1>3 DEF Reached, Active
  <2>2. QED BY <1>2, <1>3, <2>1, ReachedFrame
<1>6. ASSUME NEW k \in PayoutKeys
      PROVE  balance'[k].available + balance'[k].reserved
               = balance[k].available + balance[k].reserved
  <2>1. balance \in [PayoutKeys -> [available : Int, reserved : Int, paid : Int]]
    BY DEF PayoutsInv, LedgerInv, LedgerTypeOK
  <2>2. balance' = [balance EXCEPT ![k0] = [available |-> @.available + (-(a + r)),
                                            reserved |-> @.reserved + (a + r),
                                            paid |-> @.paid + 0]]
    BY <1>1 DEF ReservePayout, PostReserve, Post
  <2>3. QED BY <2>1, <2>2
<1>7. QED BY <1>4, <1>5, <1>6, AccountStutter

LEMMA DispatchKeepsAccount ==
  ASSUME PayoutsInv, [Next]_vars, NEW w \in Workers, Dispatch(w)
  PROVE  UNCHANGED Account!accountVars
<1> DEFINE p == worker[w].payout
           k0 == payouts[p].key
<1>1. p \in PayoutIds /\ ResolveDeferredPayouts(k0) /\ provider[p] = "none"
      /\ provider' = [provider EXCEPT ![p] = "sent"]
  BY DispatchesRow DEF Dispatch, PayoutsInv, DispatchedOnce
<1> HIDE DEF p, k0
<1>2. DOMAIN payouts' = DOMAIN payouts /\ settlements' = settlements /\ balance' = balance
  BY <1>1 DEF ResolveDeferredPayouts, ResolvedRows, sums
<1>3. DOMAIN provider = PayoutIds /\ DOMAIN payouts \subseteq PayoutIds
  BY DEF PayoutsInv, CallsTyped, LedgerInv, LedgerTypeOK
<1>4. \A q \in DOMAIN payouts : provider'[q] = "succeeded" <=> provider[q] = "succeeded"
  BY <1>1, <1>3
<1>5. ASSUME NEW k \in PayoutKeys
      PROVE  Reached(k)' = Reached(k) /\ OpenPaid(k)' = OpenPaid(k)
  <2>1. ASSUME NEW q \in DOMAIN payouts PROVE Active(q)' <=> Active(q)
    <3>1. payouts[q] \in PayoutRow
      BY DEF PayoutsInv, LedgerInv, LedgerTypeOK
    <3>2. \/ payouts'[q] = payouts[q]
          \/ payouts[q].state = "deferred" /\ payouts'[q].state = "resolved"
      BY <1>1, <3>1 DEF ResolveDeferredPayouts, ResolvedRows, PayoutRow
    <3>3. QED BY <1>2, <3>2 DEF Active
  <2>2. \A q \in Reached(k) : Active(q)' <=> Active(q)
    BY <2>1 DEF Reached
  <2>3. QED BY <1>2, <1>4, <2>2, ReachedFrame
<1>6. QED BY <1>2, <1>5, AccountStutter

LEMMA ZapIsEarned ==
  ASSUME PayoutsInv, [Next]_vars, NEW w \in Webhooks, NEW s \in SettlementIds,
         ReconcileInvoice(w, s)
  PROVE  [Account!AccountNext]_(Account!accountVars)
<1> DEFINE k0 == ZapKey[s]
           share == CreatorShare(ZapAmount[s])
           rest == ZapAmount[s] - share
<1>1. payouts' = payouts /\ provider' = provider
  BY DEF ReconcileInvoice, CreditSettledZap, ledgerVars, tables
<1>2. ASSUME NEW k \in PayoutKeys
      PROVE  Reached(k)' = Reached(k) /\ OpenPaid(k)' = OpenPaid(k)
  BY <1>1 DEF Reached, OpenPaid, Active
<1>3. CASE UNCHANGED ledgerVars
  <2>1. settlements' = settlements /\ balance' = balance
    BY <1>3 DEF ledgerVars, tables, sums
  <2>2. QED BY <1>2, <2>1, AccountStutter
<1>4. CASE CreditSettledZap(s, k0, ZapAmount[s])
  <2>1. /\ s \notin settlements /\ settlements' = settlements \cup {s}
        /\ balance' = [balance EXCEPT ![k0] = [available |-> @.available + share,
                                               reserved |-> @.reserved + 0,
                                               paid |-> @.paid + 0]]
    BY <1>4 DEF CreditSettledZap, Post
  <2>2. k0 \in PayoutKeys /\ share \in Nat
    BY ServiceAssumption, ShareSplit
  <2>3. balance \in [PayoutKeys -> [available : Int, reserved : Int, paid : Int]]
    BY DEF PayoutsInv, LedgerInv, LedgerTypeOK
  <2> HIDE DEF k0, share
  <2>4. \A k \in PayoutKeys : Sent(k)' = Sent(k) /\ AmountOf(OpenPaid(k))' = AmountOf(OpenPaid(k))
    BY <1>2, AccountFrame
  <2>5. \A k \in PayoutKeys \ {k0} : Owed(k)' = Owed(k)
    <3> SUFFICES ASSUME NEW k \in PayoutKeys \ {k0} PROVE Owed(k)' = Owed(k)
      OBVIOUS
    <3> DEFINE open == AmountOf(OpenPaid(k))
    <3>1. open' = open
      BY <2>4
    <3> HIDE DEF open
    <3>2. balance'[k] = balance[k]
      BY <2>1, <2>3
    <3>3. QED BY <3>1, <3>2 DEF Owed, open
  <2>6. Owed(k0)' = Owed(k0) + share
    <3> DEFINE open == AmountOf(OpenPaid(k0))
    <3>1. open' = open /\ open \in Int
      BY <2>2, <2>4, RowsAreFinite DEF PayoutsInv, OpenPaid, Reached
    <3> HIDE DEF open
    <3>2. /\ balance'[k0].available = balance[k0].available + share
          /\ balance'[k0].reserved = balance[k0].reserved
          /\ balance[k0].available \in Int /\ balance[k0].reserved \in Int
      BY <2>1, <2>2, <2>3
    <3>3. balance'[k0].available + balance'[k0].reserved - open'
            = balance[k0].available + balance[k0].reserved - open + share
      BY <2>2, <3>1, <3>2
    <3>4. QED BY <3>3 DEF Owed, open
  <2>7. Account!Earn(s)
    BY <2>1, <2>4, <2>5, <2>6, AccountEarns DEF k0, share
  <2>8. QED BY <2>7 DEF Account!AccountNext
<1>5. QED BY <1>3, <1>4 DEF ReconcileInvoice

\* Completing takes the payment out of the reservation that was already paid:
\* only its rounding is given up.
LEMMA CompletionForfeitsDust ==
  ASSUME PayoutsInv, [Next]_vars, NEW p \in DOMAIN payouts, provider' = provider,
         provider[p] = "succeeded",
         NEW v \in ProviderIds, NEW f \in 0..MaxRoutingFee, CompletePayout(p, v, f)
  PROVE  [Account!AccountNext]_(Account!accountVars)
<1>0. /\ p \in PayoutIds /\ payouts[p] \in PayoutRow /\ ClosingEntriesMatchOutcome
      /\ balance \in [PayoutKeys -> [available : Int, reserved : Int, paid : Int]]
      /\ \A q \in DOMAIN payouts : payouts[q] \in PayoutRow
  BY DEF PayoutsInv, LedgerInv, LedgerTypeOK
<1>1. PICK k0 \in PayoutKeys, amount \in Nat, dust \in 0..999 :
        k0 = payouts[p].key /\ amount = payouts[p].amount /\ dust = payouts[p].rounding
  <2> DEFINE row == payouts[p]
  <2>1. row.key \in PayoutKeys /\ row.amount \in Nat /\ row.rounding \in 0..999
    BY <1>0 DEF PayoutRow
  <2> HIDE DEF row
  <2> DEFINE dusts == 0..999
  <2> HIDE DEF dusts
  <2>2. row.rounding \in dusts
    BY <2>1 DEF dusts
  <2>3. \E k \in PayoutKeys, a \in Nat, d \in dusts :
          k = row.key /\ a = row.amount /\ d = row.rounding
    BY <2>1, <2>2, Zenon
  <2>4. QED BY <2>3, Zenon DEF row, dusts
<1>2. Active(p) /\ Fresh("complete", p) /\ Fresh("rounding-complete", p)
  BY <1>0 DEF CompletePayout, ClosingEntriesMatchOutcome, ClosingFor, Active, Succeeded
<1>3. Post(k0, 0, -(amount + dust), amount, dust - f)
  BY <1>1, <1>2 DEF CompletePayout, IfFresh
<1>4. /\ DOMAIN payouts' = DOMAIN payouts /\ settlements' = settlements
      /\ \A q \in DOMAIN payouts \ {p} : payouts'[q] = payouts[q]
      /\ payouts'[p].state = "succeeded"
  BY <1>0 DEF CompletePayout, PayoutRow
<1>5. \A k \in PayoutKeys : Reached(k)' = Reached(k)
  BY <1>4, ReachedFrame
<1>6. \A k \in PayoutKeys : Sent(k)' = Sent(k)
  BY <1>5, AccountFrame
<1>7. ASSUME NEW k \in PayoutKeys \ {k0} PROVE Owed(k)' = Owed(k)
  <2> DEFINE open == AmountOf(OpenPaid(k))
  <2>1. p \notin Reached(k)
    BY <1>1, <1>7 DEF Reached
  <2>2. \A q \in Reached(k) : Active(q)' <=> Active(q)
    BY <1>4, <2>1 DEF Reached, Active
  <2>3. OpenPaid(k)' = OpenPaid(k)
    BY <1>4, <2>2, ReachedFrame
  <2>4. open' = open
    BY <1>5, <2>3, AccountFrame
  <2> HIDE DEF open
  <2>5. balance'[k] = balance[k]
    BY <1>0, <1>3, <1>7 DEF Post
  <2>6. QED BY <2>4, <2>5 DEF Owed, open
<1>8. Owed(k0)' = Owed(k0) - dust
  <2> DEFINE O == OpenPaid(k0)
             N == OpenPaid(k0)'
             open == AmountOf(O)
             pay == [q \in DOMAIN payouts |-> payouts[q].amount]
  <2>1. p \in O /\ N = O \ {p}
    BY <1>1, <1>2, <1>4, <1>5 DEF OpenPaid, Reached, Active
  <2>2. O \in SUBSET DOMAIN payouts /\ N \in SUBSET DOMAIN payouts
    BY <2>1 DEF OpenPaid, Reached
  <2>3. \A q \in O : pay[q] \in Int
    BY <1>0, <2>2, RowAmounts
  <2>4. pay[p] = amount
    BY <1>1
  <2>5. open' = SumFunctionOnSet([q \in DOMAIN payouts' |-> payouts'[q].amount], N)
    BY DEF AmountOf
  <2> HIDE DEF O, N
  <2>6. open' = AmountOf(N)
    BY <2>2, <2>5, AmountsKeep
  <2>7. IsFiniteSet(O) /\ AmountOf(O) \in Int /\ AmountOf(N) \in Int
    BY <2>2, RowsAreFinite DEF PayoutsInv
  <2>8. AmountOf(O) = SumFunctionOnSet(pay, O) /\ AmountOf(N) = SumFunctionOnSet(pay, N)
    BY DEF AmountOf
  <2> HIDE DEF pay
  <2>9. SumFunctionOnSet(pay, O) = pay[p] + SumFunctionOnSet(pay, O \ {p})
    BY <2>1, <2>3, <2>7, SumRemove
  <2>10. open = amount + open' /\ open' \in Int /\ open \in Int
    BY <2>1, <2>4, <2>6, <2>7, <2>8, <2>9
  <2> HIDE DEF open
  <2>11. /\ balance'[k0].available = balance[k0].available
         /\ balance'[k0].reserved = balance[k0].reserved - (amount + dust)
         /\ balance[k0].available \in Int /\ balance[k0].reserved \in Int
    BY <1>0, <1>1, <1>3 DEF Post
  <2>12. balance'[k0].available + balance'[k0].reserved - open'
           = (balance[k0].available + balance[k0].reserved - open) - dust
    <3>1. PICK a \in Int, r \in Int, left \in Int :
            a = balance[k0].available /\ r = balance[k0].reserved /\ left = open'
      BY <2>10, <2>11
    <3>2. a + (r - (amount + dust)) - left = (a + r - (amount + left)) - dust
      <4>1. \A x, y, z, m, n \in Int : x + (y - (m + n)) - z = (x + y - (m + z)) - n
        OBVIOUS
      <4>2. amount \in Int /\ dust \in Int
        BY <1>1
      <4>3. QED BY <4>1, <4>2
    <3>3. open = amount + left
      BY <2>10, <3>1
    <3>4. balance'[k0].available = a /\ balance'[k0].reserved = r - (amount + dust)
      BY <2>11, <3>1
    <3>5. QED BY <3>1, <3>2, <3>3, <3>4
  <2>13. QED BY <2>12 DEF Owed, open, O
<1>9. Owed(k0) \in Int
  BY <1>1, FundsTyped DEF FundsAreNumbers
<1>10. CASE dust = 0
  <2>1. \A k \in PayoutKeys : Owed(k)' = Owed(k)
    BY <1>7, <1>8, <1>9, <1>10
  <2>2. [k \in PayoutKeys |-> Owed(k)]' = [k \in PayoutKeys |-> Owed(k)]
    BY <2>1
  <2>3. [k \in PayoutKeys |-> Sent(k)]' = [k \in PayoutKeys |-> Sent(k)]
    BY <1>6
  <2>4. QED BY <1>4, <2>2, <2>3 DEF Account!accountVars, Owed, Sent, OpenPaid
<1>11. CASE dust # 0
  <2>1. dust \in 1..999
    BY <1>1, <1>11
  <2>2. Account!ForfeitDust(k0)
    BY <1>1, <1>4, <1>6, <1>7, <1>8, <1>9, <2>1, AccountForfeits
  <2>3. QED BY <1>1, <2>2 DEF Account!AccountNext
<1>12. QED BY <1>10, <1>11

LEMMA AnswerKeepsAccount ==
  ASSUME PayoutsInv, [Next]_vars, NEW w \in Workers, HandleAnswer(w)
  PROVE  [Account!AccountNext]_(Account!accountVars)
<1> DEFINE p == worker[w].payout
<1>0. /\ \A q \in DOMAIN payouts : payouts[q] \in PayoutRow
      /\ balance \in [PayoutKeys -> [available : Int, reserved : Int, paid : Int]]
      /\ AnswersStayTrue /\ ClosingEntriesMatchOutcome /\ DOMAIN payouts \subseteq PayoutIds
  BY DEF PayoutsInv, LedgerInv, LedgerTypeOK
<1>1. p \in DOMAIN payouts /\ provider' = provider
  BY HandlesAnswer DEF HandleAnswer
<1>2. \/ /\ worker[w].answer = "succeeded"
         /\ \E v \in ProviderIds, f \in 0..MaxRoutingFee : CompletePayout(p, v, f)
      \/ worker[w].answer = "failed" /\ ReleasePayout(p)
      \/ \E v \in ProviderIds : MarkPayoutAmbiguous(p, v)
      \/ UNCHANGED ledgerVars
  BY HandlesAnswer
<1>3. worker[w].answer # "open" => provider[p] = worker[w].answer
  BY <1>0 DEF AnswersStayTrue, HandleAnswer
<1> HIDE DEF p
<1>4. CASE worker[w].answer = "succeeded"
           /\ \E v \in ProviderIds, f \in 0..MaxRoutingFee : CompletePayout(p, v, f)
  BY <1>1, <1>3, <1>4, CompletionForfeitsDust
<1>5. CASE worker[w].answer = "failed" /\ ReleasePayout(p)
  <2> DEFINE k0 == payouts[p].key
             back == payouts[p].amount + payouts[p].rounding
  <2>1. provider[p] = "failed"
    BY <1>3, <1>5
  <2>2. Active(p) /\ Fresh("release", p) /\ Fresh("rounding-release", p)
    BY <1>0, <1>1, <1>5 DEF ReleasePayout, ClosingEntriesMatchOutcome, ClosingFor, Active, Released
  <2>3. Post(k0, back, -back, 0, 0)
    BY <1>5, <2>2 DEF ReleasePayout, IfFresh
  <2>4. /\ DOMAIN payouts' = DOMAIN payouts /\ settlements' = settlements
        /\ \A q \in DOMAIN payouts \ {p} : payouts'[q] = payouts[q]
    BY <1>5 DEF ReleasePayout
  <2>5. ASSUME NEW k \in PayoutKeys
        PROVE  Reached(k)' = Reached(k) /\ OpenPaid(k)' = OpenPaid(k)
    <3>1. \A q \in Reached(k) : Active(q)' <=> Active(q)
      BY <2>1, <2>4 DEF Reached, Active
    <3>2. QED BY <1>1, <2>4, <3>1, ReachedFrame
  <2>6. k0 \in PayoutKeys /\ back \in Int
    BY <1>0, <1>1, RowAmounts
  <2> HIDE DEF k0, back
  <2>7. ASSUME NEW k \in PayoutKeys
        PROVE  balance'[k].available + balance'[k].reserved
                 = balance[k].available + balance[k].reserved
    BY <1>0, <2>3, <2>6 DEF Post
  <2>8. QED BY <2>4, <2>5, <2>7, AccountStutter
<1>6. ASSUME NEW v \in ProviderIds, MarkPayoutAmbiguous(p, v)
      PROVE  [Account!AccountNext]_(Account!accountVars)
  <2>1. Active(p) /\ settlements' = settlements /\ balance' = balance
        /\ DOMAIN payouts' = DOMAIN payouts
        /\ \A q \in DOMAIN payouts \ {p} : payouts'[q] = payouts[q]
    BY <1>6 DEF MarkPayoutAmbiguous, sums
  <2>2. payouts'[p].state = "ambiguous"
    BY <1>0, <1>1, <1>6 DEF MarkPayoutAmbiguous, PayoutRow
  <2>3. ASSUME NEW k \in PayoutKeys
        PROVE  Reached(k)' = Reached(k) /\ OpenPaid(k)' = OpenPaid(k)
    <3>1. \A q \in Reached(k) : Active(q)' <=> Active(q)
      BY <2>1, <2>2 DEF Reached, Active
    <3>2. QED BY <1>1, <2>1, <3>1, ReachedFrame
  <2>4. QED BY <2>1, <2>3, AccountStutter
<1>7. CASE UNCHANGED ledgerVars
  <2>1. payouts' = payouts /\ settlements' = settlements /\ balance' = balance
    BY <1>7 DEF ledgerVars, tables, sums
  <2>2. \A k \in PayoutKeys : Reached(k)' = Reached(k) /\ OpenPaid(k)' = OpenPaid(k)
    BY <1>1, <2>1 DEF Reached, OpenPaid, Active
  <2>3. QED BY <2>1, <2>2, AccountStutter
<1>8. QED BY <1>2, <1>4, <1>5, <1>6, <1>7

\* A payment that succeeds has its funds in the reservation of its creator.
LEMMA SuccessIsSent ==
  ASSUME PayoutsInv, [Next]_vars, NEW p \in PayoutIds, provider[p] = "pending",
         provider' = [provider EXCEPT ![p] = "succeeded"],
         UNCHANGED ledgerVars
  PROVE  \E k \in PayoutKeys : Account!Send(k)
<1>0. /\ \A q \in DOMAIN payouts : payouts[q] \in PayoutRow
      /\ balance \in [PayoutKeys -> [available : Int, reserved : Int, paid : Int]]
      /\ DOMAIN provider = PayoutIds /\ DOMAIN payouts \subseteq PayoutIds
      /\ NeverOverdrawn /\ ReservedIsActivePayout /\ OutcomesAreReal
  BY DEF PayoutsInv, LedgerInv, LedgerTypeOK, CallsTyped
<1>1. p \in DOMAIN payouts
  BY DEF PayoutsInv, DispatchedOnce
<1>2. Active(p)
  BY <1>0, <1>1 DEF OutcomesAreReal, Succeeded, Released, Active, PayoutRow
<1>3. PICK k0 \in PayoutKeys, n \in Nat, dust \in Nat :
        k0 = payouts[p].key /\ n = payouts[p].amount /\ dust = payouts[p].rounding
  <2>1. /\ payouts[p].key \in PayoutKeys /\ payouts[p].amount \in Nat
        /\ payouts[p].rounding \in Nat
    BY <1>0, <1>1, RowAmounts
  <2>2. QED BY <2>1
<1>4. n >= 1
  BY <1>1, <1>3 DEF PayoutsInv, AmountsPositive
<1>5. payouts' = payouts /\ settlements' = settlements /\ balance' = balance
  BY DEF ledgerVars, tables, sums
<1>6. ActiveOf(k0) = {p} /\ balance[k0].reserved = n + dust
  <2>1. p \in ActiveOf(k0)
    BY <1>1, <1>2, <1>3 DEF ActiveOf
  <2>2. ReservedFor(k0)
    BY <1>0 DEF ReservedIsActivePayout
  <2>3. PICK q \in PayoutIds : ActiveOf(k0) = {q}
                               /\ balance[k0].reserved = payouts[q].amount + payouts[q].rounding
    BY <2>1, <2>2 DEF ReservedFor
  <2>4. QED BY <1>3, <2>1, <2>3
<1>7. Reached(k0)' = Reached(k0) \cup {p} /\ p \notin Reached(k0)
  BY <1>0, <1>1, <1>3, <1>5 DEF Reached
<1>8. OpenPaid(k0) = {} /\ OpenPaid(k0)' = {p}
  BY <1>2, <1>5, <1>6, <1>7 DEF OpenPaid, Reached, ActiveOf, Active
<1>9. \A k \in PayoutKeys :
        /\ Sent(k)' = AmountOf(Reached(k)')
        /\ AmountOf(OpenPaid(k))' = AmountOf(OpenPaid(k)')
  BY <1>5 DEF Sent, AmountOf
<1> DEFINE pay == [q \in DOMAIN payouts |-> payouts[q].amount]
<1>10. /\ \A S : AmountOf(S) = SumFunctionOnSet(pay, S)
       /\ pay[p] = n /\ \A q \in DOMAIN payouts : pay[q] \in Int
  BY <1>0, <1>1, <1>3, RowAmounts DEF AmountOf
<1> HIDE DEF pay
<1>11. AmountOf(OpenPaid(k0)) = 0 /\ AmountOf(OpenPaid(k0))' = n
  <2>1. SumFunctionOnSet(pay, {}) = 0
    BY FS_EmptySet, SumFirst
  <2>2. SumFunctionOnSet(pay, {} \cup {p}) = pay[p] + SumFunctionOnSet(pay, {})
    <3> DEFINE none == {}
    <3>1. IsFiniteSet(none) /\ p \notin none /\ \A x \in none : pay[x] \in Int
      BY FS_EmptySet
    <3>2. pay[p] \in Int
      BY <1>1, <1>10
    <3> HIDE DEF none
    <3>3. SumFunctionOnSet(pay, none \cup {p}) = pay[p] + SumFunctionOnSet(pay, none)
      BY <3>1, <3>2, SumAdd
    <3>4. QED BY <3>3 DEF none
  <2>3. {} \cup {p} = {p}
    OBVIOUS
  <2>4. SumFunctionOnSet(pay, {p}) = n
    BY <1>10, <2>1, <2>2, <2>3
  <2>5. QED BY <1>8, <1>9, <1>10, <2>1, <2>4
<1>12. Sent(k0)' = Sent(k0) + n /\ Sent(k0) \in Int
  <2> DEFINE R == Reached(k0)
  <2>1. R \in SUBSET DOMAIN payouts
    BY DEF Reached
  <2>2. p \notin R /\ Sent(k0)' = AmountOf(R \cup {p}) /\ Sent(k0) = AmountOf(R)
    BY <1>7, <1>9 DEF Sent
  <2> HIDE DEF R
  <2>3. IsFiniteSet(R) /\ AmountOf(R) \in Int /\ \A q \in R : pay[q] \in Int
    BY <1>10, <2>1, RowsAreFinite DEF PayoutsInv
  <2>4. SumFunctionOnSet(pay, R \cup {p}) = pay[p] + SumFunctionOnSet(pay, R)
    BY <1>1, <1>10, <2>2, <2>3, SumAdd
  <2>5. QED BY <1>10, <2>2, <2>3, <2>4
<1>13. ASSUME NEW k \in PayoutKeys \ {k0} PROVE Owed(k)' = Owed(k) /\ Sent(k)' = Sent(k)
  <2>1. Reached(k)' = Reached(k)
    BY <1>0, <1>3, <1>5 DEF Reached
  <2>2. OpenPaid(k)' = OpenPaid(k)
    BY <1>5, <2>1 DEF OpenPaid, Active
  <2>3. AmountOf(OpenPaid(k))' = AmountOf(OpenPaid(k)) /\ Sent(k)' = Sent(k)
    BY <1>9, <2>1, <2>2 DEF Sent
  <2>4. QED BY <1>5, <2>3 DEF Owed
<1>14. /\ Owed(k0) \in Int /\ Owed(k0)' \in Int
       /\ n <= Owed(k0) /\ Owed(k0)' = Owed(k0) - n
  <2> DEFINE open == AmountOf(OpenPaid(k0))
  <2>1. open = 0 /\ open' = n
    BY <1>11
  <2>2. /\ Owed(k0) = balance[k0].available + balance[k0].reserved - open
        /\ Owed(k0)' = balance[k0].available + balance[k0].reserved - open'
    BY <1>5 DEF Owed
  <2> HIDE DEF open
  <2>3. balance[k0].available \in Int /\ balance[k0].available >= 0
    BY <1>0 DEF NeverOverdrawn
  <2>4. QED BY <1>6, <2>1, <2>2, <2>3
<1>15. n \in 1..Owed(k0)
  BY <1>4, <1>14
<1>16. Account!Send(k0)
  BY <1>5, <1>12, <1>13, <1>14, <1>15, AccountSends
<1>17. QED BY <1>16

LEMMA ProviderKeepsAccount ==
  ASSUME PayoutsInv, [Next]_vars, NEW p \in PayoutIds, Deliver(p) \/ Lose(p) \/ Conclude(p)
  PROVE  [Account!AccountNext]_(Account!accountVars)
<1>0. provider \in [PayoutIds -> ProviderStates] /\ DOMAIN payouts \subseteq PayoutIds
  BY DEF PayoutsInv, CallsTyped, LedgerInv, LedgerTypeOK
<1>1. /\ UNCHANGED ledgerVars /\ provider[p] \in {"sent", "pending"}
      /\ \/ provider[p] = "pending" /\ provider' = [provider EXCEPT ![p] = "succeeded"]
         \/ \E s \in {"pending", "lost", "failed"} : provider' = [provider EXCEPT ![p] = s]
  BY DEF Deliver, Lose, Conclude
<1>2. CASE provider[p] = "pending" /\ provider' = [provider EXCEPT ![p] = "succeeded"]
  BY <1>1, <1>2, SuccessIsSent DEF Account!AccountNext
<1>3. ASSUME NEW s \in {"pending", "lost", "failed"}, provider' = [provider EXCEPT ![p] = s]
      PROVE  [Account!AccountNext]_(Account!accountVars)
  <2>1. payouts' = payouts /\ settlements' = settlements /\ balance' = balance
    BY <1>1 DEF ledgerVars, tables, sums
  <2>2. \A q \in DOMAIN payouts : provider'[q] = "succeeded" <=> provider[q] = "succeeded"
    BY <1>0, <1>1, <1>3
  <2>3. \A k \in PayoutKeys : Reached(k)' = Reached(k)
    BY <2>1, <2>2 DEF Reached
  <2>4. \A k \in PayoutKeys : OpenPaid(k)' = OpenPaid(k)
    BY <2>1, <2>3 DEF OpenPaid, Active
  <2>5. QED BY <2>1, <2>3, <2>4, AccountStutter
<1>4. QED BY <1>1, <1>2, <1>3

LEMMA AccountStep ==
  PayoutsInv /\ [Next]_vars => [Account!AccountNext]_(Account!accountVars)
<1> SUFFICES ASSUME PayoutsInv, [Next]_vars
             PROVE  [Account!AccountNext]_(Account!accountVars)
  OBVIOUS
<1>1. CASE FundsStay
  <2>1. \A k \in PayoutKeys : Reached(k)' = Reached(k)
    BY <1>1 DEF FundsStay, Reached
  <2>2. \A k \in PayoutKeys : OpenPaid(k)' = OpenPaid(k)
    BY <1>1, <2>1 DEF FundsStay, OpenPaid, Active
  <2>3. settlements' = settlements /\ balance' = balance
    BY <1>1 DEF FundsStay
  <2>4. QED BY <2>1, <2>2, <2>3, AccountStutter
<1>2. CASE FundsMove
  BY <1>2, ReserveKeepsAccount, DispatchKeepsAccount, AnswerKeepsAccount, ZapIsEarned,
     ProviderKeepsAccount DEF FundsMove
<1>3. QED BY <1>1, <1>2, FundsKinds

LEMMA AccountStart == Init => Account!AccountInit
<1> SUFFICES ASSUME Init PROVE Account!AccountInit
  OBVIOUS
<1>1. DOMAIN payouts = {} /\ settlements = {}
      /\ \A k \in PayoutKeys : balance[k].available = 0 /\ balance[k].reserved = 0
  BY DEF Init, LedgerInit
<1>2. \A k \in PayoutKeys : Reached(k) = {} /\ OpenPaid(k) = {}
  BY <1>1 DEF Reached, OpenPaid
<1>3. AmountOf({}) = 0
  BY FS_EmptySet, SumFirst DEF AmountOf
<1>4. ASSUME NEW k \in PayoutKeys PROVE Owed(k) = 0 /\ Sent(k) = 0
  <2>1. AmountOf(OpenPaid(k)) = 0 /\ AmountOf(Reached(k)) = 0
    BY <1>2, <1>3
  <2>2. balance[k].available = 0 /\ balance[k].reserved = 0
    BY <1>1
  <2>3. QED BY <2>1, <2>2 DEF Owed, Sent
<1>5. /\ [k \in PayoutKeys |-> Owed(k)] = [k \in PayoutKeys |-> 0]
      /\ [k \in PayoutKeys |-> Sent(k)] = [k \in PayoutKeys |-> 0]
  BY <1>4
<1>6. QED BY <1>1, <1>5 DEF Account!AccountInit, Owed, Sent, OpenPaid

\* Whatever calls overlap, answers are lost and crashes happen, every step of the
\* service is a step of the creator's account: a zap is credited once, a payment
\* leaves what is owed when it reaches the creator, and only dust is given up.
THEOREM ServiceKeepsAccount == Spec => KeepsAccount
<1>1. Spec => []PayoutsInv
  BY PayoutsInvariant
<1>2. QED
  BY <1>1, AccountStart, AccountStep, PTL DEF Spec, KeepsAccount, Account!AccountSpec
=============================================================================
