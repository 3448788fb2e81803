---------------------------- MODULE SwapFeesProofs ----------------------------
(***************************************************************************)
(* Proofs about swaps with fees, for any fees, vaults, accounts, offers    *)
(* and bounds.  What is proved of the swap contract still holds, as fees   *)
(* only add conditions to its transactions; the loops that check and pay   *)
(* the fees go round by round.                                             *)
(***************************************************************************)
EXTENDS SwapFees, EMSwapProofs, SequenceLemmas

-----------------------------------------------------------------------------
(***************************************************************************)
(* Swaps with fees.                                                        *)
(***************************************************************************)

\* Every transaction is one of the swap contract, or concerns vaults alone.
LEMMA StepOfSwapOrVaults ==
    ASSUME [FeesNext]_feesVars
    PROVE  [SwapNext]_vars \/ (ledgerVars' = ledgerVars /\ swapVars' = swapVars
                                 /\ proposalExecuted' = {})
<1>1. CASE OtherTransactions
  BY <1>1 DEF SwapNext
<1>2. CASE TokensElsewhere
  BY <1>2 DEF TokensElsewhere, SendTokens, UnlinkVault
<1>3. ASSUME NEW left \in Account, NEW right \in Account,
             NEW leftNfts \in OfferLists, NEW rightNfts \in OfferLists,
             NEW minutes \in OffsetMinutes, NEW fees \in FeeLists,
             CreateProposalWithFees(left, right, leftNfts, rightNfts,
                                    minutes, fees)
      PROVE  SwapNext
  BY <1>3 DEF CreateProposalWithFees, SwapNext
<1>4. ASSUME NEW signer \in Account, NEW left \in Account,
             NEW p \in swapProposals[left],
             AcceptTradeWithFees(signer, left, p)
      PROVE  SwapNext
  BY <1>4 DEF AcceptTradeWithFees, SwapNext
<1>5. ASSUME NEW left \in Account, NEW id \in ProposalId,
             DeleteProposalWithFees(left, id)
      PROVE  SwapNext
  BY <1>5 DEF DeleteProposalWithFees, SwapNext
<1>6. CASE UNCHANGED feesVars
  BY <1>6 DEF feesVars
<1> QED BY <1>1, <1>2, <1>3, <1>4, <1>5, <1>6 DEF FeesNext

\* What concerns vaults alone keeps the invariant of the swap contract.
LEMMA VaultsKeepInv ==
    ASSUME SwapInv, ledgerVars' = ledgerVars, swapVars' = swapVars,
           proposalExecuted' = {}
    PROVE  SwapInv'
<1>1. LedgerInv'
  BY StutterKeepsInv DEF SwapInv
<1> QED BY <1>1 DEF SwapInv, SwapTypeOK, LedgerInv, swapVars

\* The inductive invariant of the swap contract holds with fees, too.
THEOREM FeesInvariance == FeesSpec => []SwapInv
<1>1. SwapInit => SwapInv
  BY InitSwapInv
<1>2. SwapInv /\ [FeesNext]_feesVars => SwapInv'
  BY StepOfSwapOrVaults, VaultsKeepInv, StepKeepsSwapInv
<1> QED BY <1>1, <1>2, PTL DEF FeesSpec

\* Swaps with fees conserve Moments.
THEOREM FeesConserve == FeesSpec => []MomentConservation
<1>1. SwapInv => MomentConservation
  BY DEF SwapInv, LedgerInv
<1> QED BY <1>1, FeesInvariance, PTL

\* Nor is a Moment spent twice when fees are paid.
THEOREM FeesSpendOnce == FeesSpec => NoDoubleSpend
<1>1. FeesSpec => [][SpentNow]_vars
  BY AcceptedIsSpent, FeesInvariance, PTL DEF FeesSpec
<1> QED BY <1>1 DEF NoDoubleSpend, SpentNow

\* With fees, too, Moments change hands only as the market allows.
THEOREM FeesImplementMarket == FeesSpec => StepsImplementMarket
<1>1. SwapInv /\ SwapInv' /\ [FeesNext]_feesVars =>
         [Market!MarketNext]_(Market!marketVars)
  BY StepOfSwapOrVaults, StepOfMarket, ElsewhereIsStep
     DEF ledgerVars, swapVars
<1> QED BY <1>1, FeesInvariance, PTL DEF FeesSpec, StepsImplementMarket

\* Swaps with fees do not move a locked Moment.
THEOREM FeesKeepLocks == FeesSpec => LockedMomentsStayPut
<1>1. SwapInv /\ [FeesNext]_feesVars => [LockedStayPut]_ledgerVars
  BY StepOfSwapOrVaults, StepKeepsLocked
<1>2. FeesSpec => [][LockedStayPut]_ledgerVars
  BY <1>1, FeesInvariance, PTL DEF FeesSpec
<1> QED BY <1>2 DEF LockedMomentsStayPut, LockedStayPut

\* Nor do they touch a lock that stands.
THEOREM FeesHonourLocks == FeesSpec => LocksAreHonoured
<1>1. SwapInv /\ [FeesNext]_feesVars => [LocksHonoured]_ledgerVars
  BY StepOfSwapOrVaults, StepHonoursLocks
<1>2. FeesSpec => [][LocksHonoured]_ledgerVars
  BY <1>1, FeesInvariance, PTL DEF FeesSpec
<1> QED BY <1>2 DEF LocksAreHonoured, LocksHonoured
-----------------------------------------------------------------------------
(***************************************************************************)
(* What the fee loops compute.                                             *)
(***************************************************************************)

\* The fields of the fees of a list.
LEMMA FeeFields ==
    ASSUME NEW fees \in Seq(Fee)
    PROVE  /\ Len(fees) \in Nat /\ DOMAIN fees = 1 .. Len(fees)
           /\ \A i \in 1 .. Len(fees) :
                 /\ fees[i].receiver \in Holder /\ fees[i].token \in Token
                 /\ fees[i].amount \in Nat \ {0}
<1>1. Len(fees) \in Nat /\ DOMAIN fees = 1 .. Len(fees)
  BY LenProperties
<1>2. \A i \in 1 .. Len(fees) : fees[i] \in Fee
  BY <1>1, ElementOfSeq
<1> QED BY <1>1, <1>2 DEF Fee

\* The running total starts with 0, and grows with each fee that counts.
LEMMA FeeSumValue ==
    ASSUME NEW fees \in Seq(Fee), NEW S
    PROVE  /\ FeeSum(fees, S) \in [0 .. Len(fees) -> Nat]
           /\ FeeSum(fees, S)[0] = 0
           /\ \A i \in 1 .. Len(fees) :
                 FeeSum(fees, S)[i] =
                    IF i \in S THEN FeeSum(fees, S)[i - 1] + fees[i].amount
                    ELSE FeeSum(fees, S)[i - 1]
<1> DEFINE n == Len(fees)
           step == [i \in 1 .. n |-> [x \in Nat |->
                       IF i \in S THEN x + fees[i].amount ELSE x]]
           IsSum(f) == f = [i \in 0 .. n |->
                               IF i = 0 THEN 0
                               ELSE IF i \in S THEN f[i - 1] + fees[i].amount
                                    ELSE f[i - 1]]
<1>1. n \in Nat /\ \A i \in 1 .. n : fees[i].amount \in Nat
  BY FeeFields
<1>2. step \in [1 .. n -> [Nat -> Nat]]
  BY <1>1
<1>3. ASSUME NEW i \in 1 .. n, NEW x \in Nat
      PROVE  step[i][x] = IF i \in S THEN x + fees[i].amount ELSE x
  BY <1>3
<1> HIDE DEF step, n
<1>4. PICK f \in [0 .. n -> Nat] :
         f[0] = 0 /\ \A i \in 1 .. n : f[i] = step[i][f[i - 1]]
  <2> DEFINE V == Nat
             zero == 0
  <2>1. zero \in V /\ IsBody(step, n, V)
    BY <1>2 DEF IsBody
  <2> HIDE DEF V, zero
  <2>2. \E f : IsRun(f, step, n, V, zero)
    BY <1>1, <2>1, LoopRuns
  <2> QED BY <2>2 DEF V, zero, IsRun
<1>5. ASSUME NEW i \in 0 .. n
      PROVE  f[i] = IF i = 0 THEN 0
                    ELSE IF i \in S THEN f[i - 1] + fees[i].amount
                         ELSE f[i - 1]
  <2>1. CASE i = 0
    BY <1>4, <2>1
  <2>2. CASE i # 0
    <3>1. i \in 1 .. n /\ i - 1 \in 0 .. n
      BY <1>1, <2>2
    <3>2. f[i - 1] \in Nat
      BY <3>1
    <3>3. f[i] = step[i][f[i - 1]]
      BY <1>4, <3>1
    <3> QED BY <1>3, <2>2, <3>1, <3>2, <3>3
  <2> QED BY <2>1, <2>2
<1>6. IsSum(f)
  BY <1>5
<1>7. FeeSum(fees, S) = CHOOSE g : IsSum(g)
  BY DEF FeeSum, n
<1>8. IsSum(FeeSum(fees, S))
  <2> HIDE DEF IsSum
  <2> QED BY <1>6, <1>7
<1> DEFINE sum == FeeSum(fees, S)
<1> HIDE DEF sum
<1>9. /\ DOMAIN sum = 0 .. n /\ sum[0] = 0
      /\ sum = [i \in 0 .. n |-> sum[i]]
      /\ \A i \in 1 .. n : sum[i] = IF i \in S THEN sum[i - 1] + fees[i].amount
                                    ELSE sum[i - 1]
  BY <1>1, <1>8 DEF sum
<1>10. { i \in 0 .. n : sum[i] \in Nat } = 0 .. n
  <2> DEFINE I == { i \in 0 .. n : sum[i] \in Nat }
  <2>1. 0 \in I /\ I \in SUBSET (0 .. n)
    BY <1>1, <1>9
  <2>2. ASSUME NEW i \in 0 .. n - 1, i \in I PROVE i + 1 \in I
    <3>1. i + 1 \in 1 .. n /\ i + 1 - 1 = i
      BY <1>1, <2>2
    <3>2. fees[i + 1].amount \in Nat /\ sum[i] \in Nat
      BY <1>1, <2>2, <3>1
    <3>3. sum[i + 1] = IF i + 1 \in S THEN sum[i] + fees[i + 1].amount
                       ELSE sum[i]
      <4> DEFINE j == i + 1
      <4>1. j \in 1 .. n /\ j - 1 = i
        BY <3>1
      <4> HIDE DEF j
      <4>2. sum[j] = IF j \in S THEN sum[i] + fees[j].amount ELSE sum[i]
        BY <1>9, <4>1
      <4> QED BY <4>2 DEF j
    <3> QED BY <3>1, <3>2, <3>3
  <2> HIDE DEF I
  <2>3. I = 0 .. n
    BY <1>1, <2>1, <2>2, UpTo
  <2> QED BY <2>3 DEF I
<1>11. sum \in [0 .. n -> Nat]
  BY <1>9, <1>10
<1> QED BY <1>9, <1>11 DEF sum, n

\* Vaults, overdrawn ones included.
Vaults == [Holder -> [Token -> Int]]

\* Adding to one vault.
LEMMA VaultChanged ==
    ASSUME NEW v \in Vaults, NEW h \in Holder, NEW t \in Token, NEW x \in Int
    PROVE  /\ [v EXCEPT ![h][t] = x] \in Vaults
           /\ \A g \in Holder, s \in Token :
                 [v EXCEPT ![h][t] = x][g][s] =
                    IF g = h /\ s = t THEN x ELSE v[g][s]
<1> DEFINE row == [v[h] EXCEPT ![t] = x]
           w == [v EXCEPT ![h] = row]
<1>1. [v EXCEPT ![h][t] = x] = w
  OBVIOUS
<1>2. v[h] \in [Token -> Int]
  BY DEF Vaults
<1>3. /\ row \in [Token -> Int]
      /\ \A s \in Token : row[s] = IF s = t THEN x ELSE v[h][s]
  BY <1>2
<1> HIDE DEF row
<1>4. /\ w \in Vaults
      /\ \A g \in Holder : w[g] = IF g = h THEN row ELSE v[g]
  BY <1>3 DEF Vaults
<1> HIDE DEF w
<1>5. \A g \in Holder, s \in Token :
         w[g][s] = IF g = h /\ s = t THEN x ELSE v[g][s]
  BY <1>3, <1>4
<1> QED BY <1>1, <1>4, <1>5

\* A fee takes its amount from the payer and brings it to the receiver.
LEMMA PaidValue ==
    ASSUME NEW v \in Vaults, NEW payer \in Holder, NEW fee,
           fee.receiver \in Holder, fee.token \in Token, fee.amount \in Nat
    PROVE  /\ Paid(v, payer, fee) \in Vaults
           /\ \A h \in Holder, t \in Token :
                 Paid(v, payer, fee)[h][t] =
                    v[h][t]
                    - (IF h = payer /\ t = fee.token THEN fee.amount ELSE 0)
                    + (IF h = fee.receiver /\ t = fee.token THEN fee.amount
                       ELSE 0)
<1> DEFINE r == fee.receiver
           k == fee.token
           a == fee.amount
           x == v[payer][k] - a
           w == [v EXCEPT ![payer][k] = x]
           y == w[r][k] + a
<1>1. r \in Holder /\ k \in Token /\ a \in Nat
  OBVIOUS
<1>2. Paid(v, payer, fee) = [w EXCEPT ![r][k] = y]
  BY DEF Paid
<1>3. \A h \in Holder, t \in Token : v[h][t] \in Int
  BY DEF Vaults
<1> HIDE DEF r, k, a
<1>4. x \in Int
  BY <1>1, <1>3
<1>5. /\ w \in Vaults
      /\ \A h \in Holder, t \in Token :
            w[h][t] = IF h = payer /\ t = k THEN x ELSE v[h][t]
  <2> HIDE DEF x
  <2> QED BY <1>1, <1>4, VaultChanged
<1> HIDE DEF w
<1>6. y \in Int
  BY <1>1, <1>5 DEF Vaults
<1>7. /\ [w EXCEPT ![r][k] = y] \in Vaults
      /\ \A h \in Holder, t \in Token :
            [w EXCEPT ![r][k] = y][h][t] =
               IF h = r /\ t = k THEN y ELSE w[h][t]
  <2> HIDE DEF y
  <2> QED BY <1>1, <1>5, <1>6, VaultChanged
<1>8. ASSUME NEW h \in Holder, NEW t \in Token
      PROVE  [w EXCEPT ![r][k] = y][h][t] =
                v[h][t] - (IF h = payer /\ t = k THEN a ELSE 0)
                        + (IF h = r /\ t = k THEN a ELSE 0)
  <2> DEFINE z == [w EXCEPT ![r][k] = y]
  <2>1. z[h][t] = IF h = r /\ t = k THEN y ELSE w[h][t]
    BY <1>7
  <2> HIDE DEF z
  <2>2. w[h][t] = IF h = payer /\ t = k THEN x ELSE v[h][t]
    BY <1>5
  <2>3. h = r /\ t = k => y = w[h][t] + a
    OBVIOUS
  <2>4. h = payer /\ t = k => x = v[h][t] - a
    OBVIOUS
  <2>5. v[h][t] \in Int
    BY <1>3
  <2> HIDE DEF x, y
  <2>6. z[h][t] = v[h][t] - (IF h = payer /\ t = k THEN a ELSE 0)
                          + (IF h = r /\ t = k THEN a ELSE 0)
    BY <1>1, <2>1, <2>2, <2>3, <2>4, <2>5
  <2> QED BY <2>6 DEF z
<1> QED BY <1>2, <1>7, <1>8 DEF r, k, a

\* The payments start with the vaults as they are, and pay fee by fee.
LEMMA PaymentsValue ==
    ASSUME NEW fees \in Seq(Fee), NEW v \in Vaults, NEW payer \in Holder
    PROVE  /\ Payments(v, payer, fees) \in [0 .. Len(fees) -> Vaults]
           /\ Payments(v, payer, fees)[0] = v
           /\ \A i \in 1 .. Len(fees) :
                 Payments(v, payer, fees)[i] =
                    Paid(Payments(v, payer, fees)[i - 1], payer, fees[i])
<1> DEFINE n == Len(fees)
           step == [i \in 1 .. n |-> [x \in Vaults |-> Paid(x, payer, fees[i])]]
           IsPaying(f) == f = [i \in 0 .. n |->
                                  IF i = 0 THEN v
                                  ELSE Paid(f[i - 1], payer, fees[i])]
<1>1. n \in Nat
  BY FeeFields
<1>2. ASSUME NEW i \in 1 .. n, NEW x \in Vaults
      PROVE  Paid(x, payer, fees[i]) \in Vaults
  <2> DEFINE fee == fees[i]
  <2>1. fee.receiver \in Holder /\ fee.token \in Token /\ fee.amount \in Nat
    BY FeeFields
  <2> HIDE DEF fee
  <2>2. Paid(x, payer, fee) \in Vaults
    BY <2>1, PaidValue
  <2> QED BY <2>2 DEF fee
<1>3. IsBody(step, n, Vaults)
  BY <1>2 DEF IsBody
<1>4. ASSUME NEW i \in 1 .. n, NEW x \in Vaults
      PROVE  step[i][x] = Paid(x, payer, fees[i])
  BY <1>4
<1> HIDE DEF step, n
<1>5. PICK f : IsRun(f, step, n, Vaults, v)
  BY <1>1, <1>3, LoopRuns
<1>6. ASSUME NEW i \in 0 .. n
      PROVE  f[i] = IF i = 0 THEN v ELSE Paid(f[i - 1], payer, fees[i])
  <2>1. CASE i = 0
    BY <1>5, <2>1 DEF IsRun
  <2>2. CASE i # 0
    <3>1. i \in 1 .. n /\ i - 1 \in 0 .. n
      BY <1>1, <2>2
    <3>2. f[i - 1] \in Vaults /\ f[i] = step[i][f[i - 1]]
      BY <1>5, <3>1 DEF IsRun
    <3> QED BY <1>4, <2>2, <3>1, <3>2
  <2> QED BY <2>1, <2>2
<1>7. IsPaying(f)
  BY <1>5, <1>6 DEF IsRun
<1>8. Payments(v, payer, fees) = CHOOSE g : IsPaying(g)
  BY DEF Payments, n
<1>9. IsPaying(Payments(v, payer, fees))
  <2> HIDE DEF IsPaying
  <2> QED BY <1>7, <1>8
<1> DEFINE after == Payments(v, payer, fees)
<1> HIDE DEF after
<1>10. /\ DOMAIN after = 0 .. n /\ after[0] = v
       /\ after = [i \in 0 .. n |-> after[i]]
       /\ \A i \in 1 .. n : after[i] = Paid(after[i - 1], payer, fees[i])
  BY <1>1, <1>9 DEF after
<1>11. { i \in 0 .. n : after[i] \in Vaults } = 0 .. n
  <2> DEFINE I == { i \in 0 .. n : after[i] \in Vaults }
  <2>1. 0 \in I /\ I \in SUBSET (0 .. n)
    BY <1>1, <1>10
  <2>2. ASSUME NEW i \in 0 .. n - 1, i \in I PROVE i + 1 \in I
    <3> DEFINE j == i + 1
    <3>1. j \in 1 .. n /\ j - 1 = i /\ j \in 0 .. n
      BY <1>1, <2>2
    <3>2. after[i] \in Vaults
      BY <2>2
    <3> HIDE DEF j
    <3>3. after[j] = Paid(after[i], payer, fees[j])
      BY <1>10, <3>1
    <3>4. j \in I
      BY <1>2, <3>1, <3>2, <3>3
    <3> QED BY <3>4 DEF j
  <2> HIDE DEF I
  <2>3. I = 0 .. n
    BY <1>1, <2>1, <2>2, UpTo
  <2> QED BY <2>3 DEF I
<1>12. after \in [0 .. n -> Vaults]
  BY <1>10, <1>11
<1> QED BY <1>10, <1>12 DEF after, n

\* What holder h has got of token t after each fee.
Got(fees, h, t) == FeeSum(fees, ForHolder(fees, h, t))

\* The running totals, fee by fee.
LEMMA TotalsGrow ==
    ASSUME NEW fees \in Seq(Fee), NEW t, NEW h
    PROVE  /\ \A i \in 0 .. Len(fees) : /\ FeeTotal(fees, t, i) \in Nat
                                        /\ Got(fees, h, t)[i] \in Nat
           /\ FeeTotal(fees, t, 0) = 0 /\ Got(fees, h, t)[0] = 0
           /\ \A i \in 1 .. Len(fees) :
                 /\ FeeTotal(fees, t, i) = FeeTotal(fees, t, i - 1)
                       + (IF t = fees[i].token THEN fees[i].amount ELSE 0)
                 /\ Got(fees, h, t)[i] = Got(fees, h, t)[i - 1]
                       + (IF h = fees[i].receiver /\ t = fees[i].token
                          THEN fees[i].amount ELSE 0)
<1> DEFINE S == OfToken(fees, t)
           R == ForHolder(fees, h, t)
           n == Len(fees)
<1>1. /\ n \in Nat
      /\ \A i \in 1 .. n : i \in S <=> t = fees[i].token
      /\ \A i \in 1 .. n : i \in R <=> h = fees[i].receiver /\ t = fees[i].token
      /\ \A i \in 1 .. n : fees[i].amount \in Nat
  BY FeeFields DEF OfToken, ForHolder
<1> HIDE DEF S, R
<1>2. ASSUME NEW P
      PROVE  /\ FeeSum(fees, P) \in [0 .. n -> Nat]
             /\ FeeSum(fees, P)[0] = 0
             /\ \A i \in 1 .. n :
                   FeeSum(fees, P)[i] = FeeSum(fees, P)[i - 1]
                      + (IF i \in P THEN fees[i].amount ELSE 0)
  <2>1. /\ FeeSum(fees, P) \in [0 .. n -> Nat]
        /\ FeeSum(fees, P)[0] = 0
        /\ \A i \in 1 .. n :
              FeeSum(fees, P)[i] =
                 IF i \in P THEN FeeSum(fees, P)[i - 1] + fees[i].amount
                 ELSE FeeSum(fees, P)[i - 1]
    BY FeeSumValue
  <2> DEFINE sum == FeeSum(fees, P)
  <2> HIDE DEF sum
  <2>2. ASSUME NEW i \in 1 .. n
        PROVE  sum[i] = sum[i - 1] + (IF i \in P THEN fees[i].amount ELSE 0)
    <3>1. i - 1 \in 0 .. n
      BY <1>1
    <3>2. sum[i - 1] \in Nat
      BY <2>1, <3>1 DEF sum
    <3>3. sum[i] = IF i \in P THEN sum[i - 1] + fees[i].amount ELSE sum[i - 1]
      BY <2>1 DEF sum
    <3> QED BY <1>1, <3>2, <3>3
  <2> QED BY <2>1, <2>2 DEF sum
<1>3. /\ \A i \in 0 .. n : FeeSum(fees, S)[i] \in Nat
      /\ FeeSum(fees, S)[0] = 0
      /\ \A i \in 1 .. n :
            FeeSum(fees, S)[i] = FeeSum(fees, S)[i - 1]
               + (IF t = fees[i].token THEN fees[i].amount ELSE 0)
  <2>1. /\ FeeSum(fees, S) \in [0 .. n -> Nat]
        /\ FeeSum(fees, S)[0] = 0
        /\ \A i \in 1 .. n :
              FeeSum(fees, S)[i] = FeeSum(fees, S)[i - 1]
                 + (IF i \in S THEN fees[i].amount ELSE 0)
    BY <1>2
  <2> QED BY <1>1, <2>1
<1>4. /\ \A i \in 0 .. n : FeeSum(fees, R)[i] \in Nat
      /\ FeeSum(fees, R)[0] = 0
      /\ \A i \in 1 .. n :
            FeeSum(fees, R)[i] = FeeSum(fees, R)[i - 1]
               + (IF h = fees[i].receiver /\ t = fees[i].token
                  THEN fees[i].amount ELSE 0)
  <2>1. /\ FeeSum(fees, R) \in [0 .. n -> Nat]
        /\ FeeSum(fees, R)[0] = 0
        /\ \A i \in 1 .. n :
              FeeSum(fees, R)[i] = FeeSum(fees, R)[i - 1]
                 + (IF i \in R THEN fees[i].amount ELSE 0)
    BY <1>2
  <2> QED BY <1>1, <2>1
<1>5. \A i : FeeTotal(fees, t, i) = FeeSum(fees, S)[i]
  BY DEF FeeTotal, S
<1>6. Got(fees, h, t) = FeeSum(fees, R)
  BY DEF Got, R
<1> QED BY <1>3, <1>4, <1>5, <1>6

\* After i fees the payer has paid their total, and everybody has got the
\* fees that name him.
LEMMA PaymentsAddUp ==
    ASSUME NEW fees \in Seq(Fee), NEW v \in Vaults, NEW payer \in Holder,
           NEW h \in Holder, NEW t \in Token, NEW i \in 0 .. Len(fees)
    PROVE  Payments(v, payer, fees)[i][h][t] =
              v[h][t] - (IF h = payer THEN FeeTotal(fees, t, i) ELSE 0)
                      + Got(fees, h, t)[i]
<1> DEFINE n == Len(fees)
           after == Payments(v, payer, fees)
           T(j) == FeeTotal(fees, t, j)
           G(j) == Got(fees, h, t)[j]
           Right(j) == after[j][h][t] =
                          v[h][t] - (IF h = payer THEN T(j) ELSE 0) + G(j)
           I == { j \in 0 .. n : Right(j) }
<1>1. /\ n \in Nat
      /\ \A j \in 1 .. n : /\ fees[j].receiver \in Holder
                           /\ fees[j].token \in Token /\ fees[j].amount \in Nat
  BY FeeFields
<1>2. /\ \A j \in 0 .. n : T(j) \in Nat /\ G(j) \in Nat
      /\ T(0) = 0 /\ G(0) = 0
      /\ \A j \in 1 .. n :
            /\ T(j) = T(j - 1) + (IF t = fees[j].token THEN fees[j].amount ELSE 0)
            /\ G(j) = G(j - 1) + (IF h = fees[j].receiver /\ t = fees[j].token
                                  THEN fees[j].amount ELSE 0)
  BY TotalsGrow
<1>3. /\ after \in [0 .. n -> Vaults] /\ after[0] = v
      /\ \A j \in 1 .. n : after[j] = Paid(after[j - 1], payer, fees[j])
  BY PaymentsValue
<1>4. ASSUME NEW x \in Vaults PROVE x[h][t] \in Int
  BY DEF Vaults
<1> HIDE DEF after, T, G, n
<1>5. 0 \in I
  <2>1. Right(0)
    BY <1>2, <1>3, <1>4
  <2> QED BY <1>1, <2>1
<1>6. ASSUME NEW k \in 0 .. n - 1, k \in I PROVE k + 1 \in I
  <2> DEFINE j == k + 1
             fee == fees[j]
             u == after[k]
  <2>1. j \in 1 .. n /\ j \in 0 .. n /\ j - 1 = k /\ k \in 0 .. n
    BY <1>1, <1>6
  <2>2. /\ fee.receiver \in Holder /\ fee.token \in Token
        /\ fee.amount \in Nat /\ u \in Vaults
    BY <1>1, <1>3, <2>1
  <2>3. u[h][t] = v[h][t] - (IF h = payer THEN T(k) ELSE 0) + G(k)
    BY <1>6
  <2> HIDE DEF j
  <2>4. /\ after[j] = Paid(u, payer, fee)
        /\ T(j) = T(k) + (IF t = fee.token THEN fee.amount ELSE 0)
        /\ G(j) = G(k) + (IF h = fee.receiver /\ t = fee.token
                          THEN fee.amount ELSE 0)
        /\ T(k) \in Nat /\ G(k) \in Nat
    BY <1>2, <1>3, <2>1
  <2>5. u[h][t] \in Int /\ v[h][t] \in Int
    BY <1>4, <2>2
  <2> HIDE DEF u, fee
  <2>6. Paid(u, payer, fee)[h][t] =
           u[h][t] - (IF h = payer /\ t = fee.token THEN fee.amount ELSE 0)
                   + (IF h = fee.receiver /\ t = fee.token THEN fee.amount
                      ELSE 0)
    BY <2>2, PaidValue
  <2>7. Right(j)
    <3> DEFINE got == IF h = fee.receiver /\ t = fee.token THEN fee.amount
                      ELSE 0
               p == IF t = fee.token THEN fee.amount ELSE 0
    <3>1. /\ T(j) = T(k) + p /\ G(j) = G(k) + got
          /\ p \in Int /\ got \in Int
      BY <2>2, <2>4
    <3>2. after[j][h][t] = u[h][t] - (IF h = payer THEN p ELSE 0) + got
      BY <2>4, <2>6
    <3> HIDE DEF p, got
    <3>3. CASE h = payer
      <4>1. u[h][t] = v[h][t] - T(k) + G(k)
        BY <2>3, <3>3
      <4>2. after[j][h][t] = u[h][t] - p + got
        BY <3>2, <3>3
      <4>3. after[j][h][t] = v[h][t] - (T(k) + p) + (G(k) + got)
        <5>1. \A a, b, c, d, e \in Int :
                 (((a - b) + c) - d) + e = (a - (b + d)) + (c + e)
          OBVIOUS
        <5>2. T(k) \in Int /\ G(k) \in Int
          BY <2>4
        <5>3. after[j][h][t] = (((v[h][t] - T(k)) + G(k)) - p) + got
          BY <4>1, <4>2
        <5> HIDE DEF after
        <5> QED BY <2>5, <3>1, <5>1, <5>2, <5>3
      <4> QED BY <3>1, <3>3, <4>3
    <3>4. CASE h # payer
      <4>1. u[h][t] = v[h][t] + G(k)
        BY <2>3, <2>4, <2>5, <3>4
      <4>2. after[j][h][t] = u[h][t] + got
        BY <2>5, <3>1, <3>2, <3>4
      <4>3. after[j][h][t] = v[h][t] - 0 + (G(k) + got)
        BY <2>4, <2>5, <3>1, <4>1, <4>2
      <4> QED BY <3>1, <3>4, <4>3
    <3> QED BY <3>3, <3>4
  <2>8. j \in I
    <3> HIDE DEF Right
    <3> QED BY <2>1, <2>7
  <2> QED BY <2>8 DEF j
<1>7. I = 0 .. n
  <2>1. I \in SUBSET (0 .. n)
    OBVIOUS
  <2> HIDE DEF I
  <2> QED BY <1>1, <1>5, <1>6, <2>1, UpTo
<1>8. Right(i)
  <2>1. i \in I
    BY <1>7 DEF n
  <2> HIDE DEF Right
  <2> QED BY <2>1
<1> QED BY <1>8 DEF after, T, G

\* Where each running total is covered, no withdrawal fails.
LEMMA CoveredCanBePaid ==
    ASSUME NEW fees \in Seq(Fee), NEW v \in Vaults, NEW payer \in Holder,
           \A i \in DOMAIN fees :
              v[payer][fees[i].token] >= FeeTotal(fees, fees[i].token, i)
    PROVE  Withdrawals(v, payer, fees)
<1> SUFFICES ASSUME NEW i \in DOMAIN fees
             PROVE  fees[i].amount <=
                       Payments(v, payer, fees)[i - 1][payer][fees[i].token]
  BY DEF Withdrawals
<1> DEFINE t == fees[i].token
           a == fees[i].amount
           j == i - 1
<1>1. /\ t \in Token /\ a \in Nat
      /\ i \in 1 .. Len(fees) /\ j \in 0 .. Len(fees) /\ i \in 0 .. Len(fees)
  BY FeeFields
<1>2. v[payer][t] >= FeeTotal(fees, t, i)
  OBVIOUS
<1>3. /\ FeeTotal(fees, t, i) = FeeTotal(fees, t, j) + a
      /\ FeeTotal(fees, t, j) \in Nat
      /\ Got(fees, payer, t)[j] \in Nat
  BY <1>1, TotalsGrow
<1> HIDE DEF t, a, j
<1>4. Payments(v, payer, fees)[j][payer][t] =
         v[payer][t] - FeeTotal(fees, t, j) + Got(fees, payer, t)[j]
  BY <1>1, PaymentsAddUp
<1>5. v[payer][t] \in Int
  BY <1>1 DEF Vaults
<1>6. a <= Payments(v, payer, fees)[j][payer][t]
  BY <1>1, <1>2, <1>3, <1>4, <1>5
<1> QED BY <1>6 DEF t, a, j

\* Vaults that are not overdrawn.
FullVaults == [Holder -> [Token -> Nat]]

LEMMA FullAreVaults == FullVaults \subseteq Vaults
<1> SUFFICES ASSUME NEW v \in FullVaults PROVE v \in Vaults
  OBVIOUS
<1>1. /\ v = [h \in Holder |-> v[h]]
      /\ \A h \in Holder : v[h] \in [Token -> Nat]
  BY DEF FullVaults
<1>2. \A h \in Holder : v[h] \in [Token -> Int]
  BY <1>1
<1> QED BY <1>1, <1>2 DEF Vaults

LEMMA VaultsFull ==
    ASSUME NEW v \in Vaults, \A h \in Holder, t \in Token : v[h][t] >= 0
    PROVE  v \in FullVaults
<1>1. ASSUME NEW h \in Holder PROVE v[h] \in [Token -> Nat]
  <2>1. v[h] \in [Token -> Int]
    BY DEF Vaults
  <2> QED BY <2>1
<1> QED BY <1>1 DEF FullVaults, Vaults

\* Withdrawals that do not fail overdraw no vault.
LEMMA PaymentsStayFull ==
    ASSUME NEW fees \in Seq(Fee), NEW v \in FullVaults, NEW payer \in Holder,
           Withdrawals(v, payer, fees)
    PROVE  AfterFees(v, payer, fees) \in FullVaults
<1> DEFINE n == Len(fees)
           after == Payments(v, payer, fees)
           I == { i \in 0 .. n : after[i] \in FullVaults }
<1>0. v \in Vaults
  BY FullAreVaults
<1>1. /\ n \in Nat /\ DOMAIN fees = 1 .. n
      /\ \A j \in 1 .. n : /\ fees[j].receiver \in Holder
                           /\ fees[j].token \in Token /\ fees[j].amount \in Nat
  BY FeeFields
<1>2. /\ after \in [0 .. n -> Vaults] /\ after[0] = v
      /\ \A j \in 1 .. n : after[j] = Paid(after[j - 1], payer, fees[j])
  BY <1>0, PaymentsValue
<1>3. \A j \in 1 .. n : fees[j].amount <= after[j - 1][payer][fees[j].token]
  BY <1>1 DEF Withdrawals
<1> HIDE DEF after, n
<1>4. 0 \in I
  BY <1>1, <1>2
<1>5. ASSUME NEW k \in 0 .. n - 1, k \in I PROVE k + 1 \in I
  <2> DEFINE j == k + 1
             fee == fees[j]
             u == after[k]
  <2>1. j \in 1 .. n /\ j \in 0 .. n /\ j - 1 = k
    BY <1>1, <1>5
  <2>2. /\ fee.receiver \in Holder /\ fee.token \in Token
        /\ fee.amount \in Nat
    BY <1>1, <2>1
  <2>3. u \in FullVaults /\ u \in Vaults
    BY <1>5, FullAreVaults
  <2> HIDE DEF j
  <2>4. after[j] = Paid(u, payer, fee) /\ fee.amount <= u[payer][fee.token]
    BY <1>2, <1>3, <2>1
  <2>5. \A h \in Holder, t \in Token : u[h][t] \in Nat
    BY <2>3 DEF FullVaults
  <2> HIDE DEF u, fee
  <2>6. /\ Paid(u, payer, fee) \in Vaults
        /\ \A h \in Holder, t \in Token :
              Paid(u, payer, fee)[h][t] =
                 u[h][t] - (IF h = payer /\ t = fee.token THEN fee.amount ELSE 0)
                         + (IF h = fee.receiver /\ t = fee.token
                            THEN fee.amount ELSE 0)
    BY <2>2, <2>3, PaidValue
  <2>7. ASSUME NEW h \in Holder, NEW t \in Token
        PROVE  Paid(u, payer, fee)[h][t] >= 0
    <3> DEFINE paid == IF h = payer /\ t = fee.token THEN fee.amount ELSE 0
               got  == IF h = fee.receiver /\ t = fee.token THEN fee.amount
                       ELSE 0
    <3>1. Paid(u, payer, fee)[h][t] = u[h][t] - paid + got
      BY <2>6
    <3>2. got \in Nat
      BY <2>2
    <3>3. paid \in Nat /\ paid <= u[h][t]
      BY <2>2, <2>4, <2>5
    <3>4. u[h][t] \in Nat
      BY <2>5
    <3> HIDE DEF paid, got
    <3> QED BY <3>1, <3>2, <3>3, <3>4
  <2>8. after[j] \in FullVaults
    BY <2>4, <2>6, <2>7, VaultsFull
  <2> QED BY <2>1, <2>8 DEF j
<1>6. I = 0 .. n
  <2>1. I \in SUBSET (0 .. n)
    OBVIOUS
  <2> HIDE DEF I
  <2> QED BY <1>1, <1>4, <1>5, <2>1, UpTo
<1>7. n \in 0 .. n
  BY <1>1
<1>8. after[n] \in FullVaults
  BY <1>6, <1>7
<1> QED BY <1>8 DEF AfterFees, after, n
-----------------------------------------------------------------------------
(***************************************************************************)
(* The theorems about fees.                                                *)
(***************************************************************************)

\* The inductive invariant of the swap contract with fees.
FeesInv == SwapInv /\ FeesTypeOK

\* The fees of a proposal are a list of fees.
LEMMA FeesOfProposal ==
    ASSUME FeesInv, NEW left \in Account, NEW p \in swapProposals[left]
    PROVE  /\ proposalFees[left][p.id] \in Seq(Fee)
           /\ left \in Holder /\ p.left = left /\ p.right \in Holder
<1>1. p.left = left /\ p.right \in Account /\ p \in Proposal
  BY ProposalFields DEF FeesInv
<1>2. p.id \in ProposalId
  BY <1>1 DEF Proposal
<1>3. proposalFees[left][p.id] \in FeeLists
  BY <1>2 DEF FeesInv, FeesTypeOK
<1> QED BY <1>1, <1>3, FeeAssumption DEF Holder

\* The swap of a proposal with fees settles the vaults without overdrawing
\* any.
LEMMA SettledVaultsFull ==
    ASSUME FeesInv, NEW left \in Holder, NEW right \in Holder,
           NEW fees \in Seq(Fee), FeesCanBePaid(left, right, fees)
    PROVE  SettledVaults(left, right, fees) \in FullVaults
<1>1. balance \in FullVaults
  BY DEF FeesInv, FeesTypeOK, FullVaults
<1> DEFINE half == AfterFees(balance, left, fees)
<1>2. half \in FullVaults
  BY <1>1, PaymentsStayFull DEF FeesCanBePaid
<1>3. Withdrawals(half, right, fees)
  BY DEF FeesCanBePaid
<1> HIDE DEF half
<1>4. AfterFees(half, right, fees) \in FullVaults
  BY <1>2, <1>3, PaymentsStayFull
<1> QED BY <1>4 DEF SettledVaults, half

\* A coin sent from one vault to another.
Sent(v, from, to, t) == [v EXCEPT ![from][t] = @ - 1, ![to][t] = @ + 1]

LEMMA SentValue ==
    ASSUME NEW v \in FullVaults, NEW from \in Holder, NEW to \in Holder,
           NEW t \in Token, from # to
    PROVE  /\ v[from][t] > 0 => Sent(v, from, to, t) \in FullVaults
           /\ \A h \in Holder, s \in Token :
                 Sent(v, from, to, t)[h][s] =
                    IF s # t \/ h \notin {from, to} THEN v[h][s]
                    ELSE IF h = from THEN v[h][s] - 1
                    ELSE v[h][s] + 1
<1> DEFINE x == v[from][t] - 1
           u == [v EXCEPT ![from][t] = x]
           y == u[to][t] + 1
           w == [u EXCEPT ![to][t] = y]
<1>1. Sent(v, from, to, t) = w
  BY DEF Sent
<1>2. v \in Vaults /\ \A h \in Holder, s \in Token : v[h][s] \in Nat
  BY FullAreVaults DEF FullVaults
<1>3. x \in Int
  BY <1>2
<1>4. /\ u \in Vaults
      /\ \A h \in Holder, s \in Token :
            u[h][s] = IF h = from /\ s = t THEN x ELSE v[h][s]
  <2> HIDE DEF x
  <2> QED BY <1>2, <1>3, VaultChanged
<1> HIDE DEF u
<1>5. y = v[to][t] + 1 /\ y \in Int
  BY <1>2, <1>4
<1>6. /\ w \in Vaults
      /\ \A h \in Holder, s \in Token :
            w[h][s] = IF h = to /\ s = t THEN y ELSE u[h][s]
  <2> HIDE DEF y
  <2> QED BY <1>4, <1>5, VaultChanged
<1> HIDE DEF w
<1>7. \A h \in Holder, s \in Token :
         w[h][s] = IF s # t \/ h \notin {from, to} THEN v[h][s]
                   ELSE IF h = from THEN v[h][s] - 1 ELSE v[h][s] + 1
  <2> HIDE DEF y
  <2> QED BY <1>4, <1>5, <1>6
<1>8. ASSUME v[from][t] > 0, NEW h \in Holder, NEW s \in Token
      PROVE  w[h][s] >= 0
  BY <1>2, <1>7, <1>8
<1>9. v[from][t] > 0 => w \in FullVaults
  BY <1>6, <1>8, VaultsFull
<1> QED BY <1>1, <1>7, <1>9

\* Every step keeps the types of the vaults and of the fees.
LEMMA StepKeepsFeesInv ==
    ASSUME FeesInv, SwapInv', [FeesNext]_feesVars
    PROVE  FeesInv'
<1>1. /\ SwapInv /\ SwapTypeOK'
      /\ balance \in FullVaults
      /\ feeProvider \subseteq Account /\ feeReceiver \subseteq Holder
      /\ proposalFees \in [Account -> [ProposalId -> FeeLists]]
  BY DEF FeesInv, FeesTypeOK, FullVaults, SwapInv
<1> DEFINE Typed == /\ balance' \in FullVaults
                    /\ feeProvider' \subseteq Account
                    /\ feeReceiver' \subseteq Holder
                    /\ proposalFees' \in [Account -> [ProposalId -> FeeLists]]
<1>2. ASSUME UNCHANGED feeVars
      PROVE  Typed
  BY <1>1, <1>2 DEF feeVars
<1>3. ASSUME NEW from \in Holder, NEW to \in Holder, NEW t \in Token,
             SendTokens(from, to, t)
      PROVE  Typed
  <2>1. balance' \in FullVaults
    <3>1. /\ from # to /\ balance[from][t] > 0
          /\ balance' = Sent(balance, from, to, t)
      BY <1>3 DEF SendTokens, Sent
    <3> QED BY <1>1, <3>1, SentValue
  <2> QED BY <1>1, <1>3, <2>1 DEF SendTokens
<1>4. ASSUME NEW h \in Holder, UnlinkVault(h)
      PROVE  Typed
  BY <1>1, <1>4 DEF UnlinkVault
<1>5. ASSUME NEW left \in Account, NEW right \in Account,
             NEW leftNfts \in OfferLists, NEW rightNfts \in OfferLists,
             NEW minutes \in OffsetMinutes, NEW fees \in FeeLists,
             CreateProposalWithFees(left, right, leftNfts, rightNfts,
                                    minutes, fees)
      PROVE  Typed
  <2> DEFINE new == { p.id : p \in swapProposals'[left] \ swapProposals[left] }
             ofLeft == [id \in ProposalId |->
                           IF id \in new THEN fees ELSE proposalFees[left][id]]
  <2>1. proposalFees' = [proposalFees EXCEPT ![left] = ofLeft]
    BY <1>5 DEF CreateProposalWithFees
  <2> HIDE DEF new
  <2>2. ofLeft \in [ProposalId -> FeeLists]
    BY <1>1
  <2> HIDE DEF ofLeft
  <2>3. proposalFees' \in [Account -> [ProposalId -> FeeLists]]
    BY <1>1, <2>1, <2>2
  <2> QED BY <1>1, <1>5, <2>3 DEF CreateProposalWithFees, linksAndBalance
<1>6. ASSUME NEW signer \in Account, NEW left \in Account,
             NEW p \in swapProposals[left],
             AcceptTradeWithFees(signer, left, p)
      PROVE  Typed
  <2> DEFINE fees == proposalFees[left][p.id]
  <2>1. /\ FeesCanBePaid(left, signer, fees)
        /\ balance' = SettledVaults(left, signer, fees)
        /\ UNCHANGED << feeProvider, feeReceiver, proposalFees >>
    BY <1>6 DEF AcceptTradeWithFees
  <2>2. fees \in Seq(Fee) /\ left \in Holder /\ signer \in Holder
    BY FeesOfProposal DEF Holder
  <2> HIDE DEF fees
  <2>3. balance' \in FullVaults
    BY <2>1, <2>2, SettledVaultsFull
  <2> QED BY <1>1, <2>1, <2>3
<1>7. ASSUME NEW left \in Account, NEW id \in ProposalId,
             DeleteProposalWithFees(left, id)
      PROVE  Typed
  <2>1. << >> \in FeeLists
    BY FeeAssumption
  <2>2. proposalFees' = [proposalFees EXCEPT ![left][id] = << >>]
    BY <1>7 DEF DeleteProposalWithFees
  <2>3. proposalFees' \in [Account -> [ProposalId -> FeeLists]]
    BY <1>1, <2>1, <2>2
  <2> QED BY <1>1, <1>7, <2>3 DEF DeleteProposalWithFees, linksAndBalance
<1> HIDE DEF Typed
<1>8. Typed
  BY <1>2, <1>3, <1>4, <1>5, <1>6, <1>7
     DEF FeesNext, TokensElsewhere, feesVars
<1> QED BY <1>1, <1>8 DEF Typed, FeesInv, FeesTypeOK, FullVaults

\* The types of the vaults and of the fees are kept.
THEOREM FeesTyped == FeesSpec => []FeesInv
<1>1. SwapInit /\ FeesInit => FeesInv
  <2> SUFFICES ASSUME SwapInit, FeesInit PROVE FeesInv
    OBVIOUS
  <2>1. SwapInv
    BY InitSwapInv
  <2>2. << >> \in FeeLists /\ StartBalance \in [Holder -> [Token -> Nat]]
    BY FeeAssumption
  <2> QED BY <2>1, <2>2 DEF FeesInv, FeesTypeOK, FeesInit, SwapInv, Holder
<1>2. SwapInv' /\ FeesInv /\ [FeesNext]_feesVars => FeesInv'
  BY StepKeepsFeesInv
<1> QED BY <1>1, <1>2, FeesInvariance, PTL DEF FeesSpec

\* Type correctness: no sequence of swaps overdraws a vault.
THEOREM FeesTypeCorrect == FeesSpec => []FeesTypeOK
<1>1. FeesInv => FeesTypeOK
  BY DEF FeesInv
<1> QED BY <1>1, FeesTyped, PTL

\* What verifyUserOffer checks of a user covers each running total.
LEMMA VerifiedIsCovered ==
    ASSUME NEW user, NEW fees \in Seq(Fee), FeesVerified(user, fees)
    PROVE  \A i \in DOMAIN fees :
              balance[user][fees[i].token] >= FeeTotal(fees, fees[i].token, i)
<1>1. CASE fees = << >>
  BY <1>1
<1>2. CASE fees # << >>
  BY <1>2 DEF FeesVerified
<1> QED BY <1>1, <1>2

\* What the left user pays takes nothing from anybody else.
LEMMA OthersKeepCover ==
    ASSUME NEW fees \in Seq(Fee), NEW v \in Vaults, NEW payer \in Holder,
           NEW h \in Holder, h # payer, NEW t \in Token
    PROVE  /\ AfterFees(v, payer, fees) \in Vaults
           /\ AfterFees(v, payer, fees)[h][t] >= v[h][t]
           /\ v[h][t] \in Int
           /\ AfterFees(v, payer, fees)[h][t] \in Int
<1> DEFINE n == Len(fees)
           got == Got(fees, h, t)[n]
<1>1. n \in 0 .. n
  BY FeeFields
<1>2. got \in Nat
  BY <1>1, TotalsGrow
<1>3. AfterFees(v, payer, fees) \in Vaults
  BY <1>1, PaymentsValue DEF AfterFees
<1>4. AfterFees(v, payer, fees)[h][t] = v[h][t] - 0 + got
  BY <1>1, PaymentsAddUp DEF AfterFees
<1>5. v[h][t] \in Int /\ AfterFees(v, payer, fees)[h][t] \in Int
  BY <1>3 DEF Vaults
<1> HIDE DEF got
<1> QED BY <1>2, <1>3, <1>4, <1>5

\* Between two users whose receivers stand the checks of the fees are enough.
LEMMA VerifiedCanBePaid ==
    ASSUME FeesInv, NEW left \in Holder, NEW right \in Holder, left # right,
           NEW fees \in Seq(Fee),
           FeesVerified(left, fees), FeesVerified(right, fees),
           \A i \in DOMAIN fees : fees[i].receiver \in feeReceiver
    PROVE  FeesCanBePaid(left, right, fees)
<1>1. balance \in FullVaults /\ balance \in Vaults
  BY FullAreVaults DEF FeesInv, FeesTypeOK, FullVaults
<1>2. Withdrawals(balance, left, fees)
  BY <1>1, VerifiedIsCovered, CoveredCanBePaid
<1> DEFINE half == AfterFees(balance, left, fees)
<1>3. half \in Vaults
  <2>1. Len(fees) \in 0 .. Len(fees)
    BY FeeFields
  <2> QED BY <1>1, <2>1, PaymentsValue DEF AfterFees
<1>4. ASSUME NEW i \in DOMAIN fees
      PROVE  half[right][fees[i].token] >= FeeTotal(fees, fees[i].token, i)
  <2> DEFINE t == fees[i].token
  <2>1. t \in Token /\ i \in 0 .. Len(fees)
    BY FeeFields
  <2>2. balance[right][t] >= FeeTotal(fees, t, i)
    BY VerifiedIsCovered
  <2> HIDE DEF t
  <2>3. FeeTotal(fees, t, i) \in Nat
    BY <2>1, TotalsGrow
  <2>4. /\ half[right][t] >= balance[right][t]
        /\ half[right][t] \in Int /\ balance[right][t] \in Int
    BY <1>1, <2>1, OthersKeepCover
  <2> HIDE DEF half
  <2>5. half[right][t] >= FeeTotal(fees, t, i)
    BY <2>2, <2>3, <2>4
  <2> QED BY <2>5 DEF t
<1>5. Withdrawals(half, right, fees)
  <2> HIDE DEF half
  <2> QED BY <1>3, <1>4, CoveredCanBePaid
<1> QED BY <1>2, <1>5 DEF FeesCanBePaid

\* When the checks of both users pass and a payment fails all the same, a
\* receiver's link is gone or a user trades with himself, which nothing checks
\* (EMSwap.cdc:575-596, 619): it is never for want of funds, whatever fees are
\* listed in whatever order.
THEOREM OnlyUncheckedFail == FeesSpec => []OnlyUncheckedPaymentsFail
<1>1. FeesInv => OnlyUncheckedPaymentsFail
  <2> SUFFICES ASSUME FeesInv, NEW a \in Account, NEW p \in swapProposals[a],
                      NEW fees, fees = proposalFees[p.left][p.id],
                      p.left # p.right,
                      FeesVerified(p.left, fees), FeesVerified(p.right, fees),
                      \A i \in DOMAIN fees : fees[i].receiver \in feeReceiver
               PROVE  FeesCanBePaid(p.left, p.right, fees)
    BY DEF OnlyUncheckedPaymentsFail, AllProposals
  <2> DEFINE left == p.left
             right == p.right
  <2>1. fees \in Seq(Fee) /\ left \in Holder /\ right \in Holder
    BY FeesOfProposal
  <2>2. left # right /\ FeesVerified(left, fees) /\ FeesVerified(right, fees)
    OBVIOUS
  <2> HIDE DEF left, right
  <2>3. FeesCanBePaid(left, right, fees)
    BY <2>1, <2>2, VerifiedCanBePaid
  <2> QED BY <2>3 DEF left, right
<1> QED BY <1>1, FeesTyped, PTL

\* The sides of a deal that a holder is on, counted.
LEMMA SidesCount ==
    ASSUME NEW p, NEW h
    PROVE  Cardinality({ side \in {"left", "right"} : p[side] = h }) =
              (IF p["left"] = h THEN 1 ELSE 0)
                 + (IF p["right"] = h THEN 1 ELSE 0)
<1> DEFINE sides == { side \in {"left", "right"} : p[side] = h }
<1>1. Cardinality({}) = 0 /\ IsFiniteSet({})
  BY FS_EmptySet
<1>2. \A x : Cardinality({x}) = 1 /\ IsFiniteSet({x})
  BY FS_Singleton
<1>3. Cardinality({"left", "right"}) = 2
  <2>1. "right" \notin {"left"}
    OBVIOUS
  <2>2. Cardinality({"left"} \cup {"right"}) = Cardinality({"left"}) + 1
    BY <1>2, <2>1, FS_AddElement
  <2>3. {"left"} \cup {"right"} = {"left", "right"}
    OBVIOUS
  <2> QED BY <1>2, <2>2, <2>3
<1>4. CASE p["left"] = h /\ p["right"] = h
  <2>1. sides = {"left", "right"}
    BY <1>4
  <2> QED BY <1>3, <1>4, <2>1
<1>5. CASE p["left"] = h /\ p["right"] # h
  <2>1. sides = {"left"}
    BY <1>5
  <2> QED BY <1>2, <1>5, <2>1
<1>6. CASE p["left"] # h /\ p["right"] = h
  <2>1. sides = {"right"}
    BY <1>6
  <2> QED BY <1>2, <1>6, <2>1
<1>7. CASE p["left"] # h /\ p["right"] # h
  <2>1. sides = {}
    BY <1>7
  <2> QED BY <1>1, <1>7, <2>1
<1> QED BY <1>4, <1>5, <1>6, <1>7

\* What a swap between left and right costs and brings a holder.
LEMMA SettledChange ==
    ASSUME NEW fees \in Seq(Fee), NEW v \in Vaults,
           NEW left \in Holder, NEW right \in Holder,
           NEW h \in Holder, NEW t \in Token
    PROVE  AfterFees(AfterFees(v, left, fees), right, fees)[h][t] - v[h][t] =
              Receipts(fees, h, t) -
                 FeeTotal(fees, t, Len(fees)) *
                    ((IF left = h THEN 1 ELSE 0) + (IF right = h THEN 1 ELSE 0))
<1> DEFINE n == Len(fees)
           T == FeeTotal(fees, t, n)
           G == Got(fees, h, t)[n]
           half == AfterFees(v, left, fees)
           full == AfterFees(half, right, fees)
<1>1. n \in 0 .. n
  BY FeeFields
<1>2. T \in Nat /\ G \in Nat
  BY <1>1, TotalsGrow
<1>3. Receipts(fees, h, t) = 2 * G
  BY DEF Receipts, Got
<1>4. half \in Vaults
  BY <1>1, PaymentsValue DEF AfterFees
<1>5. half[h][t] = v[h][t] - (IF h = left THEN T ELSE 0) + G
  BY <1>1, PaymentsAddUp DEF AfterFees
<1>6. v[h][t] \in Int /\ half[h][t] \in Int
  BY <1>4 DEF Vaults
<1> HIDE DEF half
<1>7. full[h][t] = half[h][t] - (IF h = right THEN T ELSE 0) + G
  BY <1>1, <1>4, PaymentsAddUp DEF AfterFees
<1> DEFINE x == v[h][t]
           y == half[h][t]
           z == full[h][t]
           l == IF left = h THEN 1 ELSE 0
           r == IF right = h THEN 1 ELSE 0
<1>8. x \in Int /\ y \in Int /\ l \in {0, 1} /\ r \in {0, 1}
  BY <1>6
<1>9. y = (x - l * T) + G
  <2>1. CASE h = left
    BY <1>2, <1>5, <1>6, <2>1
  <2>2. CASE h # left
    BY <1>2, <1>5, <1>6, <2>2
  <2> QED BY <2>1, <2>2
<1>10. z = (y - r * T) + G
  <2>1. CASE h = right
    BY <1>2, <1>6, <1>7, <2>1
  <2>2. CASE h # right
    BY <1>2, <1>6, <1>7, <2>2
  <2> QED BY <2>1, <2>2
<1> HIDE DEF T, G, x, y, z, l, r
<1>11. z - x = 2 * G - T * (l + r)
  <2>1. CASE l = 0 /\ r = 0
    BY <1>2, <1>8, <1>9, <1>10, <2>1
  <2>2. CASE l = 1 /\ r = 0
    BY <1>2, <1>8, <1>9, <1>10, <2>2
  <2>3. CASE l = 0 /\ r = 1
    BY <1>2, <1>8, <1>9, <1>10, <2>3
  <2>4. CASE l = 1 /\ r = 1
    BY <1>2, <1>8, <1>9, <1>10, <2>4
  <2> QED BY <1>8, <2>1, <2>2, <2>3, <2>4
<1> QED BY <1>3, <1>11 DEF T, G, x, z, l, r, half

\* A swap changes each vault by what the fees of its proposal say.
LEMMA AcceptIsExplained ==
    ASSUME FeesInv, NEW signer \in Account, NEW left \in Account,
           NEW p \in swapProposals[left], AcceptTradeWithFees(signer, left, p),
           NEW h \in Holder, NEW t \in Token
    PROVE  Explained(h, t)
<1> DEFINE fees == proposalFees[left][p.id]
<1>1. /\ AcceptTrade(signer, left, p)
      /\ balance' = SettledVaults(left, signer, fees)
  BY DEF AcceptTradeWithFees
<1>2. signer = p.right /\ p.left = left
  BY <1>1, AcceptedProposal, ProposalFields DEF FeesInv
<1>3. fees \in Seq(Fee) /\ left \in Holder /\ signer \in Holder
  BY FeesOfProposal DEF Holder
<1>4. balance \in Vaults
  BY FullAreVaults DEF FeesInv, FeesTypeOK, FullVaults
<1> DEFINE x == balance[h][t]
<1> HIDE DEF fees
<1>5. balance'[h][t] - balance[h][t] =
         Receipts(fees, h, t) -
            FeeTotal(fees, t, Len(fees)) *
               ((IF left = h THEN 1 ELSE 0) + (IF signer = h THEN 1 ELSE 0))
  BY <1>1, <1>3, <1>4, SettledChange DEF SettledVaults
<1>6. Cardinality({ side \in {"left", "right"} : p[side] = h }) =
         (IF left = h THEN 1 ELSE 0) + (IF signer = h THEN 1 ELSE 0)
  <2>1. p["left"] = left /\ p["right"] = signer
    BY <1>2
  <2> QED BY <2>1, SidesCount
<1>7. SettledWith(p, h, t)
  BY <1>1, <1>2, <1>5, <1>6 DEF SettledWith, ChangeOf, fees
<1> QED BY <1>7 DEF Explained, AllProposals

\* Where neither a vault changes nor a swap is made, nothing is to explain.
LEMMA NothingToExplain ==
    ASSUME FeesInv, NEW h \in Holder, NEW t \in Token,
           balance'[h][t] = balance[h][t], proposalExecuted' = {}
    PROVE  Explained(h, t)
<1>1. balance[h][t] \in Int
  BY DEF FeesInv, FeesTypeOK
<1> QED BY <1>1 DEF Explained, ChangeOf

\* Sending tokens changes the two vaults named.
LEMMA SendIsExplained ==
    ASSUME FeesInv, NEW from \in Holder, NEW to \in Holder, NEW s \in Token,
           SendTokens(from, to, s), NEW h \in Holder, NEW t \in Token
    PROVE  Explained(h, t)
<1>1. /\ from # to /\ proposalExecuted' = {}
      /\ balance' = Sent(balance, from, to, s)
  BY DEF SendTokens, Sent
<1>2. CASE t = s /\ h \in {from, to}
  BY <1>2 DEF Explained
<1>3. CASE ~ (t = s /\ h \in {from, to})
  <2>1. balance \in FullVaults
    BY DEF FeesInv, FeesTypeOK, FullVaults
  <2>2. \A g \in Holder, r \in Token :
           balance'[g][r] = IF r # s \/ g \notin {from, to} THEN balance[g][r]
                            ELSE IF g = from THEN balance[g][r] - 1
                            ELSE balance[g][r] + 1
    BY <1>1, <2>1, SentValue
  <2>3. balance'[h][t] = balance[h][t]
    BY <1>3, <2>2
  <2> QED BY <1>1, <2>3, NothingToExplain
<1> QED BY <1>2, <1>3

LEMMA StepIsExplained ==
    ASSUME FeesInv, FeesNext, NEW h \in Holder, NEW t \in Token
    PROVE  Explained(h, t)
<1>1. ASSUME balance' = balance, proposalExecuted' = {}
      PROVE  Explained(h, t)
  BY <1>1, NothingToExplain
<1>2. CASE OtherTransactions /\ UNCHANGED feeVars
  <2>1. proposalExecuted' = {}
    BY <1>2 DEF OtherTransactions, SwapSetupAccount, SetProposalCreation
  <2> QED BY <1>1, <1>2, <2>1 DEF feeVars
<1>3. ASSUME NEW a \in Holder, UnlinkVault(a)
      PROVE  Explained(h, t)
  BY <1>1, <1>3 DEF UnlinkVault
<1>4. ASSUME NEW left \in Account, NEW right \in Account,
             NEW leftNfts \in OfferLists, NEW rightNfts \in OfferLists,
             NEW minutes \in OffsetMinutes, NEW fees \in FeeLists,
             CreateProposalWithFees(left, right, leftNfts, rightNfts,
                                    minutes, fees)
      PROVE  Explained(h, t)
  BY <1>1, <1>4 DEF CreateProposalWithFees, CreateProposal, linksAndBalance
<1>5. ASSUME NEW left \in Account, NEW id \in ProposalId,
             DeleteProposalWithFees(left, id)
      PROVE  Explained(h, t)
  BY <1>1, <1>5 DEF DeleteProposalWithFees, DeleteProposal, linksAndBalance
<1> QED BY <1>2, <1>3, <1>4, <1>5, AcceptIsExplained, SendIsExplained
        DEF FeesNext, TokensElsewhere

\* Nobody pays who did not agree to, nobody is paid by half, and fees are
\* paid only together with the Moments.
THEOREM FeesPaidWithTheSwap == FeesSpec => FeesArePaidWithTheSwap
<1>1. FeesInv /\ [FeesNext]_feesVars =>
         [\A h \in Holder, t \in Token : Explained(h, t)]_feesVars
  BY StepIsExplained
<1>2. FeesSpec => [][\A h \in Holder, t \in Token : Explained(h, t)]_feesVars
  BY <1>1, FeesTyped, PTL DEF FeesSpec
<1> QED BY <1>2 DEF FeesArePaidWithTheSwap
=============================================================================
