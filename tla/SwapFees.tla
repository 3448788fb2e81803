------------------------------- MODULE SwapFees -------------------------------
(***************************************************************************)
(* Fees of the swap contract.  A proposal may name fees, each an amount of *)
(* a fungible token for a receiver, and both users pay all of them when it *)
(* is executed.  The app of TopShot Match proposes none and, as it accepts *)
(* without fee providers, only ever executes proposals without; any other  *)
(* client of the contract may use them.                                    *)
(*                                                                         *)
(* Each transaction of EMSwap is extended by what the fee loops of         *)
(* verifyUserOffer and executeUserOffer check and do.                      *)
(***************************************************************************)
EXTENDS EMSwapRefinement

CONSTANTS
    Platform,     \* holders of vaults that have no part in swaps
    Token,        \* types of fungible tokens
    FeeLists,     \* lists of fees that may be asked for
    StartBalance  \* bound: what each holder's vaults contain at first

Holder == Account \cup Platform

Fee == [ receiver : Holder, token : Token, amount : Nat \ {0} ]

ASSUME FeeAssumption ==
    /\ FeeLists \subseteq Seq(Fee) /\ << >> \in FeeLists
    /\ StartBalance \in [Holder -> [Token -> Nat]]

VARIABLES
    balance,       \* balance[h][t]: h's vault of token t
    feeProvider,   \* accounts whose private link to their vaults stands
    feeReceiver,   \* holders whose public link to their vaults stands
    proposalFees   \* the fees of each account's proposals, by id

feeVars  == << balance, feeProvider, feeReceiver, proposalFees >>
linksAndBalance == << balance, feeProvider, feeReceiver >>
feesVars == << vars, feeVars >>

FeesInit ==
    /\ balance = StartBalance
    /\ feeProvider = Account
    /\ feeReceiver = Holder
    /\ proposalFees = [a \in Account |-> [id \in ProposalId |-> << >>]]
-----------------------------------------------------------------------------
(***************************************************************************)
(* Contract functions.                                                     *)
(***************************************************************************)

\* The running total of the fees whose places are in S, after each fee.
FeeSum(fees, S) ==
    LET sum[i \in 0 .. Len(fees)] ==
           IF i = 0 THEN 0
           ELSE IF i \in S THEN sum[i - 1] + fees[i].amount ELSE sum[i - 1]
    IN  sum

\* The places of the fees of token t, and those that receiver h gets.
OfToken(fees, t)      == { i \in DOMAIN fees : fees[i].token = t }
ForHolder(fees, h, t) == { i \in OfToken(fees, t) : fees[i].receiver = h }

\* feeTotals: the fees of token t up to the i-th.
FeeTotal(fees, t, i) == FeeSum(fees, OfToken(fees, t))[i]

\* Mutant: each fee is compared with the balance, not their running total.
FeesVerifiedSingly(user, fees) ==
    fees # << >> =>
       /\ user \in feeProvider
       /\ \A i \in DOMAIN fees :
             balance[user][fees[i].token] >= fees[i].amount

\* verifyUserOffer: the user's provider can be borrowed and his vaults cover
\* the running total of each token.
FeesVerified(user, fees) ==
    fees # << >> =>
       /\ user \in feeProvider
       /\ \A i \in DOMAIN fees :
             balance[user][fees[i].token] >= FeeTotal(fees, fees[i].token, i)

\* The vaults once payer has paid a fee: withdraw, then deposit.
Paid(vaults, payer, fee) ==
    LET withdrawn == [vaults EXCEPT ![payer][fee.token] = @ - fee.amount]
    IN  [withdrawn EXCEPT ![fee.receiver][fee.token] = @ + fee.amount]

\* The vaults after each of the fees that payer pays one after the other.
Payments(vaults, payer, fees) ==
    LET after[i \in 0 .. Len(fees)] ==
           IF i = 0 THEN vaults ELSE Paid(after[i - 1], payer, fees[i])
    IN  after

AfterFees(vaults, payer, fees) == Payments(vaults, payer, fees)[Len(fees)]

\* No withdrawal by payer takes more than the vault has at that moment.
Withdrawals(vaults, payer, fees) ==
    \A i \in DOMAIN fees :
       fees[i].amount <=
          Payments(vaults, payer, fees)[i - 1][payer][fees[i].token]

\* Mutant: only the left user is charged.
SettledVaultsOnce(left, right, fees) == AfterFees(balance, left, fees)

\* The vaults after both executeUserOffer.
SettledVaults(left, right, fees) ==
    AfterFees(AfterFees(balance, left, fees), right, fees)

\* Mutant: a withdrawal does not ask for the balance.
FeesCanBePaidOnCredit(left, right, fees) ==
    \A i \in DOMAIN fees : fees[i].receiver \in feeReceiver

\* The fee loops of both executeUserOffer do not panic.
FeesCanBePaid(left, right, fees) ==
    /\ \A i \in DOMAIN fees : fees[i].receiver \in feeReceiver
    /\ Withdrawals(balance, left, fees)
    /\ Withdrawals(AfterFees(balance, left, fees), right, fees)
-----------------------------------------------------------------------------
(***************************************************************************)
(* Transactions.                                                           *)
(***************************************************************************)

\* Fee.init wants a working receiver; only the left user is asked for funds.
CreateProposalWithFees(left, right, leftNfts, rightNfts, minutes, fees) ==
    /\ \A i \in DOMAIN fees : fees[i].receiver \in feeReceiver
    /\ FeesVerified(left, fees)
    /\ CreateProposal(left, right, leftNfts, rightNfts, minutes)
    /\ LET new == { p.id : p \in swapProposals'[left] \ swapProposals[left] }
       IN  proposalFees' = [proposalFees EXCEPT ![left] =
              [id \in ProposalId |-> IF id \in new THEN fees ELSE @[id]]]
    /\ UNCHANGED linksAndBalance

\* SwapProposal.execute: every check comes before the first withdrawal, and
\* a panic of either user's payments undoes those of both.
AcceptTradeWithFees(signer, left, p) ==
    LET fees == proposalFees[left][p.id]
    IN  /\ FeesVerified(left, fees)
        /\ FeesVerified(signer, fees)
        /\ FeesCanBePaid(left, signer, fees)
        /\ AcceptTrade(signer, left, p)
        /\ balance' = SettledVaults(left, signer, fees)
        /\ UNCHANGED << feeProvider, feeReceiver, proposalFees >>

DeleteProposalWithFees(left, id) ==
    /\ DeleteProposal(left, id)
    /\ proposalFees' = [proposalFees EXCEPT ![left][id] = << >>]
    /\ UNCHANGED linksAndBalance

\* What the holder of a vault does with a wallet.
SendTokens(from, to, t) ==
    /\ from # to /\ balance[from][t] > 0
    /\ balance' = [balance EXCEPT ![from][t] = @ - 1, ![to][t] = @ + 1]
    /\ proposalExecuted' = {}
    /\ UNCHANGED << ledgerVars, swapVars, feeProvider, feeReceiver,
                    proposalFees >>

UnlinkVault(h) ==
    /\ \/ feeProvider' = feeProvider \ {h} /\ UNCHANGED feeReceiver
       \/ feeReceiver' = feeReceiver \ {h} /\ UNCHANGED feeProvider
    /\ proposalExecuted' = {}
    /\ UNCHANGED << ledgerVars, swapVars, balance, proposalFees >>

TokensElsewhere ==
    \/ \E from, to \in Holder, t \in Token : SendTokens(from, to, t)
    \/ \E h \in Holder : UnlinkVault(h)

FeesNext ==
    \/ OtherTransactions /\ UNCHANGED feeVars
    \/ TokensElsewhere
    \/ \E left, right \in Account, leftNfts, rightNfts \in OfferLists,
          minutes \in OffsetMinutes, fees \in FeeLists :
          CreateProposalWithFees(left, right, leftNfts, rightNfts, minutes,
                                 fees)
    \/ \E signer, left \in Account : \E p \in swapProposals[left] :
          AcceptTradeWithFees(signer, left, p)
    \/ \E left \in Account, id \in ProposalId :
          DeleteProposalWithFees(left, id)

FeesSpec == SwapInit /\ FeesInit /\ [][FeesNext]_feesVars
-----------------------------------------------------------------------------
(***************************************************************************)
(* Properties.                                                             *)
(***************************************************************************)

\* The types of all variables: no vault is ever overdrawn.
FeesTypeOK ==
    /\ SwapTypeOK
    /\ balance \in [Holder -> [Token -> Nat]]
    /\ feeProvider \subseteq Account
    /\ feeReceiver \subseteq Holder
    /\ proposalFees \in [Account -> [ProposalId -> FeeLists]]

\* verifyUserOffer leaves two things unchecked, and a payment can panic after
\* both checks have passed for these alone: a receiver's link that stood when
\* the proposal was created is gone (EMSwap.cdc:619), or a user trades with
\* himself and pays twice out of the vault that was checked twice.  Funds do
\* not run out otherwise, in whatever order the fees are listed, whoever
\* receives them, and although the second user pays after the first
\* (EMSwap.cdc:575-596 against 616-629).
OnlyUncheckedPaymentsFail ==
    \A p \in AllProposals :
       LET fees == proposalFees[p.left][p.id]
       IN  /\ FeesVerified(p.left, fees) /\ FeesVerified(p.right, fees)
           /\ ~ FeesCanBePaid(p.left, p.right, fees)
           => \/ \E i \in DOMAIN fees : fees[i].receiver \notin feeReceiver
              \/ p.left = p.right

\* What holder h receives of token t if both users pay the fees.
Receipts(fees, h, t) ==
    2 * FeeSum(fees, ForHolder(fees, h, t))[Len(fees)]

\* The change of h's vault of token t, and what it is when p is executed.
ChangeOf(h, t) == balance'[h][t] - balance[h][t]

SettledWith(p, h, t) ==
    /\ AcceptTrade(p.right, p.left, p)
    /\ LET fees == proposalFees[p.left][p.id]
       IN  ChangeOf(h, t) = Receipts(fees, h, t) -
              FeeTotal(fees, t, Len(fees)) *
                 Cardinality({ side \in {"left", "right"} : p[side] = h })

Explained(h, t) ==
    ChangeOf(h, t) # 0 \/ proposalExecuted' # {} =>
       \/ \E a \in Holder : SendTokens(h, a, t) \/ SendTokens(a, h, t)
       \/ \E p \in AllProposals : SettledWith(p, h, t)

\* Nobody pays who did not agree to, and nobody is paid by half: a swap costs
\* each of the two users every fee once, brings each receiver every fee
\* twice, and changes no other vault; and fees are paid only together with
\* the Moments (EMSwap.cdc:327-360, 616-646).
FeesArePaidWithTheSwap ==
    [][\A h \in Holder, t \in Token : Explained(h, t)]_feesVars
=============================================================================
