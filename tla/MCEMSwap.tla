------------------------------- MODULE MCEMSwap -------------------------------
\* EMSwap and its refinement for TLC: accounts, proposal ids and the absent
\* holder are model values.
EXTENDS EMSwapRefinement, TLC

CONSTANTS alice, bob, p1

TwoAccounts == {alice, bob}
OneId       == {p1}

\* Single Moments, as createProposal.cdc offers them.
Singles == { <<1>>, <<2>> }

AccountSymmetry == Permutations(TwoAccounts)
-----------------------------------------------------------------------------
\* The market some time after everybody has joined it through a wallet and
\* the app (WalletSetup, SwapSetupAccount), alice holding the odd and bob the
\* even Moments.
MarketOpen ==
    /\ totalSupply = MaxSupply
    /\ owned = [a \in Account |-> CASE a = alice -> { m \in MomentId : m % 2 = 1 }
                                    [] a = bob   -> { m \in MomentId : m % 2 = 0 }
                                    [] OTHER     -> {}]
    /\ collectionStored = Account
    /\ publicLink = [a \in Account |-> WalletLink]
    /\ providerLink = {}
    /\ lockedNFTs = [m \in MomentId |-> NotLocked]
    /\ unlockableNFTs = {}
    /\ timestamp = 0
    /\ destroyed = {}
    /\ swapStored = Account
    /\ swapPublicLink = [a \in Account |-> SwapInterface]
    /\ swapManagerLink = Account
    /\ swapProposals = [a \in Account |-> {}]
    /\ allowCreation = TRUE
    /\ proposalExecuted = {}

\* Everything may happen in the open market.
OpenSpec == MarketOpen /\ [][SwapNext]_vars
=============================================================================
