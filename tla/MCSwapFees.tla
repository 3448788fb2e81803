------------------------------ MODULE MCSwapFees ------------------------------
\* SwapFees for TLC: the open market of MCEMSwap with fees and locks.
EXTENDS MCEMSwap, SwapFees

CONSTANTS platform, usd

OnePlatform == {platform}
OneToken    == {usd}

\* One fee for the platform twice over, and one for the user asked to trade.
SomeFees == {
    << >>,
    << [ receiver |-> platform, token |-> usd, amount |-> 1 ],
       [ receiver |-> platform, token |-> usd, amount |-> 1 ] >>,
    << [ receiver |-> bob, token |-> usd, amount |-> 1 ] >> }

\* Enough for both users to pay every fee once.
SomeBalances ==
    [h \in Holder |-> [t \in Token |-> IF h \in Account THEN 2 ELSE 0]]
-----------------------------------------------------------------------------
\* alice proposes; only her provider of tokens and the platform's receiver
\* are ever unlinked, and the platform's tokens come from fees; nobody mints,
\* pauses, destroys or unlinks a collection.
Settlement ==
    /\ FeesNext
    /\ UNCHANGED << totalSupply, collectionStored, publicLink, destroyed,
                    allowCreation >>
    /\ providerLink \subseteq providerLink'
    /\ bob \in feeProvider' /\ Account \subseteq feeReceiver'
    /\ proposalExecuted' = {} => balance'[platform] = balance[platform]
    /\ \A a \in Account \ {alice} : swapProposals'[a] = {}

SettlementInit == MarketOpen /\ FeesInit

SettlementSpec == SettlementInit /\ [][Settlement]_feesVars
=============================================================================
