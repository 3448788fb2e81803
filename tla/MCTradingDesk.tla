----------------------------- MODULE MCTradingDesk -----------------------------
\* TradingDesk for TLC: the market of MCEMSwap is open, and the app is used.
EXTENDS MCEMSwap, TradingDesk

CONSTANT p2

TwoIds     == {p1, p2}
IdSymmetry == Permutations(TwoIds)

\* A wallet gives a Moment away.
Gift ==
    /\ \E a, b \in Account, m \in MomentId : a # b /\ Transfer(a, b, m)
    /\ proposalExecuted' = {}
    /\ UNCHANGED << swapVars, matchVars, deviceVars, sent, usedIds,
                    declined >>

\* Everybody has put the Moments he holds on his trading block.
OpenDesk ==
    /\ MarketOpen
    /\ tradingBlock = [a \in Account |-> SetToSeq(owned[a])]
    /\ likedMomentsRelationship = [a \in Account |-> {}]
    /\ DeviceInit

\* alice offers, and bob answers.
AliceAndBob ==
    \/ Offering(alice)
    \/ Answering(bob)
    \/ \E t \in sent : OnChain(t)
    \/ ResetMatch
    \/ Gift

OpenDeskSpec == OpenDesk /\ [][AliceAndBob]_deskVars
=============================================================================
