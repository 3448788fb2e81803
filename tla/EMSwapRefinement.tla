--------------------------- MODULE EMSwapRefinement ---------------------------
(***************************************************************************)
(* EMSwap on the TopShot ledger implements AtomicSwap: a Moment's holder   *)
(* is the account whose collection has it, the deals on the table are the  *)
(* proposals of all SwapCollections.                                       *)
(***************************************************************************)
EXTENDS EMSwap

CONSTANT Nobody

ASSUME NobodyIsNoAccount == Nobody \notin Account

HolderOf(m) ==
    IF \E a \in Account : m \in owned[a]
    THEN CHOOSE a \in Account : m \in owned[a]
    ELSE Nobody

DealOf(p) ==
    [ id |-> p.id, left |-> p.left, give |-> Range(p.leftNfts),
      right |-> p.right, take |-> Range(p.rightNfts) ]

Market ==
    INSTANCE AtomicSwap WITH
        Party  <- Account,
        Moment <- MomentId,
        DealId <- ProposalId,
        issued <- 1 .. totalSupply,
        holder <- [m \in MomentId |-> HolderOf(m)],
        deals  <- { DealOf(p) : p \in AllProposals },
        settled <- { DealOf(p) : p \in proposalExecuted }

\* Every behaviour of the swap contract is one of the market: Moments change
\* hands only by gift or by a deal that is on the table and covered, and a
\* settled deal moves exactly what both users were to part with, at once.
ImplementsAtomicSwap == Market!MarketSpec

\* The same of every step alone, for behaviours that start in the middle.
StepsImplementMarket == [][Market!MarketNext]_(Market!marketVars)
=============================================================================
