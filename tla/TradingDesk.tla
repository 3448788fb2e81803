----------------------------- MODULE TradingDesk -----------------------------
(***************************************************************************)
(* Trading with the app: trading blocks, proposals and pending trades, on  *)
(* the swap contract and the TopShotMatch contract together.               *)
(*                                                                         *)
(* Each account is a user of the app, logged in on a device of its own.    *)
(* What a device shows - the user's Moments with the marks of those on the *)
(* trading block, the trades that wait for the user - was true when the    *)
(* chain answered a query, and may be outdated by any number of steps when *)
(* it is used, so that an answer and its display are one step.  A          *)
(* transaction takes its arguments from what is shown, and is executed, or *)
(* fails, later.  The reloads with which the handlers end, like those of   *)
(* login and of the timer, may happen at any time.                         *)
(***************************************************************************)
EXTENDS EMSwap, SequencesExt

CONSTANTS
    Unanswered,   \* no answer of the chain has arrived
    MaxSent       \* bound: transactions under way

\* The app offers one Moment, asks for one, and names no expiration.
ASSUME DeskAssumption ==
    /\ MaxSent \in Nat
    /\ SwapProposalDefaultExpirationMinutes \in OffsetMinutes
    /\ \A held \in SUBSET MomentId : held # Unanswered
    /\ \A m \in MomentId : << m >> \in OfferLists

VARIABLES
    tradingBlock, likedMomentsRelationship,  \* of TopShotMatch
    userMoments,    \* the Moments a device shows, and which are marked
    momentsAnswer,  \* getUserNfts: the first script's answer
    pendingTrades,  \* the trades a device shows
    sent,           \* the transactions under way
    usedIds,        \* history: the proposal ids drawn so far
    declined        \* history: the proposals declined so far

matchVars  == << tradingBlock, likedMomentsRelationship >>
deviceVars == << userMoments, momentsAnswer, pendingTrades >>
deskVars   == << vars, matchVars, deviceVars, sent, usedIds, declined >>

Match == INSTANCE TopShotMatch WITH User <- Account, Moment <- MomentId

Shown == [ held : SUBSET MomentId, onTradingBlock : SUBSET MomentId ]

Trade == [ id : ProposalId, left : Account, leftMoment : MomentId,
           right : Account, rightMoment : MomentId ]

\* What the app can send.  userMoment and otherMoment are the Moments of a
\* proposal to other.
Transaction ==
    [ kind : {"updateTradingBlock"}, user : Account,
      block : SUBSET MomentId ]
    \cup [ kind : {"propose"}, user : Account, userMoment : MomentId,
           other : Account, otherMoment : MomentId ]
    \cup [ kind : {"accept", "decline"}, user : Account, trade : Trade ]

DeviceInit ==
    /\ userMoments = [u \in Account |-> [ held |-> {},
                                          onTradingBlock |-> {} ]]
    /\ momentsAnswer = [u \in Account |-> Unanswered]
    /\ pendingTrades = [u \in Account |-> {}]
    /\ sent = {}
    /\ usedIds = {}
    /\ declined = {}

DeskInit == SwapInit /\ Match!ContractInit /\ DeviceInit
-----------------------------------------------------------------------------
(***************************************************************************)
(* What the device shows.                                                  *)
(***************************************************************************)

\* The first script of getUserNfts.
MomentsAnswered(u) ==
    /\ momentsAnswer[u] = Unanswered
    /\ PubliclyBorrowable(u, AppLink)
    /\ momentsAnswer' = [momentsAnswer EXCEPT ![u] = owned[u]]
    /\ UNCHANGED << vars, matchVars, userMoments, pendingTrades, sent,
                    usedIds, declined >>

\* Mutant: marks are kept for Moments that are no longer there.
ShownAllMarks(held, block) == [ held |-> held, onTradingBlock |-> block ]

\* A Moment is marked if the block names it.
ShownAs(held, block) ==
    [ held |-> held, onTradingBlock |-> held \cap block ]

\* getUserTradingBlock, which getUserNfts awaits next: its answer marks the
\* Moments of the first answer.
UserMomentsLoaded(u) ==
    /\ momentsAnswer[u] # Unanswered
    /\ userMoments' = [userMoments EXCEPT
          ![u] = ShownAs(momentsAnswer[u], Range(tradingBlock[u]))]
    /\ momentsAnswer' = [momentsAnswer EXCEPT ![u] = Unanswered]
    /\ UNCHANGED << vars, matchVars, pendingTrades, sent, usedIds,
                    declined >>

\* A proposal of one Moment for one, as the app shows it.
TradeOf(p) ==
    [ id |-> p.id, left |-> p.left, leftMoment |-> Head(p.leftNfts),
      right |-> p.right, rightMoment |-> Head(p.rightNfts) ]

\* The proposals to u that queryProposals.cdc finds with otherUsers and does
\* not drop because a Moment is no longer where it was offered.
ProposalsTo(u, otherUsers) ==
    { p \in UNION { swapProposals[o] : o \in otherUsers } :
         /\ p.right = u
         /\ Head(p.leftNfts) \in owned[p.left]
         /\ Head(p.rightNfts) \in owned[u] }

\* getPendingTrades, which asks the owners of the Moments of a feed.  Its
\* script panics when one of them cannot be asked.
PendingTradesLoaded(u, otherUsers) ==
    /\ \A o \in otherUsers :
          o \in swapStored /\ SwapInterface \subseteq swapPublicLink[o]
    /\ \A p \in UNION { swapProposals[o] : o \in otherUsers } :
          p.right = u => /\ PubliclyBorrowable(p.left, AppLink)
                         /\ PubliclyBorrowable(u, AppLink)
    /\ pendingTrades' = [pendingTrades EXCEPT
          ![u] = { TradeOf(p) : p \in ProposalsTo(u, otherUsers) }]
    /\ UNCHANGED << vars, matchVars, userMoments, momentsAnswer, sent,
                    usedIds, declined >>
-----------------------------------------------------------------------------
(***************************************************************************)
(* What the device sends.                                                  *)
(***************************************************************************)

Send(t) ==
    /\ Cardinality(sent) < MaxSent
    /\ sent' = sent \cup {t}
    /\ UNCHANGED << vars, matchVars, deviceVars, usedIds, declined >>

\* updateTradingBlock returns early when the selection is what is marked.
UpdateTradingBlock(u, selection) ==
    /\ selection \subseteq userMoments[u].held
    /\ selection # userMoments[u].onTradingBlock
    /\ Send([ kind |-> "updateTradingBlock", user |-> u,
              block |-> selection ])

\* A liked card names a Moment of another user, right or outdated.
SubmitTradeProposal(u, userMoment, other, otherMoment) ==
    /\ userMoment \in userMoments[u].held
    /\ other # u
    /\ Send([ kind |-> "propose", user |-> u, userMoment |-> userMoment,
              other |-> other, otherMoment |-> otherMoment ])

SubmitTradeAcceptance(u, trade) ==
    /\ trade \in pendingTrades[u]
    /\ Send([ kind |-> "accept", user |-> u, trade |-> trade ])

DeclineTrade(u, trade) ==
    /\ trade \in pendingTrades[u]
    /\ Send([ kind |-> "decline", user |-> u, trade |-> trade ])
-----------------------------------------------------------------------------
(***************************************************************************)
(* What the chain executes.                                                *)
(***************************************************************************)

\* The order of a block is the order of a Swift dictionary: any.
BlockUpdated(t) ==
    /\ t.kind = "updateTradingBlock"
    /\ Match!UpdateUserTradingBlock(t.user, SetToSeq(t.block))
    /\ sent' = sent \ {t}
    /\ UNCHANGED << vars, deviceVars, usedIds, declined >>

\* Mutant: a random id may be one that was in use before.
TradeProposedAnyId(t) ==
    /\ t.kind = "propose"
    /\ CreateProposal(t.user, t.other, << t.userMoment >>,
                      << t.otherMoment >>,
                      SwapProposalDefaultExpirationMinutes)
    /\ sent' = sent \ {t}
    /\ UNCHANGED << matchVars, deviceVars, usedIds, declined >>

\* The default expiration applies.  Ids are random 64-bit numbers: none
\* comes twice.
TradeProposed(t) ==
    /\ t.kind = "propose"
    /\ CreateProposal(t.user, t.other, << t.userMoment >>,
                      << t.otherMoment >>,
                      SwapProposalDefaultExpirationMinutes)
    /\ LET new == { p.id : p \in swapProposals'[t.user]
                                    \ swapProposals[t.user] }
       IN  /\ new \cap usedIds = {}
           /\ usedIds' = usedIds \cup new
    /\ sent' = sent \ {t}
    /\ UNCHANGED << matchVars, deviceVars, declined >>

\* Mutant: the users are mixed up in the two removals.
WithoutTradedSwapped(t) ==
    Match!WithoutMoment(
        Match!WithoutMoment(tradingBlock, t.trade.left, t.trade.rightMoment),
        t.user, t.trade.leftMoment)

\* The trading blocks once both traded Moments are removed.
WithoutTraded(t) ==
    Match!WithoutMoment(
        Match!WithoutMoment(tradingBlock, t.trade.left, t.trade.leftMoment),
        t.user, t.trade.rightMoment)

\* The swap and both removals, in one transaction.
TradeAccepted(t) ==
    /\ t.kind = "accept"
    /\ \E p \in swapProposals[t.trade.left] :
          /\ p.id = t.trade.id
          /\ AcceptTrade(t.user, t.trade.left, p)
    /\ tradingBlock' = WithoutTraded(t)
    /\ sent' = sent \ {t}
    /\ UNCHANGED << likedMomentsRelationship, deviceVars, usedIds,
                    declined >>

TradeDeclined(t) ==
    /\ t.kind = "decline"
    /\ DeleteProposal(t.trade.left, t.trade.id)
    /\ declined' = declined \cup {t.trade}
    /\ sent' = sent \ {t}
    /\ UNCHANGED << matchVars, deviceVars, usedIds >>

\* The transaction is refused by the wallet, expires, or panics; or it
\* deletes a proposal that is gone already.
NothingExecuted(t) ==
    /\ sent' = sent \ {t}
    /\ UNCHANGED << vars, matchVars, deviceVars, usedIds, declined >>

\* reset.cdc, which anybody may send.
ResetMatch ==
    /\ Match!Reset
    /\ UNCHANGED << vars, deviceVars, sent, usedIds, declined >>
-----------------------------------------------------------------------------
\* Whoever offers Moments.
Offering(u) ==
    \/ MomentsAnswered(u)
    \/ UserMomentsLoaded(u)
    \/ \E selection \in SUBSET MomentId : UpdateTradingBlock(u, selection)
    \/ \E userMoment, otherMoment \in MomentId, other \in Account :
          SubmitTradeProposal(u, userMoment, other, otherMoment)

\* Whoever is offered one.
Answering(u) ==
    \/ \E otherUsers \in SUBSET (Account \ {u}) :
          PendingTradesLoaded(u, otherUsers)
    \/ \E trade \in pendingTrades[u] : SubmitTradeAcceptance(u, trade)
    \/ \E trade \in pendingTrades[u] : DeclineTrade(u, trade)

OnChain(t) ==
    \/ BlockUpdated(t)
    \/ TradeProposed(t)
    \/ TradeAccepted(t)
    \/ TradeDeclined(t)
    \/ NothingExecuted(t)

DeskNext ==
    \/ \E u \in Account : Offering(u) \/ Answering(u)
    \/ \E t \in sent : OnChain(t)
    \/ ResetMatch

\* What happens on the chain without the app.
Elsewhere ==
    /\ OtherTransactions
    /\ UNCHANGED << matchVars, deviceVars, sent, usedIds, declined >>

DeskSpec == DeskInit /\ [][DeskNext \/ Elsewhere]_deskVars
-----------------------------------------------------------------------------
(***************************************************************************)
(* Properties.                                                             *)
(***************************************************************************)

\* The types of all variables; only Moments that are shown are marked, and
\* a user is shown trades for himself.
DeskTypeOK ==
    /\ SwapTypeOK
    /\ tradingBlock \in [Account -> Seq(MomentId)]
    /\ likedMomentsRelationship \in [Account -> SUBSET Account]
    /\ userMoments \in [Account -> Shown]
    /\ \A u \in Account :
          /\ userMoments[u].onTradingBlock \subseteq userMoments[u].held
          /\ \/ momentsAnswer[u] = Unanswered
             \/ momentsAnswer[u] \subseteq MomentId
          /\ pendingTrades[u] \subseteq { t \in Trade : t.right = u }
    /\ sent \subseteq Transaction
    /\ usedIds \subseteq ProposalId
    /\ declined \subseteq Trade

\* A user who accepts a trade gets and gives the two Moments that were shown
\* for it, and nothing else moves, however old the list of pending trades is
\* and whatever became of the proposal meanwhile: the transaction only names
\* the proposal (BlockchainViewModel.swift:615-714).
AcceptedTradeIsTheOneShown ==
    [][\A t \in sent :
          TradeAccepted(t) =>
             LET left == t.trade.left
                 traded == {t.trade.leftMoment, t.trade.rightMoment}
             IN  /\ t.trade.leftMoment \in owned[left] \cap owned'[t.user]
                 /\ t.trade.rightMoment \in owned[t.user] \cap owned'[left]
                 /\ \A a \in Account :
                       owned'[a] \ traded = owned[a] \ traded]_deskVars

\* When a trade is accepted, nobody goes on offering a Moment that has just
\* left his collection, whatever both blocks list by then: the Moments to be
\* struck off are named by the device, those that move by the proposal
\* (BlockchainViewModel.swift:690-714).
TradedMomentsLeaveTheBlocks ==
    [][\A t \in sent :
          TradeAccepted(t) =>
             \A a \in Account :
                Range(tradingBlock'[a]) \cap (owned[a] \ owned'[a]) = {}
       ]_deskVars

\* A trade that was declined is never carried out, although the device may go
\* on showing it, and its user accept it (BlockchainViewModel.swift:930-973).
DeclinedTradesStayDeclined ==
    [][\A t \in sent : TradeAccepted(t) => t.trade \notin declined]_deskVars
=============================================================================
