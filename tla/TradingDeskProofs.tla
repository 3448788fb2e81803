--------------------------- MODULE TradingDeskProofs ---------------------------
(***************************************************************************)
(* Proofs about trading with the app, for any accounts, devices, Moments,  *)
(* ids and number of transactions under way: a trade that is accepted is   *)
(* the one that was shown, nobody goes on offering what he gave away, and  *)
(* what was declined is not carried out.                                   *)
(*                                                                         *)
(* The three properties are about steps whose transaction names a proposal *)
(* by its id only.  DeskInv says what a device, a transaction under way    *)
(* and the history know of the proposal with such an id, if there still is *)
(* one, and that trading blocks list nothing twice.                        *)
(***************************************************************************)
EXTENDS TradingDesk, EMSwapProofs, SequenceLemmas

\* The trades that somebody knows of.
ShownTrades == UNION { pendingTrades[u] : u \in Account }
Answers     == { t \in sent : t.kind \in {"accept", "decline"} }
SentTrades  == { t.trade : t \in Answers }
KnownTrades == ShownTrades \cup SentTrades \cup declined

\* A proposal of the app: one Moment for one.
Single(p) == Len(p.leftNfts) = 1 /\ Len(p.rightNfts) = 1

\* The ids of all proposals are drawn ones.
ProposalsAreDrawn ==
    \A a \in Account : \A p \in swapProposals[a] : Single(p) /\ p.id \in usedIds

\* A proposal with the id of trade t is the one t was read from.
Names(t) ==
    /\ t.id \in usedIds
    /\ \A p \in swapProposals[t.left] : p.id = t.id => TradeOf(p) = t

TradesAreNamed == \A t \in KnownTrades : Names(t)

DeclinedAreGone ==
    \A t \in declined : \A p \in swapProposals[t.left] : p.id # t.id

BlocksListOnce == \A a \in Account : IsInjective(tradingBlock[a])

DeskInv ==
    /\ SwapInv
    /\ DeskTypeOK
    /\ ProposalsAreDrawn
    /\ TradesAreNamed
    /\ DeclinedAreGone
    /\ BlocksListOnce
-----------------------------------------------------------------------------
(***************************************************************************)
(* What the steps leave alone.                                             *)
(***************************************************************************)

LEMMA QuietKeepsSwapInv == SwapInv /\ UNCHANGED vars => SwapInv'
BY StepKeepsSwapInv

\* What is known of proposals stays true when proposals only go.
LEMMA KnowledgeStays ==
    ASSUME ProposalsAreDrawn, TradesAreNamed, DeclinedAreGone,
           \A a \in Account : swapProposals'[a] \subseteq swapProposals[a],
           usedIds' = usedIds, declined' = declined, declined \subseteq Trade,
           KnownTrades' \subseteq KnownTrades, KnownTrades \subseteq Trade
    PROVE  ProposalsAreDrawn' /\ TradesAreNamed' /\ DeclinedAreGone'
<1>1. ProposalsAreDrawn'
  BY DEF ProposalsAreDrawn, Single
<1>2. TradesAreNamed'
  <2> SUFFICES ASSUME NEW t \in KnownTrades' PROVE Names(t)'
    BY DEF TradesAreNamed
  <2>1. t.left \in Account /\ Names(t)
    BY DEF TradesAreNamed, Trade
  <2> QED BY <2>1 DEF Names, TradeOf
<1>3. DeclinedAreGone'
  BY DEF DeclinedAreGone, Trade
<1> QED BY <1>1, <1>2, <1>3

\* Known trades are trades.
LEMMA KnownAreTrades ==
    ASSUME DeskTypeOK
    PROVE  KnownTrades \subseteq Trade
<1>1. ASSUME NEW t \in sent, t.kind \in {"accept", "decline"}
      PROVE  t.trade \in Trade
  BY <1>1 DEF DeskTypeOK, Transaction
<1>2. ASSUME NEW u \in Account, NEW t \in pendingTrades[u]
      PROVE  t \in Trade
  BY DEF DeskTypeOK
<1>3. declined \subseteq Trade
  BY DEF DeskTypeOK
<1>4. ShownTrades \subseteq Trade
  BY <1>2 DEF ShownTrades
<1>5. SentTrades \subseteq Trade
  BY <1>1 DEF SentTrades, Answers
<1> QED BY <1>3, <1>4, <1>5 DEF KnownTrades

\* Nothing becomes known when nothing is shown, sent or declined.
LEMMA NoNewTrades ==
    ASSUME pendingTrades' = pendingTrades, declined' = declined,
           \A t \in sent' : t.kind \in {"accept", "decline"} =>
              t \in sent \/ \E u \in Account : t.trade \in pendingTrades[u]
    PROVE  KnownTrades' \subseteq KnownTrades
<1>1. ASSUME NEW t \in sent', t.kind \in {"accept", "decline"}
      PROVE  t.trade \in KnownTrades
  <2>1. CASE t \in sent
    <3>1. t.trade \in SentTrades
      BY <1>1, <2>1 DEF SentTrades, Answers
    <3> QED BY <3>1 DEF KnownTrades
  <2>2. CASE \E u \in Account : t.trade \in pendingTrades[u]
    <3>1. t.trade \in ShownTrades
      BY <2>2 DEF ShownTrades
    <3> QED BY <3>1 DEF KnownTrades
  <2> QED BY <1>1, <2>1, <2>2
<1>2. SentTrades' \subseteq KnownTrades
  BY <1>1 DEF SentTrades, Answers
<1>3. ShownTrades' = ShownTrades
  BY DEF ShownTrades
<1> QED BY <1>2, <1>3 DEF KnownTrades

\* A step that neither shows, declines nor stores anything new.
LEMMA StepKeeps ==
    ASSUME DeskInv, SwapInv', DeskTypeOK',
           \A a \in Account : swapProposals'[a] \subseteq swapProposals[a],
           UNCHANGED << usedIds, declined, pendingTrades >>,
           \A t \in sent' : t.kind \in {"accept", "decline"} =>
              t \in sent \/ \E u \in Account : t.trade \in pendingTrades[u],
           tradingBlock' = tradingBlock \/ BlocksListOnce'
    PROVE  DeskInv'
<1>1. KnownTrades' \subseteq KnownTrades
  BY NoNewTrades
<1>2. ProposalsAreDrawn' /\ TradesAreNamed' /\ DeclinedAreGone'
  BY <1>1, KnownAreTrades, KnowledgeStays DEF DeskInv, DeskTypeOK
<1>3. BlocksListOnce'
  BY DEF DeskInv, BlocksListOnce
<1> QED BY <1>2, <1>3 DEF DeskInv

\* A step that touches none but the fields of the device and the blocks.
LEMMA QuietStepKeeps ==
    ASSUME DeskInv, DeskTypeOK', UNCHANGED << vars, usedIds, declined >>,
           pendingTrades' = pendingTrades,
           \A t \in sent' : t.kind \in {"accept", "decline"} =>
              t \in sent \/ \E u \in Account : t.trade \in pendingTrades[u],
           tradingBlock' = tradingBlock \/ BlocksListOnce'
    PROVE  DeskInv'
<1>1. SwapInv'
  BY QuietKeepsSwapInv DEF DeskInv
<1>2. swapProposals' = swapProposals
  BY DEF vars, swapVars
<1> QED BY <1>1, <1>2, StepKeeps
-----------------------------------------------------------------------------
(***************************************************************************)
(* Steps of the devices.                                                   *)
(***************************************************************************)

LEMMA MomentsAnsweredKeeps ==
    ASSUME DeskInv, NEW u \in Account, MomentsAnswered(u)
    PROVE  DeskInv'
<1>1. SwapTypeOK'
  BY QuietKeepsSwapInv DEF DeskInv, MomentsAnswered, SwapInv
<1>2. owned[u] \subseteq MomentId
  BY DEF DeskInv, SwapInv, LedgerInv, LedgerTypeOK
<1>3. DeskTypeOK'
  BY <1>1, <1>2 DEF DeskInv, DeskTypeOK, MomentsAnswered, matchVars
<1> QED BY <1>3, QuietStepKeeps DEF MomentsAnswered, matchVars

LEMMA UserMomentsLoadedKeeps ==
    ASSUME DeskInv, NEW u \in Account, UserMomentsLoaded(u)
    PROVE  DeskInv'
<1> DEFINE shown == ShownAs(momentsAnswer[u], Range(tradingBlock[u]))
<1>1. SwapTypeOK'
  BY QuietKeepsSwapInv DEF DeskInv, UserMomentsLoaded, SwapInv
<1>2. shown \in Shown /\ shown.onTradingBlock \subseteq shown.held
  BY DEF DeskInv, DeskTypeOK, UserMomentsLoaded, Shown, ShownAs
<1>3. /\ userMoments' = [userMoments EXCEPT ![u] = shown]
      /\ momentsAnswer' = [momentsAnswer EXCEPT ![u] = Unanswered]
  BY DEF UserMomentsLoaded
<1> HIDE DEF shown
<1>4. DeskTypeOK'
  BY <1>1, <1>2, <1>3 DEF DeskInv, DeskTypeOK, UserMomentsLoaded, matchVars
<1> QED BY <1>4, QuietStepKeeps DEF UserMomentsLoaded, matchVars

\* The trades that are shown have just been read from their proposals.
LEMMA PendingTradesLoadedKeeps ==
    ASSUME DeskInv, NEW u \in Account,
           NEW otherUsers \in SUBSET (Account \ {u}),
           PendingTradesLoaded(u, otherUsers)
    PROVE  DeskInv'
<1> DEFINE shown == { TradeOf(p) : p \in ProposalsTo(u, otherUsers) }
<1>1. /\ SwapInv'
      /\ UNCHANGED << swapProposals, tradingBlock, sent, usedIds, declined >>
      /\ pendingTrades' = [pendingTrades EXCEPT ![u] = shown]
  BY QuietKeepsSwapInv
     DEF DeskInv, PendingTradesLoaded, matchVars, vars, swapVars
<1>2. ASSUME NEW p \in ProposalsTo(u, otherUsers)
      PROVE  /\ TradeOf(p) \in Trade /\ TradeOf(p).right = u
             /\ Names(TradeOf(p))
  <2>1. PICK o \in Account : p \in swapProposals[o]
    BY DEF ProposalsTo
  <2>2. /\ p.left = o /\ p.right = u /\ p.id \in ProposalId
        /\ \A q \in swapProposals[o] : q.id = p.id => q = p
    BY <2>1 DEF ProposalsTo, DeskInv, SwapInv, SwapTypeOK, Proposal
  <2>3. Head(p.leftNfts) \in MomentId /\ Head(p.rightNfts) \in MomentId
    <3>1. \A a \in Account : owned[a] \subseteq MomentId
      BY DEF DeskInv, SwapInv, LedgerInv, LedgerTypeOK
    <3> QED BY <2>2, <3>1 DEF ProposalsTo
  <2>4. TradeOf(p) \in Trade /\ TradeOf(p).right = u
    BY <2>2, <2>3 DEF TradeOf, Trade
  <2>5. TradeOf(p).id = p.id /\ TradeOf(p).left = p.left
    BY DEF TradeOf
  <2>6. p.id \in usedIds
    BY <2>1 DEF DeskInv, ProposalsAreDrawn
  <2>7. Names(TradeOf(p))
    BY <2>2, <2>5, <2>6 DEF Names
  <2> QED BY <2>4, <2>7
<1>3. /\ shown \subseteq { t \in Trade : t.right = u }
      /\ \A t \in shown : Names(t)
  BY <1>2
<1> HIDE DEF shown
<1>4. DeskTypeOK'
  BY <1>1, <1>3 DEF DeskInv, DeskTypeOK, PendingTradesLoaded, SwapInv, matchVars
<1>5. KnownTrades' \subseteq KnownTrades \cup shown
  <2>1. ShownTrades' \subseteq ShownTrades \cup shown
    BY <1>1 DEF ShownTrades, DeskInv, DeskTypeOK
  <2>2. SentTrades' = SentTrades /\ declined' = declined
    BY <1>1 DEF SentTrades, Answers
  <2> QED BY <2>1, <2>2 DEF KnownTrades
<1>6. TradesAreNamed'
  BY <1>1, <1>3, <1>5 DEF DeskInv, TradesAreNamed, Names
<1>7. ProposalsAreDrawn' /\ DeclinedAreGone' /\ BlocksListOnce'
  BY <1>1 DEF DeskInv, ProposalsAreDrawn, DeclinedAreGone, BlocksListOnce
<1> QED BY <1>1, <1>4, <1>6, <1>7 DEF DeskInv

\* A transaction is sent; what it accepts or declines is on display.
LEMMA SendKeeps ==
    ASSUME DeskInv, NEW t \in Transaction, Send(t),
           t.kind \in {"accept", "decline"} =>
              \E u \in Account : t.trade \in pendingTrades[u]
    PROVE  DeskInv'
<1>1. SwapTypeOK'
  BY QuietKeepsSwapInv DEF DeskInv, Send, SwapInv
<1>2. DeskTypeOK'
  BY <1>1 DEF DeskInv, DeskTypeOK, Send, matchVars, deviceVars
<1> QED BY <1>2, QuietStepKeeps DEF Send, matchVars, deviceVars

LEMMA UpdateTradingBlockKeeps ==
    ASSUME DeskInv, NEW u \in Account, NEW selection \in SUBSET MomentId,
           UpdateTradingBlock(u, selection)
    PROVE  DeskInv'
<1> DEFINE t == [ kind |-> "updateTradingBlock", user |-> u,
                  block |-> selection ]
<1>1. t \in Transaction /\ Send(t) /\ t.kind = "updateTradingBlock"
  BY DEF UpdateTradingBlock, Transaction
<1> HIDE DEF t
<1> QED BY <1>1, SendKeeps

LEMMA SubmitTradeProposalKeeps ==
    ASSUME DeskInv, NEW u \in Account, NEW userMoment \in MomentId,
           NEW other \in Account, NEW otherMoment \in MomentId,
           SubmitTradeProposal(u, userMoment, other, otherMoment)
    PROVE  DeskInv'
<1> DEFINE t == [ kind |-> "propose", user |-> u, userMoment |-> userMoment,
                  other |-> other, otherMoment |-> otherMoment ]
<1>1. t \in Transaction /\ Send(t) /\ t.kind = "propose"
  BY DEF SubmitTradeProposal, Transaction
<1> HIDE DEF t
<1> QED BY <1>1, SendKeeps

LEMMA AnswerKeeps ==
    ASSUME DeskInv, NEW u \in Account, NEW trade \in pendingTrades[u],
           SubmitTradeAcceptance(u, trade) \/ DeclineTrade(u, trade)
    PROVE  DeskInv'
<1>1. PICK k \in {"accept", "decline"} :
         Send([ kind |-> k, user |-> u, trade |-> trade ])
  BY DEF SubmitTradeAcceptance, DeclineTrade
<1> DEFINE t == [ kind |-> k, user |-> u, trade |-> trade ]
<1>2. trade \in Trade
  BY DEF DeskInv, DeskTypeOK
<1>3. t \in Transaction /\ Send(t) /\ t.trade = trade
  BY <1>1, <1>2 DEF Transaction
<1> HIDE DEF t
<1> QED BY <1>3, SendKeeps
-----------------------------------------------------------------------------
(***************************************************************************)
(* Steps of the chain.                                                     *)
(***************************************************************************)

\* TopShotMatch uses the same operators on sequences.
LEMMA SameRemoveFirst ==
    ASSUME NEW s, NEW e
    PROVE  Match!RemoveFirst(s, e) = RemoveFirst(s, e)
<1>1. ASSUME NEW i
      PROVE  Match!RemoveAt(s, i) = RemoveAt(s, i)
  BY DEF Match!RemoveAt, RemoveAt
<1>2. ASSUME NEW I
      PROVE  Match!Min(I) = Min(I)
  BY DEF Match!Min, Min
<1>3. Match!SelectInSeq(s, LAMBDA v : v = e)
         = SelectInSeq(s, LAMBDA v : v = e)
  BY <1>2 DEF Match!SelectInSeq, SelectInSeq
<1> QED BY <1>1, <1>3 DEF Match!RemoveFirst, RemoveFirst

\* What is left of blocks without repetitions once a Moment is removed.
LEMMA WithoutMomentValue ==
    ASSUME NEW blocks \in [Account -> Seq(MomentId)],
           \A a \in Account : IsInjective(blocks[a]),
           NEW owner \in Account, NEW m
    PROVE  LET after == Match!WithoutMoment(blocks, owner, m)
           IN  /\ after \in [Account -> Seq(MomentId)]
               /\ \A a \in Account : IsInjective(after[a])
               /\ \A a \in Account : Range(after[a]) \subseteq Range(blocks[a])
               /\ m \notin Range(after[owner])
<1> DEFINE rest == RemoveFirst(blocks[owner], m)
           after == Match!WithoutMoment(blocks, owner, m)
<1>1. /\ rest \in Seq(MomentId) /\ IsInjective(rest)
      /\ Range(rest) \subseteq Range(blocks[owner])
      /\ m \notin Range(rest)
  BY RemoveFirstKeeps
<1>2. after = [blocks EXCEPT ![owner] = rest]
  BY SameRemoveFirst DEF Match!WithoutMoment
<1> HIDE DEF rest, after
<1>3. /\ after \in [Account -> Seq(MomentId)]
      /\ after[owner] = rest
      /\ \A a \in Account \ {owner} : after[a] = blocks[a]
  BY <1>1, <1>2
<1>4. /\ \A a \in Account : IsInjective(after[a])
      /\ \A a \in Account : Range(after[a]) \subseteq Range(blocks[a])
      /\ m \notin Range(after[owner])
  <2> SUFFICES ASSUME NEW a \in Account
               PROVE  /\ IsInjective(after[a])
                      /\ Range(after[a]) \subseteq Range(blocks[a])
    BY <1>1, <1>3
  <2>1. CASE a = owner
    BY <1>1, <1>3, <2>1
  <2>2. CASE a # owner
    BY <1>3, <2>2
  <2> QED BY <2>1, <2>2
<1> QED BY <1>3, <1>4 DEF after

\* A block is any order of the Moments that were selected.
LEMMA BlockUpdatedKeeps ==
    ASSUME DeskInv, NEW t \in sent, BlockUpdated(t)
    PROVE  DeskInv'
<1>1. t.user \in Account /\ t.block \subseteq MomentId
  BY DEF DeskInv, DeskTypeOK, Transaction, BlockUpdated
<1> DEFINE block == SetToSeq(t.block)
<1>2. IsFiniteSet(t.block)
  <2>1. \A n \in Nat : IsFiniteSet(1 .. n)
    BY FS_Interval
  <2>2. IsFiniteSet(MomentId)
    BY <2>1, SupplyAssumption DEF MomentId
  <2> QED BY <1>1, <2>2, FS_Subset
<1>3. block \in Seq(t.block) /\ IsInjective(block)
  BY <1>2, SetToSeqLists
<1> HIDE DEF block
<1>4. block \in Seq(MomentId)
  BY <1>1, <1>3
<1>5. tradingBlock' = [tradingBlock EXCEPT ![t.user] = block]
      /\ likedMomentsRelationship' = likedMomentsRelationship
  BY DEF BlockUpdated, Match!UpdateUserTradingBlock, block
<1>6. BlocksListOnce'
  BY <1>1, <1>3, <1>5 DEF DeskInv, DeskTypeOK, BlocksListOnce
<1>7. SwapTypeOK'
  BY QuietKeepsSwapInv DEF DeskInv, BlockUpdated, SwapInv
<1>8. DeskTypeOK'
  BY <1>4, <1>5, <1>7 DEF DeskInv, DeskTypeOK, BlockUpdated, deviceVars
<1> QED BY <1>6, <1>8, QuietStepKeeps DEF BlockUpdated, deviceVars

\* createProposal stores one proposal, of what it is given.
LEMMA CreatedProposal ==
    ASSUME NEW left, NEW right, NEW leftNfts, NEW rightNfts, NEW minutes,
           CreateProposal(left, right, leftNfts, rightNfts, minutes)
    PROVE  \E p : /\ swapProposals' = [swapProposals EXCEPT
                                          ![left] = @ \cup {p}]
                  /\ p.leftNfts = leftNfts /\ p.rightNfts = rightNfts
<1>1. PICK id \in ProposalId \ { p.id : p \in swapProposals[left] } :
         swapProposals' = [swapProposals EXCEPT ![left] = @ \cup {
              [ id |-> id, left |-> left, leftNfts |-> leftNfts,
                right |-> right, rightNfts |-> rightNfts,
                expiration |-> timestamp + minutes * 1000 * 60,
                createdAt |-> timestamp ] }]
  BY DEF CreateProposal
<1> DEFINE new == [ id |-> id, left |-> left, leftNfts |-> leftNfts,
                    right |-> right, rightNfts |-> rightNfts,
                    expiration |-> timestamp + minutes * 1000 * 60,
                    createdAt |-> timestamp ]
<1>2. new.leftNfts = leftNfts /\ new.rightNfts = rightNfts
  OBVIOUS
<1> QED BY <1>1, <1>2

\* A proposal comes with an id nobody has heard of.
LEMMA TradeProposedKeeps ==
    ASSUME DeskInv, NEW t \in sent, TradeProposed(t)
    PROVE  DeskInv'
<1>1. /\ t.user \in Account /\ t.other \in Account
      /\ t.userMoment \in MomentId /\ t.otherMoment \in MomentId
  BY DEF DeskInv, DeskTypeOK, Transaction, TradeProposed
<1>2. << t.userMoment >> \in OfferLists /\ << t.otherMoment >> \in OfferLists
  BY <1>1, DeskAssumption
<1>3. CreateProposal(t.user, t.other, << t.userMoment >>,
                     << t.otherMoment >>, SwapProposalDefaultExpirationMinutes)
  BY DEF TradeProposed
<1>4. SwapInv'
  BY <1>1, <1>2, <1>3, CreateProposalKeepsInv
     DEF DeskInv, SwapProposalDefaultExpirationMinutes
<1>5. PICK p : /\ swapProposals' = [swapProposals EXCEPT
                                      ![t.user] = @ \cup {p}]
               /\ Single(p)
  <2>1. Len(<< t.userMoment >>) = 1 /\ Len(<< t.otherMoment >>) = 1
    OBVIOUS
  <2> QED BY <1>3, <2>1, CreatedProposal DEF Single
<1>6. swapProposals \in [Account -> SUBSET Proposal]
      /\ swapProposals' \in [Account -> SUBSET Proposal]
  BY <1>4 DEF DeskInv, SwapInv, SwapTypeOK
<1> DEFINE new == { q.id : q \in swapProposals'[t.user]
                                    \ swapProposals[t.user] }
<1>7. new \cap usedIds = {} /\ usedIds' = usedIds \cup new
  BY DEF TradeProposed
<1>8. /\ \A q \in swapProposals'[t.user] :
            q \in swapProposals[t.user] \/ (q = p /\ q.id \in new)
      /\ \A a \in Account \ {t.user} : swapProposals'[a] = swapProposals[a]
      /\ new \subseteq ProposalId
  BY <1>1, <1>5, <1>6 DEF Proposal
<1> HIDE DEF new
<1>9. ProposalsAreDrawn'
  <2> SUFFICES ASSUME NEW a \in Account, NEW q \in swapProposals'[a]
               PROVE  Single(q) /\ q.id \in usedIds'
    BY DEF ProposalsAreDrawn, Single
  <2>1. CASE q \in swapProposals[a]
    BY <1>7, <2>1 DEF DeskInv, ProposalsAreDrawn
  <2>2. CASE q \notin swapProposals[a]
    BY <1>5, <1>7, <1>8, <2>2
  <2> QED BY <2>1, <2>2
<1>10. UNCHANGED << pendingTrades, declined, tradingBlock >>
       /\ sent' = sent \ {t}
  BY DEF TradeProposed, matchVars, deviceVars
<1>11. KnownTrades' \subseteq KnownTrades /\ KnownTrades \subseteq Trade
  BY <1>10, NoNewTrades, KnownAreTrades DEF DeskInv
<1>12. ASSUME NEW r \in KnownTrades, NEW q \in swapProposals'[r.left],
              q.id = r.id
       PROVE  q \in swapProposals[r.left]
  <2>1. r.id \in usedIds /\ r.left \in Account
    BY <1>11 DEF DeskInv, TradesAreNamed, Names, Trade
  <2>2. q.id \notin new
    BY <1>7, <1>12, <2>1
  <2> QED BY <1>8, <2>1, <2>2
<1>13. TradesAreNamed'
  <2> SUFFICES ASSUME NEW r \in KnownTrades' PROVE Names(r)'
    BY DEF TradesAreNamed
  <2>1. r \in KnownTrades /\ Names(r)
    BY <1>11 DEF DeskInv, TradesAreNamed
  <2> QED BY <1>7, <1>12, <2>1 DEF Names, TradeOf
<1>14. DeclinedAreGone'
  <2> SUFFICES ASSUME NEW r \in declined, NEW q \in swapProposals'[r.left],
                      q.id = r.id
               PROVE  FALSE
    BY <1>10 DEF DeclinedAreGone
  <2>1. r \in KnownTrades
    BY DEF KnownTrades
  <2> QED BY <1>12, <2>1 DEF DeskInv, DeclinedAreGone
<1>15. DeskTypeOK'
  BY <1>4, <1>7, <1>8
     DEF DeskInv, DeskTypeOK, TradeProposed, SwapInv, matchVars, deviceVars
<1>16. BlocksListOnce'
  BY <1>10 DEF DeskInv, BlocksListOnce
<1> QED BY <1>4, <1>9, <1>13, <1>14, <1>15, <1>16 DEF DeskInv

\* What is known of the proposal that an accepted trade names.
LEMMA AcceptedTrade ==
    ASSUME DeskInv, NEW t \in sent, TradeAccepted(t)
    PROVE  /\ t.user \in Account /\ t.trade \in Trade
           /\ t.trade \in KnownTrades
           /\ \E p \in swapProposals[t.trade.left] :
                 /\ p.id = t.trade.id
                 /\ AcceptTrade(t.user, t.trade.left, p)
                 /\ p.left = t.trade.left /\ p.right = t.user
                 /\ p.right \in Account
                 /\ Range(p.leftNfts) = {t.trade.leftMoment}
                 /\ Range(p.rightNfts) = {t.trade.rightMoment}
<1>1. t.user \in Account /\ t.trade \in Trade
  BY DEF DeskInv, DeskTypeOK, Transaction, TradeAccepted
<1>2. t.trade \in KnownTrades
  <2>1. t.trade \in SentTrades
    BY DEF TradeAccepted, SentTrades, Answers
  <2> QED BY <2>1 DEF KnownTrades
<1>3. PICK p \in swapProposals[t.trade.left] :
         /\ p.id = t.trade.id
         /\ AcceptTrade(t.user, t.trade.left, p)
  BY DEF TradeAccepted
<1>4. t.trade.left \in Account
  BY <1>1 DEF Trade
<1>5. TradeOf(p) = t.trade
  BY <1>2, <1>3 DEF DeskInv, TradesAreNamed, Names
<1>6. /\ p.left = t.trade.left
      /\ Head(p.leftNfts) = t.trade.leftMoment
      /\ Head(p.rightNfts) = t.trade.rightMoment
  BY <1>5 DEF TradeOf
<1>7. /\ p.right \in Account
      /\ p.leftNfts \in Seq(MomentId) /\ p.rightNfts \in Seq(MomentId)
  BY <1>4, ProposalFields DEF DeskInv
<1>8. p.right = t.user
  <2> DEFINE signer == t.user
             left == t.trade.left
  <2>1. SwapInv /\ signer \in Account /\ left \in Account
    BY <1>1, <1>4 DEF DeskInv
  <2>2. p \in swapProposals[left] /\ AcceptTrade(signer, left, p)
    BY <1>3
  <2> HIDE DEF signer, left
  <2>3. signer = p.right
    BY <2>1, <2>2, AcceptedProposal
  <2> QED BY <2>3 DEF signer
<1>9. Len(p.leftNfts) = 1 /\ Len(p.rightNfts) = 1
  BY <1>4 DEF DeskInv, ProposalsAreDrawn, Single
<1>10. ASSUME NEW s \in Seq(MomentId), Len(s) = 1
       PROVE  Range(s) = {Head(s)}
  <2>1. DOMAIN s = {1} /\ Head(s) = s[1]
    BY <1>10, LenProperties
  <2> QED BY <2>1 DEF Range
<1>11. /\ Range(p.leftNfts) = {t.trade.leftMoment}
       /\ Range(p.rightNfts) = {t.trade.rightMoment}
  BY <1>6, <1>7, <1>9, <1>10
<1> QED BY <1>1, <1>2, <1>3, <1>6, <1>7, <1>8, <1>11

\* The blocks after the two Moments of an accepted trade were removed.
LEMMA WithoutTradedValue ==
    ASSUME DeskInv, NEW t \in sent, TradeAccepted(t)
    PROVE  /\ tradingBlock' \in [Account -> Seq(MomentId)]
           /\ BlocksListOnce'
           /\ t.trade.leftMoment \notin Range(tradingBlock'[t.trade.left])
           /\ t.trade.rightMoment \notin Range(tradingBlock'[t.user])
<1> DEFINE mid == Match!WithoutMoment(tradingBlock, t.trade.left,
                                      t.trade.leftMoment)
           after == Match!WithoutMoment(mid, t.user, t.trade.rightMoment)
<1>1. t.user \in Account /\ t.trade.left \in Account
  BY AcceptedTrade DEF Trade
<1>2. /\ tradingBlock \in [Account -> Seq(MomentId)]
      /\ \A a \in Account : IsInjective(tradingBlock[a])
  BY DEF DeskInv, DeskTypeOK, BlocksListOnce
<1>3. /\ mid \in [Account -> Seq(MomentId)]
      /\ \A a \in Account : IsInjective(mid[a])
      /\ t.trade.leftMoment \notin Range(mid[t.trade.left])
  BY <1>1, <1>2, WithoutMomentValue
<1> HIDE DEF mid
<1>4. /\ after \in [Account -> Seq(MomentId)]
      /\ \A a \in Account : IsInjective(after[a])
      /\ \A a \in Account : Range(after[a]) \subseteq Range(mid[a])
      /\ t.trade.rightMoment \notin Range(after[t.user])
  <2> DEFINE m == t.trade.rightMoment
             owner == t.user
  <2>1. owner \in Account
    BY <1>1
  <2> HIDE DEF m, owner
  <2>2. LET rest == Match!WithoutMoment(mid, owner, m)
        IN  /\ rest \in [Account -> Seq(MomentId)]
            /\ \A a \in Account : IsInjective(rest[a])
            /\ \A a \in Account : Range(rest[a]) \subseteq Range(mid[a])
            /\ m \notin Range(rest[owner])
    BY <1>3, <2>1, WithoutMomentValue
  <2> QED BY <2>2 DEF m, owner
<1>5. tradingBlock' = after
  BY DEF TradeAccepted, WithoutTraded, mid
<1> HIDE DEF after
<1> QED BY <1>1, <1>3, <1>4, <1>5 DEF BlocksListOnce

LEMMA TradeAcceptedKeeps ==
    ASSUME DeskInv, NEW t \in sent, TradeAccepted(t)
    PROVE  DeskInv'
<1>1. PICK p \in swapProposals[t.trade.left] :
         AcceptTrade(t.user, t.trade.left, p)
  BY DEF TradeAccepted
<1>2. t.user \in Account /\ t.trade.left \in Account
  BY AcceptedTrade DEF Trade
<1>3. SwapInv'
  BY <1>1, <1>2, AcceptTradeKeepsInv DEF DeskInv
<1>4. swapProposals' = swapProposals
  BY <1>1 DEF AcceptTrade, swapVars
<1>5. tradingBlock' \in [Account -> Seq(MomentId)] /\ BlocksListOnce'
  BY WithoutTradedValue
<1>6. DeskTypeOK'
  BY <1>3, <1>5 DEF DeskInv, DeskTypeOK, TradeAccepted, SwapInv, deviceVars
<1> QED BY <1>3, <1>4, <1>5, <1>6, StepKeeps DEF TradeAccepted, deviceVars

LEMMA TradeDeclinedKeeps ==
    ASSUME DeskInv, NEW t \in sent, TradeDeclined(t)
    PROVE  DeskInv'
<1>1. t.trade \in Trade /\ t.trade \in KnownTrades
  <2>1. t.trade \in SentTrades
    BY DEF TradeDeclined, SentTrades, Answers
  <2> QED BY <2>1, KnownAreTrades DEF KnownTrades, DeskInv
<1>2. t.trade.left \in Account /\ t.trade.id \in ProposalId
  BY <1>1 DEF Trade
<1>3. DeleteProposal(t.trade.left, t.trade.id)
  BY DEF TradeDeclined
<1>4. SwapInv'
  BY <1>2, <1>3, DeleteProposalKeepsInv DEF DeskInv
<1>5. /\ swapProposals' = [swapProposals EXCEPT
             ![t.trade.left] = { p \in @ : p.id # t.trade.id }]
      /\ swapProposals \in [Account -> SUBSET Proposal]
  BY <1>3 DEF DeleteProposal, DeskInv, SwapInv, SwapTypeOK
<1>6. /\ \A a \in Account : swapProposals'[a] \subseteq swapProposals[a]
      /\ \A p \in swapProposals'[t.trade.left] : p.id # t.trade.id
  BY <1>2, <1>5
<1>7. /\ UNCHANGED << pendingTrades, usedIds, tradingBlock >>
      /\ sent' = sent \ {t}
      /\ declined' = declined \cup {t.trade}
  BY DEF TradeDeclined, matchVars, deviceVars
<1>8. KnownTrades' \subseteq KnownTrades
  <2>1. ShownTrades' = ShownTrades
    BY <1>7 DEF ShownTrades
  <2>2. SentTrades' \subseteq SentTrades
    BY <1>7 DEF SentTrades, Answers
  <2> QED BY <1>1, <1>7, <2>1, <2>2 DEF KnownTrades
<1>9. KnownTrades \subseteq Trade
  BY KnownAreTrades DEF DeskInv
<1>10. ProposalsAreDrawn'
  BY <1>6, <1>7 DEF DeskInv, ProposalsAreDrawn, Single
<1>11. TradesAreNamed'
  <2> SUFFICES ASSUME NEW r \in KnownTrades' PROVE Names(r)'
    BY DEF TradesAreNamed
  <2>1. r.left \in Account /\ Names(r)
    BY <1>8, <1>9 DEF DeskInv, TradesAreNamed, Trade
  <2> QED BY <1>6, <1>7, <2>1 DEF Names, TradeOf
<1>12. DeclinedAreGone'
  <2> SUFFICES ASSUME NEW r \in declined', NEW p \in swapProposals'[r.left]
               PROVE  p.id # r.id
    BY DEF DeclinedAreGone
  <2>1. CASE r \in declined
    <3>1. r.left \in Account
      BY <2>1 DEF DeskInv, DeskTypeOK, Trade
    <3> QED BY <1>6, <2>1, <3>1 DEF DeskInv, DeclinedAreGone
  <2>2. CASE r = t.trade
    BY <1>6, <2>2
  <2> QED BY <1>7, <2>1, <2>2
<1>13. DeskTypeOK'
  BY <1>1, <1>4, <1>7
     DEF DeskInv, DeskTypeOK, TradeDeclined, SwapInv, matchVars, deviceVars
<1>14. BlocksListOnce'
  BY <1>7 DEF DeskInv, BlocksListOnce
<1> QED BY <1>4, <1>10, <1>11, <1>12, <1>13, <1>14 DEF DeskInv

LEMMA NothingExecutedKeeps ==
    ASSUME DeskInv, NEW t \in sent, NothingExecuted(t)
    PROVE  DeskInv'
<1>1. SwapTypeOK'
  BY QuietKeepsSwapInv DEF DeskInv, NothingExecuted, SwapInv
<1>2. DeskTypeOK'
  BY <1>1 DEF DeskInv, DeskTypeOK, NothingExecuted, matchVars, deviceVars
<1> QED BY <1>2, QuietStepKeeps DEF NothingExecuted, matchVars, deviceVars

LEMMA ResetMatchKeeps ==
    ASSUME DeskInv, ResetMatch
    PROVE  DeskInv'
<1>1. SwapTypeOK'
  BY QuietKeepsSwapInv DEF DeskInv, ResetMatch, SwapInv
<1>2. /\ tradingBlock' = [a \in Account |-> << >>]
      /\ likedMomentsRelationship' = [a \in Account |-> {}]
  BY DEF ResetMatch, Match!Reset
<1>3. BlocksListOnce'
  BY <1>2 DEF BlocksListOnce, IsInjective
<1>4. tradingBlock' \in [Account -> Seq(MomentId)]
  BY <1>2, EmptySeq
<1>5. DeskTypeOK'
  BY <1>1, <1>2, <1>4 DEF DeskInv, DeskTypeOK, ResetMatch, deviceVars
<1> QED BY <1>3, <1>5, QuietStepKeeps DEF ResetMatch, deviceVars

LEMMA ElsewhereKeeps ==
    ASSUME DeskInv, Elsewhere
    PROVE  DeskInv'
<1>1. SwapInv'
  BY OtherTransactionsKeepInv DEF DeskInv, Elsewhere
<1>2. swapProposals' = swapProposals
  BY DEF Elsewhere, OtherTransactions, SwapSetupAccount, SetProposalCreation,
         swapVars
<1>3. DeskTypeOK'
  BY <1>1 DEF DeskInv, DeskTypeOK, Elsewhere, SwapInv, matchVars, deviceVars
<1> QED BY <1>1, <1>2, <1>3, StepKeeps DEF Elsewhere, matchVars, deviceVars
-----------------------------------------------------------------------------
(***************************************************************************)
(* The theorems.                                                           *)
(***************************************************************************)

LEMMA DeskStarts == DeskInit => DeskInv
<1> SUFFICES ASSUME DeskInit PROVE DeskInv
  OBVIOUS
<1>1. SwapInv
  BY InitSwapInv DEF DeskInit
<1>2. /\ tradingBlock = [a \in Account |-> << >>]
      /\ likedMomentsRelationship = [a \in Account |-> {}]
  BY DEF DeskInit, Match!ContractInit
<1>3. BlocksListOnce
  BY <1>2 DEF BlocksListOnce, IsInjective
<1>4. tradingBlock \in [Account -> Seq(MomentId)]
  BY <1>2, EmptySeq
<1>5. DeskTypeOK
  BY <1>1, <1>2, <1>4 DEF DeskInit, DeviceInit, DeskTypeOK, SwapInv, Shown
<1>6. KnownTrades = {}
  <2>1. ShownTrades = {}
    BY DEF DeskInit, DeviceInit, ShownTrades
  <2>2. SentTrades = {} /\ declined = {}
    BY DEF DeskInit, DeviceInit, SentTrades, Answers
  <2> QED BY <2>1, <2>2 DEF KnownTrades
<1>7. ProposalsAreDrawn /\ DeclinedAreGone
  BY DEF DeskInit, DeviceInit, SwapInit, ProposalsAreDrawn, DeclinedAreGone
<1> QED BY <1>1, <1>3, <1>5, <1>6, <1>7 DEF DeskInv, TradesAreNamed

LEMMA OfferingKeeps ==
    ASSUME DeskInv, NEW u \in Account, Offering(u)
    PROVE  DeskInv'
BY MomentsAnsweredKeeps, UserMomentsLoadedKeeps, UpdateTradingBlockKeeps,
   SubmitTradeProposalKeeps DEF Offering

LEMMA AnsweringKeeps ==
    ASSUME DeskInv, NEW u \in Account, Answering(u)
    PROVE  DeskInv'
BY PendingTradesLoadedKeeps, AnswerKeeps DEF Answering

LEMMA OnChainKeeps ==
    ASSUME DeskInv, NEW t \in sent, OnChain(t)
    PROVE  DeskInv'
BY BlockUpdatedKeeps, TradeProposedKeeps, TradeAcceptedKeeps,
   TradeDeclinedKeeps, NothingExecutedKeeps DEF OnChain

\* The inductive invariant of devices, transactions under way and chain.
THEOREM DeskInvariance == DeskSpec => []DeskInv
<1>1. DeskInit => DeskInv
  BY DeskStarts
<1>2. DeskInv /\ [DeskNext \/ Elsewhere]_deskVars => DeskInv'
  <2> SUFFICES ASSUME DeskInv, [DeskNext \/ Elsewhere]_deskVars
               PROVE  DeskInv'
    OBVIOUS
  <2>1. ASSUME NEW u \in Account, Offering(u) \/ Answering(u)
        PROVE  DeskInv'
    BY <2>1, OfferingKeeps, AnsweringKeeps
  <2>2. ASSUME NEW t \in sent, OnChain(t)
        PROVE  DeskInv'
    BY <2>2, OnChainKeeps
  <2>3. CASE ResetMatch
    BY <2>3, ResetMatchKeeps
  <2>4. CASE Elsewhere
    BY <2>4, ElsewhereKeeps
  <2>5. CASE UNCHANGED deskVars
    <3>1. SwapTypeOK'
      BY <2>5, QuietKeepsSwapInv DEF DeskInv, deskVars, SwapInv
    <3>2. DeskTypeOK'
      BY <2>5, <3>1 DEF DeskInv, DeskTypeOK, deskVars, matchVars, deviceVars
    <3> QED BY <2>5, <3>2, QuietStepKeeps DEF deskVars, matchVars, deviceVars
  <2> QED BY <2>1, <2>2, <2>3, <2>4, <2>5 DEF DeskNext
<1> QED BY <1>1, <1>2, PTL DEF DeskSpec

\* Type correctness of devices, transactions and chain; only Moments that
\* are shown are marked, and nobody is shown a trade for somebody else.
THEOREM DeskTypeCorrect == DeskSpec => []DeskTypeOK
<1>1. DeskInv => DeskTypeOK
  BY DEF DeskInv
<1> QED BY <1>1, DeskInvariance, PTL

\* What changes hands when a trade is accepted.
LEMMA AcceptedTradeMoves ==
    ASSUME DeskInv, NEW t \in sent, TradeAccepted(t)
    PROVE  LET left == t.trade.left
               gives == t.trade.leftMoment
               gets == t.trade.rightMoment
           IN  /\ left \in Account /\ t.user \in Account
               /\ gives \in owned[left] /\ gets \in owned[t.user]
               /\ left = t.user => owned' = owned
               /\ left # t.user =>
                    /\ owned'[left] = (owned[left] \ {gives}) \cup {gets}
                    /\ owned'[t.user] = (owned[t.user] \ {gets}) \cup {gives}
               /\ \A a \in Account \ {left, t.user} : owned'[a] = owned[a]
<1> DEFINE left == t.trade.left
           gives == t.trade.leftMoment
           gets == t.trade.rightMoment
           signer == t.user
<1>1. left \in Account /\ signer \in Account
  BY AcceptedTrade DEF Trade
<1>2. PICK p \in swapProposals[left] :
         /\ AcceptTrade(signer, left, p)
         /\ p.left = left /\ p.right = signer
         /\ Range(p.leftNfts) = {gives} /\ Range(p.rightNfts) = {gets}
  BY AcceptedTrade
<1>3. SwapInv
  BY DEF DeskInv
<1> HIDE DEF left, gives, gets, signer
<1>4. gives \in owned[left] /\ gets \in owned[signer]
  <2>1. /\ Range(p.leftNfts) \in SUBSET owned[p.left]
        /\ Range(p.rightNfts) \in SUBSET owned[p.right]
    BY <1>1, <1>2, <1>3, AcceptedProposal
  <2> QED BY <1>2, <2>1
<1>5. /\ p.left = p.right => owned' = owned
      /\ p.left # p.right =>
           /\ owned'[p.left] = (owned[p.left]
                 \ Range(p.leftNfts)) \cup Range(p.rightNfts)
           /\ owned'[p.right] = (owned[p.right]
                 \ Range(p.rightNfts)) \cup Range(p.leftNfts)
      /\ \A a \in Account \ {p.left, p.right} : owned'[a] = owned[a]
  BY <1>1, <1>2, <1>3, AcceptedHoldings
<1>6. /\ left = signer => owned' = owned
      /\ left # signer =>
           /\ owned'[left] = (owned[left] \ {gives}) \cup {gets}
           /\ owned'[signer] = (owned[signer] \ {gets}) \cup {gives}
      /\ \A a \in Account \ {left, signer} : owned'[a] = owned[a]
  BY <1>2, <1>5
<1> QED BY <1>1, <1>4, <1>6 DEF left, gives, gets, signer

\* What AcceptedTradeIsTheOneShown says of one step.
ShownIsCarriedOut ==
    \A t \in sent :
       TradeAccepted(t) =>
          LET left == t.trade.left
              traded == {t.trade.leftMoment, t.trade.rightMoment}
          IN  /\ t.trade.leftMoment \in owned[left] \cap owned'[t.user]
              /\ t.trade.rightMoment \in owned[t.user] \cap owned'[left]
              /\ \A a \in Account :
                    owned'[a] \ traded = owned[a] \ traded

\* Whoever accepts a trade gets and gives what was shown, for any devices
\* and however old the list is.
THEOREM ShownTradesAreKept == DeskSpec => AcceptedTradeIsTheOneShown
<1>1. DeskInv => ShownIsCarriedOut
  <2> SUFFICES ASSUME DeskInv, NEW t \in sent, TradeAccepted(t)
               PROVE  LET left == t.trade.left
                          traded == {t.trade.leftMoment, t.trade.rightMoment}
                      IN  /\ t.trade.leftMoment
                                \in owned[left] \cap owned'[t.user]
                          /\ t.trade.rightMoment
                                \in owned[t.user] \cap owned'[left]
                          /\ \A a \in Account :
                                owned'[a] \ traded = owned[a] \ traded
    BY DEF ShownIsCarriedOut
  <2> DEFINE left == t.trade.left
             gives == t.trade.leftMoment
             gets == t.trade.rightMoment
             signer == t.user
  <2>1. /\ left \in Account /\ signer \in Account
        /\ gives \in owned[left] /\ gets \in owned[signer]
        /\ left = signer => owned' = owned
        /\ left # signer =>
             /\ owned'[left] = (owned[left] \ {gives}) \cup {gets}
             /\ owned'[signer] = (owned[signer] \ {gets}) \cup {gives}
        /\ \A a \in Account \ {left, signer} : owned'[a] = owned[a]
    BY AcceptedTradeMoves
  <2> HIDE DEF left, gives, gets, signer
  <2>2. gives \in owned[left] \cap owned'[signer]
    BY <2>1
  <2>3. gets \in owned[signer] \cap owned'[left]
    BY <2>1
  <2>4. ASSUME NEW a \in Account
        PROVE  owned'[a] \ {gives, gets} = owned[a] \ {gives, gets}
    BY <2>1
  <2> QED BY <2>2, <2>3, <2>4 DEF left, gives, gets, signer
<1>2. DeskSpec => [][ShownIsCarriedOut]_deskVars
  BY <1>1, DeskInvariance, PTL DEF DeskSpec
<1> QED BY <1>2 DEF AcceptedTradeIsTheOneShown, ShownIsCarriedOut

\* What TradedMomentsLeaveTheBlocks says of one step.
BlocksAreCleared ==
    \A t \in sent :
       TradeAccepted(t) =>
          \A a \in Account :
             Range(tradingBlock'[a]) \cap (owned[a] \ owned'[a]) = {}

\* Nobody goes on offering what he has just given away, for any blocks.
THEOREM TradedLeaveTheBlocks == DeskSpec => TradedMomentsLeaveTheBlocks
<1>1. DeskInv => BlocksAreCleared
  <2> SUFFICES ASSUME DeskInv, NEW t \in sent, TradeAccepted(t),
                      NEW a \in Account, NEW m \in owned[a] \ owned'[a]
               PROVE  m \notin Range(tradingBlock'[a])
    BY DEF BlocksAreCleared
  <2> DEFINE left == t.trade.left
             gives == t.trade.leftMoment
             gets == t.trade.rightMoment
             signer == t.user
  <2>1. /\ left = signer => owned' = owned
        /\ left # signer =>
             /\ owned'[left] = (owned[left] \ {gives}) \cup {gets}
             /\ owned'[signer] = (owned[signer] \ {gets}) \cup {gives}
        /\ \A b \in Account \ {left, signer} : owned'[b] = owned[b]
    BY AcceptedTradeMoves
  <2>2. /\ gives \notin Range(tradingBlock'[left])
        /\ gets \notin Range(tradingBlock'[signer])
    BY WithoutTradedValue
  <2> HIDE DEF left, gives, gets, signer
  <2>3. (a = left /\ m = gives) \/ (a = signer /\ m = gets)
    BY <2>1
  <2> QED BY <2>2, <2>3
<1>2. DeskSpec => [][BlocksAreCleared]_deskVars
  BY <1>1, DeskInvariance, PTL DEF DeskSpec
<1> QED BY <1>2 DEF TradedMomentsLeaveTheBlocks, BlocksAreCleared

\* What DeclinedTradesStayDeclined says of one step.
NoneWasDeclined == \A t \in sent : TradeAccepted(t) => t.trade \notin declined

\* What was declined is never carried out, although devices may go on
\* showing it and users accept it.
THEOREM DeclinedStayDeclined == DeskSpec => DeclinedTradesStayDeclined
<1>1. DeskInv => NoneWasDeclined
  BY DEF NoneWasDeclined, DeskInv, DeclinedAreGone, TradeAccepted
<1>2. DeskSpec => [][NoneWasDeclined]_deskVars
  BY <1>1, DeskInvariance, PTL DEF DeskSpec
<1> QED BY <1>2 DEF DeclinedTradesStayDeclined, NoneWasDeclined
-----------------------------------------------------------------------------
(***************************************************************************)
(* What the app asks of the swap contract is what anybody may ask, so that *)
(* the theorems about the contract hold of all users of the app together.  *)
(***************************************************************************)

\* Whatever happens on devices and on the chain, the swap contract sees one of
\* its own transactions or nothing.
LEMMA DeskStepIsSwapStep ==
    ASSUME DeskTypeOK, [DeskNext \/ Elsewhere]_deskVars
    PROVE  [SwapNext]_vars
<1>1. ASSUME NEW t \in sent, TradeProposed(t)
      PROVE  SwapNext
  <2>1. /\ t.user \in Account /\ t.other \in Account
        /\ t.userMoment \in MomentId /\ t.otherMoment \in MomentId
    BY <1>1 DEF DeskTypeOK, Transaction, TradeProposed
  <2>2. /\ << t.userMoment >> \in OfferLists /\ << t.otherMoment >> \in OfferLists
        /\ SwapProposalDefaultExpirationMinutes \in OffsetMinutes
    BY <2>1, DeskAssumption
  <2>3. CreateProposal(t.user, t.other, << t.userMoment >>,
                       << t.otherMoment >>,
                       SwapProposalDefaultExpirationMinutes)
    BY <1>1 DEF TradeProposed
  <2> QED BY <2>1, <2>2, <2>3 DEF SwapNext
<1>2. ASSUME NEW t \in sent, TradeAccepted(t)
      PROVE  SwapNext
  <2>1. t.user \in Account /\ t.trade.left \in Account
    BY <1>2 DEF DeskTypeOK, Transaction, Trade, TradeAccepted
  <2>2. PICK p \in swapProposals[t.trade.left] :
           AcceptTrade(t.user, t.trade.left, p)
    BY <1>2 DEF TradeAccepted
  <2> QED BY <2>1, <2>2 DEF SwapNext
<1>3. ASSUME NEW t \in sent, TradeDeclined(t)
      PROVE  SwapNext
  <2>1. t.trade.left \in Account /\ t.trade.id \in ProposalId
    BY <1>3 DEF DeskTypeOK, Transaction, Trade, TradeDeclined
  <2>2. DeleteProposal(t.trade.left, t.trade.id)
    BY <1>3 DEF TradeDeclined
  <2> QED BY <2>1, <2>2 DEF SwapNext
<1>4. ASSUME NEW t \in sent, BlockUpdated(t) \/ NothingExecuted(t)
      PROVE  UNCHANGED vars
  BY <1>4 DEF BlockUpdated, NothingExecuted
<1>5. ASSUME NEW u \in Account, Offering(u) \/ Answering(u)
      PROVE  UNCHANGED vars
  BY <1>5 DEF Offering, Answering, MomentsAnswered, UserMomentsLoaded,
     UpdateTradingBlock, SubmitTradeProposal, PendingTradesLoaded,
     SubmitTradeAcceptance, DeclineTrade, Send
<1>6. CASE ResetMatch
  BY <1>6 DEF ResetMatch
<1>7. CASE Elsewhere
  BY <1>7 DEF Elsewhere, SwapNext
<1>8. CASE UNCHANGED deskVars
  BY <1>8 DEF deskVars
<1> QED BY <1>1, <1>2, <1>3, <1>4, <1>5, <1>6, <1>7, <1>8 DEF DeskNext, OnChain

\* The app and its users, with everything devices show and send, are a
\* behaviour of the swap contract alone.
THEOREM DeskUsesTheContract == DeskSpec => SwapSpec
<1>1. DeskInit => SwapInit
  BY DEF DeskInit
<1>2. DeskTypeOK /\ [DeskNext \/ Elsewhere]_deskVars => [SwapNext]_vars
  BY DeskStepIsSwapStep
<1> QED BY <1>1, <1>2, DeskTypeCorrect, PTL DEF DeskSpec, SwapSpec

\* Trading with the app implements the atomic swap market: Moments change
\* hands by gift or by a trade that was proposed and is covered, in full.
THEOREM DeskImplementsMarket == DeskSpec => ImplementsAtomicSwap
<1> QED BY DeskUsesTheContract, SwapImplementsMarket, PTL

\* The same of every step alone.
THEOREM DeskStepsImplementMarket == DeskSpec => StepsImplementMarket
<1>1. Market!MarketSpec => [][Market!MarketNext]_(Market!marketVars)
  BY PTL DEF Market!MarketSpec
<1> QED BY <1>1, DeskImplementsMarket, PTL
        DEF ImplementsAtomicSwap, StepsImplementMarket

\* No user of the app parts with a Moment he did not promise or send.
THEOREM DeskConsent == DeskSpec => MovesAreConsented
<1> QED BY DeskUsesTheContract, Consent, PTL

\* No Moment that was traded with the app is spent again.
THEOREM DeskSpendsOnce == DeskSpec => NoDoubleSpend
<1> QED BY DeskUsesTheContract, SpentOnce, PTL
=============================================================================
