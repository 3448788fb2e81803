----------------------------- MODULE EMSwapProofs -----------------------------
(***************************************************************************)
(* Proofs about the ledger and the swap contract, for any accounts,        *)
(* offers, durations and bounds: types, the conservation of Moments, that  *)
(* locks hold, that nobody parts with a Moment without consent, that no    *)
(* Moment is spent twice, and that the contract implements the atomic swap *)
(* market.                                                                 *)
(*                                                                         *)
(* LedgerInv is inductive.  Conservation alone is not: that a mint keeps   *)
(* it needs the type of totalSupply, and that destroying a collection      *)
(* keeps it needs the types of owned and destroyed.                        *)
(***************************************************************************)
EXTENDS EMSwapRefinement, TLAPS

\* The part that ties owned to collectionStored says nothing of the code, where
\* the Moments are inside the stored resource: owned is a total function here,
\* and the proof has to be told that it is empty where nothing is stored.
NothingOutsideStorage ==
    \A a \in Account : a \notin collectionStored => owned[a] = {}

\* The ledger by itself.
LedgerInv == LedgerTypeOK /\ NothingOutsideStorage /\ MomentConservation

\* The ledger and the swap contract.
SwapInv == LedgerInv /\ SwapTypeOK

-----------------------------------------------------------------------------
(***************************************************************************)
(* Moved: what withdraw and deposit do to the holdings.                    *)
(***************************************************************************)

\* Who has what after moving S.
LEMMA MovedValue ==
    ASSUME NEW holdings \in [Account -> SUBSET MomentId],
           NEW from \in Account, NEW to \in Account,
           NEW S \in SUBSET holdings[from]
    PROVE  /\ Moved(holdings, from, to, S) \in [Account -> SUBSET MomentId]
           /\ Moved(holdings, from, to, S)[to] = holdings[to] \cup S
           /\ from # to =>
                Moved(holdings, from, to, S)[from] = holdings[from] \ S
           /\ \A a \in Account \ {from, to} :
                Moved(holdings, from, to, S)[a] = holdings[a]
BY DEF Moved

\* Moving Moments out of the collection that has them keeps the collections
\* disjoint, and neither loses nor creates a Moment.
LEMMA MovedConserves ==
    ASSUME NEW holdings \in [Account -> SUBSET MomentId],
           NEW from \in Account, NEW to \in Account,
           NEW S \in SUBSET holdings[from],
           Disjoint(holdings)
    PROVE  /\ Disjoint(Moved(holdings, from, to, S))
           /\ Held(Moved(holdings, from, to, S)) = Held(holdings)
<1> DEFINE after == Moved(holdings, from, to, S)
<1>1. /\ after[to] = holdings[to] \cup S
      /\ from # to => after[from] = holdings[from] \ S
      /\ \A a \in Account \ {from, to} : after[a] = holdings[a]
  BY MovedValue
<1> HIDE DEF after
<1>2. Disjoint(after)
  <2> SUFFICES ASSUME NEW a \in Account, NEW b \in Account, a # b,
                      NEW m \in after[a], m \in after[b]
               PROVE  FALSE
    BY DEF Disjoint
  <2>1. CASE a = to
    <3>1. m \in holdings[to] \/ m \in holdings[from]
      BY <1>1, <2>1
    <3>2. CASE b = from
      BY <1>1, <2>1, <3>2 DEF Disjoint
    <3>3. CASE b # from
      BY <1>1, <2>1, <3>1, <3>3 DEF Disjoint
    <3> QED BY <3>2, <3>3
  <2>2. CASE b = to
    <3>1. m \in holdings[to] \/ m \in holdings[from]
      BY <1>1, <2>2
    <3>2. CASE a = from
      BY <1>1, <2>2, <3>2 DEF Disjoint
    <3>3. CASE a # from
      BY <1>1, <2>2, <3>1, <3>3 DEF Disjoint
    <3> QED BY <3>2, <3>3
  <2>3. CASE a # to /\ b # to
    <3>1. m \in holdings[a] /\ m \in holdings[b]
      BY <1>1, <2>3
    <3> QED BY <3>1 DEF Disjoint
  <2> QED BY <2>1, <2>2, <2>3
<1>3. \A m : (\E a \in Account : m \in after[a])
                <=> (\E a \in Account : m \in holdings[a])
  <2> SUFFICES ASSUME NEW m
               PROVE  (\E a \in Account : m \in after[a])
                         <=> (\E a \in Account : m \in holdings[a])
    OBVIOUS
  <2>1. ASSUME NEW a \in Account, m \in after[a]
        PROVE  \E b \in Account : m \in holdings[b]
    BY <1>1, <2>1
  <2>2. ASSUME NEW a \in Account, m \in holdings[a]
        PROVE  \E b \in Account : m \in after[b]
    BY <1>1, <2>2
  <2> QED BY <2>1, <2>2
<1>4. Held(after) = Held(holdings)
  BY <1>3 DEF Held
<1> QED BY <1>2, <1>4 DEF after
-----------------------------------------------------------------------------
(***************************************************************************)
(* Every transaction of the ledger keeps LedgerInv.                        *)
(***************************************************************************)

\* In the initial state nothing exists.
LEMMA InitLedgerInv == Init => LedgerInv
<1> SUFFICES ASSUME Init PROVE LedgerInv
  OBVIOUS
<1>1. LedgerTypeOK
  BY SupplyAssumption DEF Init, LedgerTypeOK, NotLocked
<1>2. NothingOutsideStorage
  BY DEF Init, NothingOutsideStorage
<1>3. Held(owned) = {}
  BY DEF Init, Held
<1>4. Disjoint(owned)
  BY DEF Init, Disjoint
<1>5. 1 .. totalSupply = {} /\ destroyed = {}
  BY DEF Init
<1>6. MomentConservation
  BY <1>3, <1>4, <1>5 DEF MomentConservation
<1> QED BY <1>1, <1>2, <1>6 DEF LedgerInv

\* A step that leaves holdings, supply and destroyed Moments alone, and keeps
\* the types and the stored collections, keeps LedgerInv.
LEMMA SameHoldings ==
    ASSUME LedgerInv, LedgerTypeOK',
           UNCHANGED << totalSupply, owned, destroyed >>,
           collectionStored \subseteq collectionStored'
    PROVE  LedgerInv'
<1>1. NothingOutsideStorage'
  BY DEF LedgerInv, NothingOutsideStorage
<1>2. MomentConservation'
  BY DEF LedgerInv, MomentConservation, Disjoint, Held
<1> QED BY <1>1, <1>2 DEF LedgerInv

\* A collection is stored and linked, by setupAccount.cdc or by a wallet.
LEMMA SetupKeepsInv ==
    ASSUME LedgerInv, NEW a \in Account, SetupMomentCollection(a),
           UNCHANGED << totalSupply, owned, lockVars, timestamp, destroyed >>
    PROVE  LedgerInv'
<1>1. LedgerTypeOK'
  BY DEF LedgerInv, LedgerTypeOK, SetupMomentCollection, linkVars, lockVars,
         AppLink, Interface
<1>2. collectionStored \subseteq collectionStored'
  BY DEF SetupMomentCollection, linkVars
<1> QED BY <1>1, <1>2, SameHoldings

LEMMA WalletSetupKeepsInv ==
    ASSUME LedgerInv, NEW a \in Account, WalletSetup(a)
    PROVE  LedgerInv'
<1>1. LedgerTypeOK'
  BY DEF LedgerInv, LedgerTypeOK, WalletSetup, WalletLink, Interface, lockVars
<1>2. /\ UNCHANGED << totalSupply, owned, destroyed >>
      /\ collectionStored \subseteq collectionStored'
  BY DEF WalletSetup
<1> QED BY <1>1, <1>2, SameHoldings

LEMMA RevokeProviderKeepsInv ==
    ASSUME LedgerInv, NEW a \in Account, RevokeProvider(a)
    PROVE  LedgerInv'
<1>1. LedgerTypeOK'
  BY DEF LedgerInv, LedgerTypeOK, RevokeProvider, lockVars
<1>2. /\ UNCHANGED << totalSupply, owned, destroyed >>
      /\ collectionStored \subseteq collectionStored'
  BY DEF RevokeProvider
<1> QED BY <1>1, <1>2, SameHoldings

\* The destroyed collection's Moments go from held to destroyed.
LEMMA DestroyCollectionKeepsInv ==
    ASSUME LedgerInv, NEW a \in Account, DestroyCollection(a)
    PROVE  LedgerInv'
<1>1. /\ owned' = [owned EXCEPT ![a] = {}]
      /\ destroyed' = destroyed \cup owned[a]
      /\ totalSupply' = totalSupply
      /\ owned \in [Account -> SUBSET MomentId]
  BY DEF DestroyCollection, LedgerInv, LedgerTypeOK
<1>2. LedgerTypeOK'
  BY DEF LedgerInv, LedgerTypeOK, DestroyCollection, lockVars
<1>3. NothingOutsideStorage'
  BY <1>1 DEF LedgerInv, NothingOutsideStorage, DestroyCollection
<1>4. Disjoint(owned')
  BY <1>1 DEF LedgerInv, MomentConservation, Disjoint
<1>5. Held(owned') = Held(owned) \ owned[a]
  BY <1>1 DEF LedgerInv, MomentConservation, Disjoint, Held
<1>6. owned[a] \subseteq Held(owned)
  BY DEF Held
<1>7. /\ Held(owned') \cap destroyed' = {}
      /\ Held(owned') \cup destroyed' = 1 .. totalSupply'
  BY <1>1, <1>5, <1>6 DEF LedgerInv, MomentConservation
<1> QED BY <1>2, <1>3, <1>4, <1>7 DEF LedgerInv, MomentConservation

\* The new ids are above all that exist, so they are in no collection yet.
LEMMA BatchMintKeepsInv ==
    ASSUME LedgerInv, NEW a \in Account, NEW n \in BatchSizes,
           BatchMint(a, n)
    PROVE  LedgerInv'
<1> DEFINE new == totalSupply + 1 .. totalSupply + n
<1>1. /\ n \in Nat \ {0}
      /\ totalSupply \in Nat
      /\ totalSupply' = totalSupply + n
      /\ totalSupply' \in 0 .. MaxSupply
      /\ new \subseteq MomentId
  BY BatchAssumption, SupplyAssumption
     DEF LedgerInv, LedgerTypeOK, BatchMint, MomentId
<1>2. /\ 1 .. totalSupply' = (1 .. totalSupply) \cup new
      /\ (1 .. totalSupply) \cap new = {}
  BY <1>1
<1>3. /\ owned' = [owned EXCEPT ![a] = @ \cup new]
      /\ destroyed' = destroyed
      /\ a \in collectionStored
      /\ collectionStored' = collectionStored
      /\ owned \in [Account -> SUBSET MomentId]
  BY DEF BatchMint, PubliclyBorrowable, linkVars, LedgerInv, LedgerTypeOK
<1> HIDE DEF new
<1>4. LedgerTypeOK'
  BY <1>1, <1>3
     DEF LedgerInv, LedgerTypeOK, BatchMint, linkVars, lockVars
<1>5. NothingOutsideStorage'
  BY <1>3 DEF LedgerInv, NothingOutsideStorage
<1>6. /\ Disjoint(owned)
      /\ Held(owned) \cap destroyed = {}
      /\ Held(owned) \cup destroyed = 1 .. totalSupply
  BY DEF LedgerInv, MomentConservation
<1>7. \A b \in Account : owned[b] \cap new = {}
  BY <1>2, <1>6 DEF Held
<1>8. Disjoint(owned')
  BY <1>3, <1>6, <1>7 DEF Disjoint
<1>9. Held(owned') = Held(owned) \cup new
  BY <1>3 DEF Held
<1>10. MomentConservation'
  BY <1>2, <1>3, <1>6, <1>8, <1>9 DEF MomentConservation
<1> QED BY <1>4, <1>5, <1>10 DEF LedgerInv

\* Moving Moments between stored collections, by transfer or by swap.
LEMMA MoveKeepsInv ==
    ASSUME LedgerInv, NEW a \in Account, NEW b \in Account,
           NEW S \in SUBSET owned[a], b \in collectionStored
    PROVE  LET after == Moved(owned, a, b, S)
           IN  /\ after \in [Account -> SUBSET MomentId]
               /\ Disjoint(after)
               /\ Held(after) = Held(owned)
               /\ \A c \in Account \ collectionStored : after[c] = {}
<1> DEFINE after == Moved(owned, a, b, S)
<1>1. /\ owned \in [Account -> SUBSET MomentId]
      /\ Disjoint(owned)
      /\ \A c \in Account \ collectionStored : owned[c] = {}
  BY DEF LedgerInv, LedgerTypeOK, MomentConservation, NothingOutsideStorage
<1>2. /\ after \in [Account -> SUBSET MomentId]
      /\ a # b => after[a] = owned[a] \ S
      /\ \A c \in Account \ {a, b} : after[c] = owned[c]
  BY <1>1, MovedValue
<1>3. Disjoint(after) /\ Held(after) = Held(owned)
  BY <1>1, MovedConserves
<1> HIDE DEF after
<1>4. ASSUME NEW c \in Account \ collectionStored
      PROVE  after[c] = {}
  BY <1>1, <1>2
<1>5. /\ after \in [Account -> SUBSET MomentId]
      /\ Disjoint(after)
      /\ Held(after) = Held(owned)
      /\ \A c \in Account \ collectionStored : after[c] = {}
  BY <1>2, <1>3, <1>4
<1> QED BY <1>5 DEF after

LEMMA TransferKeepsInv ==
    ASSUME LedgerInv, NEW a \in Account, NEW b \in Account,
           NEW m \in MomentId, Transfer(a, b, m)
    PROVE  LedgerInv'
<1>1. /\ {m} \in SUBSET owned[a]
      /\ b \in collectionStored
      /\ owned' = Moved(owned, a, b, {m})
      /\ UNCHANGED << totalSupply, destroyed, collectionStored >>
  BY DEF Transfer, PubliclyBorrowable, linkVars
<1>2. /\ owned' \in [Account -> SUBSET MomentId]
      /\ Disjoint(owned')
      /\ Held(owned') = Held(owned)
      /\ \A c \in Account \ collectionStored : owned'[c] = {}
  BY <1>1, MoveKeepsInv
<1>3. LedgerTypeOK'
  BY <1>2 DEF LedgerInv, LedgerTypeOK, Transfer, linkVars, lockVars
<1>4. NothingOutsideStorage'
  BY <1>1, <1>2 DEF NothingOutsideStorage
<1>5. MomentConservation'
  BY <1>1, <1>2 DEF LedgerInv, MomentConservation
<1> QED BY <1>3, <1>4, <1>5 DEF LedgerInv

\* Locking, unlocking and the clock do not touch the holdings.
LEMMA LockKeepsInv ==
    ASSUME LedgerInv, NEW a \in Account, NEW m \in MomentId,
           NEW d \in LockDurations, Lock(a, m, d)
    PROVE  LedgerInv'
<1>1. timestamp + d \in Nat
  BY LockAssumption DEF LedgerInv, LedgerTypeOK
<1>2. LedgerTypeOK'
  BY <1>1 DEF LedgerInv, LedgerTypeOK, Lock, linkVars
<1> QED BY <1>2, SameHoldings DEF Lock, linkVars

LEMMA UnlockKeepsInv ==
    ASSUME LedgerInv, NEW a \in Account, NEW m \in MomentId, Unlock(a, m)
    PROVE  LedgerInv'
<1>1. LedgerTypeOK'
  BY DEF LedgerInv, LedgerTypeOK, Unlock, linkVars
<1> QED BY <1>1, SameHoldings DEF Unlock, linkVars

LEMMA MarkKeepsInv ==
    ASSUME LedgerInv, NEW m \in MomentId, MarkNFTUnlockable(m)
    PROVE  LedgerInv'
<1>1. LedgerTypeOK'
  BY DEF LedgerInv, LedgerTypeOK, MarkNFTUnlockable, linkVars
<1> QED BY <1>1, SameHoldings DEF MarkNFTUnlockable, linkVars

LEMMA UnlockAllKeepsInv ==
    ASSUME LedgerInv, UnlockAll
    PROVE  LedgerInv'
<1>1. LedgerTypeOK'
  BY DEF LedgerInv, LedgerTypeOK, UnlockAll, linkVars
<1> QED BY <1>1, SameHoldings DEF UnlockAll, linkVars

LEMMA TickKeepsInv ==
    ASSUME LedgerInv, Tick
    PROVE  LedgerInv'
<1>1. timestamp' \in Nat
  BY ClockAssumption DEF LedgerInv, LedgerTypeOK, Tick
<1>2. LedgerTypeOK'
  BY <1>1 DEF LedgerInv, LedgerTypeOK, Tick, linkVars, lockVars
<1> QED BY <1>2, SameHoldings DEF Tick, linkVars

\* All of them together.
LEMMA LedgerNextKeepsInv ==
    ASSUME LedgerInv, LedgerNext
    PROVE  LedgerInv'
BY WalletSetupKeepsInv, RevokeProviderKeepsInv, DestroyCollectionKeepsInv,
   BatchMintKeepsInv, TransferKeepsInv, LockKeepsInv, UnlockKeepsInv,
   MarkKeepsInv, UnlockAllKeepsInv, TickKeepsInv
   DEF LedgerNext

LEMMA StutterKeepsInv ==
    ASSUME LedgerInv, UNCHANGED ledgerVars
    PROVE  LedgerInv'
<1>1. LedgerTypeOK'
  BY DEF LedgerInv, LedgerTypeOK, ledgerVars
<1> QED BY <1>1, SameHoldings DEF ledgerVars
-----------------------------------------------------------------------------
(***************************************************************************)
(* The theorems about the ledger.                                          *)
(***************************************************************************)

\* The inductive invariant holds of the ledger by itself.
THEOREM LedgerInvariance == Spec => []LedgerInv
<1>1. Init => LedgerInv
  BY InitLedgerInv
<1>2. LedgerInv /\ [Next]_ledgerVars => LedgerInv'
  <2> SUFFICES ASSUME LedgerInv, [Next]_ledgerVars
               PROVE  LedgerInv'
    OBVIOUS
  <2>1. CASE LedgerNext
    BY <2>1, LedgerNextKeepsInv
  <2>2. ASSUME NEW a \in Account, SetupAccount(a)
        PROVE  LedgerInv'
    BY <2>2, SetupKeepsInv DEF SetupAccount
  <2>3. CASE UNCHANGED ledgerVars
    BY <2>3, StutterKeepsInv
  <2> QED BY <2>1, <2>2, <2>3 DEF Next
<1> QED BY <1>1, <1>2, PTL DEF Spec

\* Type correctness of the ledger.
THEOREM LedgerTypeCorrect == Spec => []LedgerTypeOK
<1>1. LedgerInv => LedgerTypeOK
  BY DEF LedgerInv
<1> QED BY <1>1, LedgerInvariance, PTL

\* Every Moment ever minted is in exactly one collection or was destroyed by
\* its owner.
THEOREM Conservation == Spec => []MomentConservation
<1>1. LedgerInv => MomentConservation
  BY DEF LedgerInv
<1> QED BY <1>1, LedgerInvariance, PTL

\* A locked Moment leaves its collection only by being destroyed with it.
THEOREM LockedStay == Spec => LockedMomentsStayPut
<1> DEFINE Stays == \A a \in Account : \A m \in owned[a] :
                       IsLocked(m) => m \in owned'[a] \/ m \in destroyed'
<1>1. LedgerInv /\ [Next]_ledgerVars => [Stays]_ledgerVars
  <2> SUFFICES ASSUME LedgerInv, Next,
                      NEW a \in Account, NEW m \in owned[a], IsLocked(m)
               PROVE  m \in owned'[a] \/ m \in destroyed'
    OBVIOUS
  <2>1. owned \in [Account -> SUBSET MomentId]
    BY DEF LedgerInv, LedgerTypeOK
  <2>2. CASE owned' = owned
    BY <2>2
  <2>3. ASSUME NEW b \in Account, DestroyCollection(b)
        PROVE  m \in owned'[a] \/ m \in destroyed'
    BY <2>1, <2>3 DEF DestroyCollection
  <2>4. ASSUME NEW b \in Account, NEW n \in BatchSizes, BatchMint(b, n)
        PROVE  m \in owned'[a]
    BY <2>1, <2>4 DEF BatchMint
  <2>5. ASSUME NEW b \in Account, NEW c \in Account, NEW n \in MomentId,
               Transfer(b, c, n)
        PROVE  m \in owned'[a]
    BY <2>1, <2>5 DEF Transfer, Moved
  <2>6. \/ owned' = owned
        \/ \E b \in Account : DestroyCollection(b)
        \/ \E b \in Account, n \in BatchSizes : BatchMint(b, n)
        \/ \E b, c \in Account, n \in MomentId : Transfer(b, c, n)
    BY DEF Next, LedgerNext, SetupAccount, WalletSetup, RevokeProvider, Lock,
           Unlock, MarkNFTUnlockable, UnlockAll, Tick
  <2> QED BY <2>2, <2>3, <2>4, <2>5, <2>6
<1>2. Spec => [][Stays]_ledgerVars
  BY <1>1, LedgerInvariance, PTL DEF Spec
<1> QED BY <1>2 DEF LockedMomentsStayPut

\* What LocksAreHonoured says of one step.
LocksHonoured ==
    \A m \in MomentId :
       IsLocked(m) /\ lockedNFTs'[m] # lockedNFTs[m] =>
          /\ lockedNFTs'[m] = NotLocked
          /\ \/ timestamp >= lockedNFTs[m]
             \/ m \in unlockableNFTs
             \/ UnlockAll

\* Only Collection.lock, Collection.unlock and Admin.unlockAll touch locks,
\* the first of them none that stands.
LEMMA LedgerStepHonoursLocks == LedgerTypeOK /\ LedgerNext => LocksHonoured
<1> SUFFICES ASSUME LedgerTypeOK, LedgerNext,
                    NEW m \in MomentId, IsLocked(m),
                    lockedNFTs'[m] # lockedNFTs[m]
             PROVE  /\ lockedNFTs'[m] = NotLocked
                    /\ \/ timestamp >= lockedNFTs[m]
                       \/ m \in unlockableNFTs
                       \/ UnlockAll
  BY DEF LocksHonoured
<1>1. lockedNFTs \in [MomentId -> Nat \cup {NotLocked}]
  BY DEF LedgerTypeOK
<1>2. ASSUME NEW a \in Account, NEW n \in MomentId, NEW d \in LockDurations,
             Lock(a, n, d)
      PROVE  FALSE
  BY <1>1, <1>2 DEF Lock, IsLocked
<1>3. ASSUME NEW a \in Account, NEW n \in MomentId, Unlock(a, n)
      PROVE  /\ lockedNFTs'[m] = NotLocked
             /\ timestamp >= lockedNFTs[m] \/ m \in unlockableNFTs
  BY <1>1, <1>3 DEF Unlock
<1>4. UnlockAll => lockedNFTs'[m] = NotLocked
  BY DEF UnlockAll
<1>5. \/ \E a \in Account, n \in MomentId, d \in LockDurations : Lock(a, n, d)
      \/ \E a \in Account, n \in MomentId : Unlock(a, n)
      \/ UnlockAll
  BY DEF LedgerNext, WalletSetup, RevokeProvider, DestroyCollection,
         BatchMint, Transfer, MarkNFTUnlockable, Tick, lockVars
<1> QED BY <1>2, <1>3, <1>4, <1>5

\* A lock stands until its time or an admin's override, for any durations.
THEOREM LocksStand == Spec => LocksAreHonoured
<1>1. LedgerInv /\ [Next]_ledgerVars => [LocksHonoured]_ledgerVars
  <2> SUFFICES ASSUME LedgerInv, Next
               PROVE  LocksHonoured
    OBVIOUS
  <2>1. CASE LedgerNext
    BY <2>1, LedgerStepHonoursLocks DEF LedgerInv
  <2>2. CASE \E a \in Account : SetupAccount(a)
    BY <2>2 DEF SetupAccount, lockVars, LocksHonoured
  <2> QED BY <2>1, <2>2 DEF Next
<1>2. Spec => [][LocksHonoured]_ledgerVars
  BY <1>1, LedgerInvariance, PTL DEF Spec
<1> QED BY <1>2 DEF LocksAreHonoured, LocksHonoured
-----------------------------------------------------------------------------
(***************************************************************************)
(* The effect of a swap.                                                   *)
(***************************************************************************)

\* What the fields of a stored proposal are.
LEMMA ProposalFields ==
    ASSUME SwapInv, NEW left \in Account, NEW p \in swapProposals[left]
    PROVE  /\ p \in Proposal
           /\ p.left = left
           /\ p.left \in Account /\ p.right \in Account
           /\ p.leftNfts \in Seq(MomentId) /\ p.rightNfts \in Seq(MomentId)
           /\ Range(p.leftNfts) \subseteq MomentId
           /\ Range(p.rightNfts) \subseteq MomentId
           /\ p.expiration \in Nat
<1>1. p \in Proposal /\ p.left = left
  BY DEF SwapInv, SwapTypeOK
<1>2. /\ p.leftNfts \in Seq(MomentId) /\ p.rightNfts \in Seq(MomentId)
      /\ p.left \in Account /\ p.right \in Account
      /\ p.expiration \in Nat
  BY <1>1, OfferAssumption DEF Proposal
<1>3. ASSUME NEW s \in Seq(MomentId) PROVE Range(s) \subseteq MomentId
  BY DEF Range
<1> QED BY <1>1, <1>2, <1>3

\* An executed proposal was accepted by the user it names, who like the
\* proposer had what the proposal says.
LEMMA AcceptedProposal ==
    ASSUME SwapInv, NEW signer \in Account, NEW left \in Account,
           NEW p \in swapProposals[left], AcceptTrade(signer, left, p)
    PROVE  /\ signer = p.right
           /\ Range(p.leftNfts) \in SUBSET owned[p.left]
           /\ Range(p.rightNfts) \in SUBSET owned[p.right]
           /\ p.left \in collectionStored
           /\ p.right \in collectionStored
           /\ timestamp <= p.expiration
           /\ p.left \in providerLink \cup {signer}
           /\ owned' = Swapped(owned, p, p.right)
           /\ UNCHANGED << totalSupply, collectionStored, publicLink,
                           lockedNFTs, unlockableNFTs, timestamp, destroyed >>
           /\ UNCHANGED swapVars
           /\ \A m \in Range(p.leftNfts) \cup Range(p.rightNfts) :
                 ~ IsLocked(m)
BY DEF AcceptTrade, CanExecute, OwnsOffer, HasCapabilities, Withdrawable,
       PubliclyBorrowable, lockVars, swapVars

\* Where everything is after a swap between two users, and after one with
\* oneself.
LEMMA SwappedValue ==
    ASSUME NEW holdings \in [Account -> SUBSET MomentId],
           NEW p, p.left \in Account, p.right \in Account,
           Range(p.leftNfts) \in SUBSET holdings[p.left],
           Range(p.rightNfts) \in SUBSET holdings[p.right],
           Disjoint(holdings)
    PROVE  LET after == Swapped(holdings, p, p.right)
           IN  /\ after \in [Account -> SUBSET MomentId]
               /\ Disjoint(after)
               /\ Held(after) = Held(holdings)
               /\ p.left = p.right => after = holdings
               /\ p.left # p.right =>
                    /\ after[p.left] = (holdings[p.left]
                         \ Range(p.leftNfts)) \cup Range(p.rightNfts)
                    /\ after[p.right] = (holdings[p.right]
                         \ Range(p.rightNfts)) \cup Range(p.leftNfts)
               /\ \A a \in Account \ {p.left, p.right} :
                    after[a] = holdings[a]
<1> DEFINE L == Range(p.leftNfts)
           R == Range(p.rightNfts)
           mid == Moved(holdings, p.left, p.right, L)
           after == Moved(mid, p.right, p.left, R)
<1>1. /\ mid \in [Account -> SUBSET MomentId]
      /\ mid[p.right] = holdings[p.right] \cup L
      /\ p.left # p.right => mid[p.left] = holdings[p.left] \ L
      /\ \A a \in Account \ {p.left, p.right} : mid[a] = holdings[a]
  BY MovedValue
<1>2. Disjoint(mid) /\ Held(mid) = Held(holdings)
  BY MovedConserves
<1>3. R \in SUBSET mid[p.right]
  BY <1>1
<1> HIDE DEF mid, L, R
<1>4. /\ after \in [Account -> SUBSET MomentId]
      /\ after[p.left] = mid[p.left] \cup R
      /\ p.left # p.right => after[p.right] = mid[p.right] \ R
      /\ \A a \in Account \ {p.left, p.right} : after[a] = mid[a]
  BY <1>1, <1>3, MovedValue
<1>5. Disjoint(after) /\ Held(after) = Held(mid)
  BY <1>1, <1>2, <1>3, MovedConserves
<1> HIDE DEF after
<1>6. L \subseteq holdings[p.left] /\ R \subseteq holdings[p.right]
  BY DEF L, R
<1>7. p.left = p.right => after = holdings
  <2> SUFFICES ASSUME p.left = p.right PROVE after = holdings
    OBVIOUS
  <2>1. after[p.left] = holdings[p.left]
    BY <1>1, <1>4, <1>6
  <2>2. \A a \in Account : after[a] = holdings[a]
    BY <1>1, <1>4, <2>1
  <2> QED BY <1>4, <2>2
<1>8. p.left # p.right =>
         /\ after[p.left] = (holdings[p.left] \ L) \cup R
         /\ after[p.right] = (holdings[p.right] \ R) \cup L
  <2> SUFFICES ASSUME p.left # p.right
               PROVE  /\ after[p.left] = (holdings[p.left] \ L) \cup R
                      /\ after[p.right] = (holdings[p.right] \ R) \cup L
    OBVIOUS
  <2>1. holdings[p.left] \cap holdings[p.right] = {}
    BY DEF Disjoint
  <2>2. L \cap R = {}
    BY <1>6, <2>1
  <2> QED BY <1>1, <1>4, <2>2
<1>9. /\ after \in [Account -> SUBSET MomentId]
      /\ Disjoint(after) /\ Held(after) = Held(holdings)
      /\ \A a \in Account \ {p.left, p.right} : after[a] = holdings[a]
  BY <1>1, <1>2, <1>4, <1>5
<1> QED BY <1>7, <1>8, <1>9 DEF Swapped, after, mid, L, R
-----------------------------------------------------------------------------
(***************************************************************************)
(* Every transaction keeps SwapInv.                                        *)
(***************************************************************************)

LEMMA InitSwapInv == SwapInit => SwapInv
<1> SUFFICES ASSUME SwapInit PROVE SwapInv
  OBVIOUS
<1>1. LedgerInv
  BY InitLedgerInv DEF SwapInit
<1> QED BY <1>1 DEF SwapInit, SwapInv, SwapTypeOK, LedgerInv

\* A trade keeps the ledger's invariant: this is where a swap could lose or
\* copy a Moment.
LEMMA AcceptTradeKeepsInv ==
    ASSUME SwapInv, NEW signer \in Account, NEW left \in Account,
           NEW p \in swapProposals[left], AcceptTrade(signer, left, p)
    PROVE  SwapInv'
<1>1. p.left \in Account /\ p.right \in Account
  BY ProposalFields
<1>2. /\ owned \in [Account -> SUBSET MomentId]
      /\ Disjoint(owned)
  BY DEF SwapInv, LedgerInv, LedgerTypeOK, MomentConservation
<1>3. /\ Range(p.leftNfts) \in SUBSET owned[p.left]
      /\ Range(p.rightNfts) \in SUBSET owned[p.right]
      /\ p.left \in collectionStored /\ p.right \in collectionStored
      /\ owned' = Swapped(owned, p, p.right)
      /\ UNCHANGED << totalSupply, collectionStored, destroyed >>
  BY AcceptedProposal
<1>4. /\ owned' \in [Account -> SUBSET MomentId]
      /\ Disjoint(owned')
      /\ Held(owned') = Held(owned)
      /\ \A a \in Account \ {p.left, p.right} : owned'[a] = owned[a]
  BY <1>1, <1>2, <1>3, SwappedValue
<1>5. LedgerTypeOK'
  BY <1>4 DEF SwapInv, LedgerInv, LedgerTypeOK, AcceptTrade, lockVars
<1>6. NothingOutsideStorage'
  BY <1>3, <1>4 DEF SwapInv, LedgerInv, NothingOutsideStorage
<1>7. MomentConservation'
  BY <1>3, <1>4 DEF SwapInv, LedgerInv, MomentConservation
<1>8. UNCHANGED swapVars
  BY AcceptedProposal
<1>9. proposalExecuted' \subseteq Proposal
  BY ProposalFields DEF AcceptTrade
<1> QED BY <1>5, <1>6, <1>7, <1>8, <1>9
        DEF SwapInv, SwapTypeOK, LedgerInv, swapVars

LEMMA CreateProposalKeepsInv ==
    ASSUME SwapInv, NEW left \in Account, NEW right \in Account,
           NEW leftNfts \in OfferLists, NEW rightNfts \in OfferLists,
           NEW minutes \in Nat,
           CreateProposal(left, right, leftNfts, rightNfts, minutes)
    PROVE  SwapInv'
<1>1. PICK id \in ProposalId \ { p.id : p \in swapProposals[left] } :
         swapProposals' = [swapProposals EXCEPT ![left] = @ \cup {
              [ id |-> id, left |-> left, leftNfts |-> leftNfts,
                right |-> right, rightNfts |-> rightNfts,
                expiration |-> timestamp + minutes * 1000 * 60,
                createdAt |-> timestamp ] }]
  BY DEF CreateProposal
<1> DEFINE new == [ id |-> id, left |-> left, leftNfts |-> leftNfts,
                    right |-> right, rightNfts |-> rightNfts,
                    expiration |-> timestamp + minutes * 1000 * 60,
                    createdAt |-> timestamp ]
<1>2. timestamp \in Nat /\ minutes \in Nat
  BY DEF SwapInv, LedgerInv, LedgerTypeOK
<1>3. new \in Proposal /\ new.left = left /\ new.id = id
  BY <1>2 DEF Proposal
<1> HIDE DEF new
<1>4. /\ swapProposals \in [Account -> SUBSET Proposal]
      /\ \A a \in Account : \A p, q \in swapProposals[a] :
            p.left = a /\ (p.id = q.id => p = q)
  BY DEF SwapInv, SwapTypeOK
<1>5. swapProposals' = [swapProposals EXCEPT ![left] = @ \cup {new}]
  BY <1>1 DEF new
<1>6. \A p \in swapProposals[left] : p.id # new.id
  BY <1>1, <1>3
<1>7. /\ swapProposals' \in [Account -> SUBSET Proposal]
      /\ swapProposals'[left] = swapProposals[left] \cup {new}
      /\ \A a \in Account \ {left} : swapProposals'[a] = swapProposals[a]
  BY <1>3, <1>4, <1>5
<1>8. ASSUME NEW a \in Account, NEW p \in swapProposals'[a],
             NEW q \in swapProposals'[a]
      PROVE  p.left = a /\ (p.id = q.id => p = q)
  <2>1. CASE a # left
    BY <1>4, <1>7, <2>1
  <2>2. CASE a = left
    <3>1. p.left = a
      BY <1>3, <1>4, <1>7, <2>2
    <3>2. p.id = q.id => p = q
      BY <1>4, <1>6, <1>7, <2>2
    <3> QED BY <3>1, <3>2
  <2> QED BY <2>1, <2>2
<1>9. LedgerTypeOK'
  BY DEF SwapInv, LedgerInv, LedgerTypeOK, CreateProposal, lockVars
<1>10. LedgerInv'
  BY <1>9, SameHoldings DEF SwapInv, CreateProposal
<1>11. /\ swapStored' \subseteq Account
       /\ swapManagerLink' \subseteq Account
       /\ swapPublicLink' \in [Account -> SUBSET SwapInterface]
       /\ allowCreation' \in BOOLEAN
       /\ proposalExecuted' \subseteq Proposal
  BY DEF SwapInv, SwapTypeOK, CreateProposal, SwapInterface
<1> QED BY <1>7, <1>8, <1>9, <1>10, <1>11 DEF SwapInv, SwapTypeOK

LEMMA DeleteProposalKeepsInv ==
    ASSUME SwapInv, NEW left \in Account, NEW id \in ProposalId,
           DeleteProposal(left, id)
    PROVE  SwapInv'
<1>1. LedgerInv'
  BY StutterKeepsInv DEF SwapInv, DeleteProposal
<1>2. /\ swapProposals \in [Account -> SUBSET Proposal]
      /\ swapProposals' = [swapProposals EXCEPT
                              ![left] = { p \in @ : p.id # id }]
      /\ \A a \in Account : \A p, q \in swapProposals[a] :
            p.left = a /\ (p.id = q.id => p = q)
  BY DEF SwapInv, SwapTypeOK, DeleteProposal
<1>3. /\ swapProposals' \in [Account -> SUBSET Proposal]
      /\ \A a \in Account : swapProposals'[a] \subseteq swapProposals[a]
  BY <1>2
<1>4. \A a \in Account : \A p, q \in swapProposals'[a] :
         p.left = a /\ (p.id = q.id => p = q)
  BY <1>2, <1>3
<1> QED BY <1>1, <1>3, <1>4
        DEF SwapInv, SwapTypeOK, DeleteProposal, LedgerInv

LEMMA OtherTransactionsKeepInv ==
    ASSUME SwapInv, OtherTransactions
    PROVE  SwapInv'
<1>1. CASE LedgerNext /\ UNCHANGED swapVars /\ proposalExecuted' = {}
  <2>1. LedgerInv'
    BY <1>1, LedgerNextKeepsInv DEF SwapInv
  <2> QED BY <1>1, <2>1 DEF SwapInv, SwapTypeOK, LedgerInv, swapVars
<1>2. ASSUME NEW a \in Account, SwapSetupAccount(a)
      PROVE  SwapInv'
  <2>1. LedgerInv'
    BY <1>2, SetupKeepsInv DEF SwapInv, SwapSetupAccount
  <2> QED BY <1>2, <2>1
          DEF SwapInv, SwapTypeOK, LedgerInv, SwapSetupAccount
<1>3. ASSUME NEW allowed \in BOOLEAN, SetProposalCreation(allowed)
      PROVE  SwapInv'
  <2>1. LedgerInv'
    BY <1>3, StutterKeepsInv DEF SwapInv, SetProposalCreation
  <2> QED BY <1>3, <2>1
          DEF SwapInv, SwapTypeOK, LedgerInv, SetProposalCreation
<1> QED BY <1>1, <1>2, <1>3 DEF OtherTransactions
-----------------------------------------------------------------------------
(***************************************************************************)
(* The theorems about the swap contract.                                   *)
(***************************************************************************)

\* Every step keeps the invariant of the swap contract and its ledger.
LEMMA StepKeepsSwapInv == SwapInv /\ [SwapNext]_vars => SwapInv'
<1> SUFFICES ASSUME SwapInv, [SwapNext]_vars
             PROVE  SwapInv'
  OBVIOUS
<1>1. CASE OtherTransactions
  BY <1>1, OtherTransactionsKeepInv
<1>2. ASSUME NEW left \in Account, NEW right \in Account,
             NEW leftNfts \in OfferLists, NEW rightNfts \in OfferLists,
             NEW minutes \in OffsetMinutes,
             CreateProposal(left, right, leftNfts, rightNfts, minutes)
      PROVE  SwapInv'
  BY <1>2, OffsetAssumption, CreateProposalKeepsInv
<1>3. ASSUME NEW signer \in Account, NEW left \in Account,
             NEW p \in swapProposals[left], AcceptTrade(signer, left, p)
      PROVE  SwapInv'
  BY <1>3, AcceptTradeKeepsInv
<1>4. ASSUME NEW left \in Account, NEW id \in ProposalId,
             DeleteProposal(left, id)
      PROVE  SwapInv'
  BY <1>4, DeleteProposalKeepsInv
<1>5. CASE UNCHANGED vars
  <2>1. LedgerInv'
    BY <1>5, StutterKeepsInv DEF SwapInv, vars
  <2> QED BY <1>5, <2>1 DEF SwapInv, SwapTypeOK, LedgerInv, vars, swapVars
<1> QED BY <1>1, <1>2, <1>3, <1>4, <1>5 DEF SwapNext

\* The inductive invariant of the swap contract and its ledger.
THEOREM SwapInvariance == SwapSpec => []SwapInv
<1>1. SwapInit => SwapInv
  BY InitSwapInv
<1> QED BY <1>1, StepKeepsSwapInv, PTL DEF SwapSpec

\* Type correctness of the swap contract and its ledger; in particular a
\* proposal id names one proposal of its account.
THEOREM SwapTypeCorrect == SwapSpec => []SwapTypeOK
<1>1. SwapInv => SwapTypeOK
  BY DEF SwapInv
<1> QED BY <1>1, SwapInvariance, PTL

\* Swaps conserve Moments: none is lost, copied or created by trading.
THEOREM SwapsConserve == SwapSpec => []MomentConservation
<1>1. SwapInv => MomentConservation
  BY DEF SwapInv, LedgerInv
<1> QED BY <1>1, SwapInvariance, PTL

\* Which steps change the holdings.
LEMMA HoldingsChange ==
    ASSUME SwapNext
    PROVE  \/ owned' = owned
           \/ \E b \in Account : DestroyCollection(b)
           \/ \E b \in Account, n \in BatchSizes : BatchMint(b, n)
           \/ \E b, c \in Account, n \in MomentId : Transfer(b, c, n)
           \/ \E signer, left \in Account : \E p \in swapProposals[left] :
                 AcceptTrade(signer, left, p)
<1>1. CASE LedgerNext
  BY <1>1 DEF LedgerNext, WalletSetup, RevokeProvider, Lock, Unlock,
              MarkNFTUnlockable, UnlockAll, Tick
<1>2. CASE \E a \in Account : SwapSetupAccount(a)
  BY <1>2 DEF SwapSetupAccount
<1>3. CASE \E allowed \in BOOLEAN : SetProposalCreation(allowed)
  BY <1>3 DEF SetProposalCreation, ledgerVars
<1>4. CASE \E left, right \in Account, leftNfts, rightNfts \in OfferLists,
             minutes \in OffsetMinutes :
             CreateProposal(left, right, leftNfts, rightNfts, minutes)
  BY <1>4 DEF CreateProposal
<1>5. CASE \E left \in Account, id \in ProposalId : DeleteProposal(left, id)
  BY <1>5 DEF DeleteProposal, ledgerVars
<1> QED BY <1>1, <1>2, <1>3, <1>4, <1>5 DEF SwapNext, OtherTransactions

\* The holdings of both users of an executed proposal, and of all others.
LEMMA AcceptedHoldings ==
    ASSUME SwapInv, NEW signer \in Account, NEW left \in Account,
           NEW p \in swapProposals[left], AcceptTrade(signer, left, p)
    PROVE  /\ p.left = p.right => owned' = owned
           /\ p.left # p.right =>
                /\ owned'[p.left] = (owned[p.left]
                      \ Range(p.leftNfts)) \cup Range(p.rightNfts)
                /\ owned'[p.right] = (owned[p.right]
                      \ Range(p.rightNfts)) \cup Range(p.leftNfts)
           /\ \A a \in Account \ {p.left, p.right} : owned'[a] = owned[a]
<1>1. p.left \in Account /\ p.right \in Account
  BY ProposalFields
<1>2. /\ owned \in [Account -> SUBSET MomentId]
      /\ Disjoint(owned)
  BY DEF SwapInv, LedgerInv, LedgerTypeOK, MomentConservation
<1>3. /\ Range(p.leftNfts) \in SUBSET owned[p.left]
      /\ Range(p.rightNfts) \in SUBSET owned[p.right]
      /\ owned' = Swapped(owned, p, p.right)
  BY AcceptedProposal
<1> QED BY <1>1, <1>2, <1>3, SwappedValue

\* Nobody parts with a Moment without having agreed to.
THEOREM Consent == SwapSpec => MovesAreConsented
<1> DEFINE Settled(a, m) ==
             \E p \in AllProposals :
                /\ m \in Promised(p, a)
                /\ timestamp <= p.expiration
                /\ p.left \in providerLink
                /\ AcceptTrade(p.right, p.left, p)
                /\ Range(p.leftNfts) \subseteq owned'[p.right]
                /\ Range(p.rightNfts) \subseteq owned'[p.left]
           Agreed(a, m) ==
             \/ DestroyCollection(a)
             \/ \E b \in Account : Transfer(a, b, m)
             \/ Settled(a, m)
           Consented == \A a \in Account : \A m \in owned[a] \ owned'[a] :
                           Agreed(a, m)
<1>1. SwapInv /\ [SwapNext]_vars => [Consented]_vars
  <2> SUFFICES ASSUME SwapInv, SwapNext,
                      NEW a \in Account, NEW m \in owned[a] \ owned'[a]
               PROVE  Agreed(a, m)
    OBVIOUS
  <2>1. /\ owned \in [Account -> SUBSET MomentId]
        /\ m \in MomentId
    BY DEF SwapInv, LedgerInv, LedgerTypeOK
  <2>2. ASSUME NEW b \in Account, DestroyCollection(b)
        PROVE  DestroyCollection(a)
    BY <2>1, <2>2 DEF DestroyCollection
  <2>3. ASSUME NEW b \in Account, NEW n \in BatchSizes, BatchMint(b, n)
        PROVE  FALSE
    BY <2>1, <2>3 DEF BatchMint
  <2>4. ASSUME NEW b \in Account, NEW c \in Account, NEW n \in MomentId,
               Transfer(b, c, n)
        PROVE  Transfer(a, c, m)
    <3>1. a = b /\ m = n
      BY <2>1, <2>4 DEF Transfer, Moved
    <3> QED BY <2>4, <3>1
  <2>5. ASSUME NEW signer \in Account, NEW left \in Account,
               NEW p \in swapProposals[left], AcceptTrade(signer, left, p)
        PROVE  Settled(a, m)
    <3> HIDE DEF Settled
    <3>a. p.left = left
      BY ProposalFields
    <3>b. signer = p.right
      BY <2>5, AcceptedProposal
    <3>c. p.left # p.right
      BY <2>5, AcceptedHoldings
    <3>d. p \in AllProposals
      BY DEF AllProposals
    <3>1. /\ p.left = left /\ signer = p.right
          /\ p.left # p.right
          /\ p \in AllProposals
      BY <3>a, <3>b, <3>c, <3>d
    <3>2. /\ owned'[p.left] = (owned[p.left]
                \ Range(p.leftNfts)) \cup Range(p.rightNfts)
          /\ owned'[p.right] = (owned[p.right]
                \ Range(p.rightNfts)) \cup Range(p.leftNfts)
          /\ a \in {p.left, p.right}
      BY <2>5, <3>1, AcceptedHoldings
    <3>3. m \in Promised(p, a)
      BY <2>1, <3>2 DEF Promised
    <3>4. timestamp <= p.expiration /\ p.left \in providerLink
      BY <2>5, <3>1, AcceptedProposal, ProposalFields
         DEF AcceptTrade, CanExecute
    <3>5. AcceptTrade(p.right, p.left, p)
      BY <2>5, <3>1
    <3> QED BY <3>1, <3>2, <3>3, <3>4, <3>5 DEF Settled
  <2> QED BY <2>2, <2>3, <2>4, <2>5, HoldingsChange
<1>2. SwapSpec => [][Consented]_vars
  BY <1>1, SwapInvariance, PTL DEF SwapSpec
<1> QED BY <1>2 DEF MovesAreConsented

\* What NoDoubleSpend says of one step.
SpentNow ==
    \A p \in AllProposals :
       p.left # p.right /\ AcceptTrade(p.right, p.left, p) =>
          \A q \in AllProposals, a \in {p.left, p.right} :
             Promised(p, a) \cap Promised(q, a) # {} =>
                ~ CanExecute(q, q.right)'

\* In a state of the invariant an executed proposal has spent its Moments.
LEMMA AcceptedIsSpent == SwapInv => SpentNow
<1> SUFFICES ASSUME SwapInv,
                    NEW p \in AllProposals, NEW q \in AllProposals,
                    p.left # p.right, AcceptTrade(p.right, p.left, p),
                    NEW a \in {p.left, p.right},
                    NEW m \in Promised(p, a) \cap Promised(q, a),
                    CanExecute(q, q.right)'
             PROVE  FALSE
  BY DEF SpentNow
<1>1. PICK left \in Account : p \in swapProposals[left]
  BY DEF AllProposals
<1>2. p.left = left /\ p.left \in Account /\ p.right \in Account
  BY <1>1, ProposalFields
<1>3. /\ Range(p.leftNfts) \in SUBSET owned[p.left]
      /\ Range(p.rightNfts) \in SUBSET owned[p.right]
  BY <1>1, <1>2, AcceptedProposal
<1>4. /\ owned'[p.left] = (owned[p.left]
            \ Range(p.leftNfts)) \cup Range(p.rightNfts)
      /\ owned'[p.right] = (owned[p.right]
            \ Range(p.rightNfts)) \cup Range(p.leftNfts)
  BY <1>1, <1>2, AcceptedHoldings
<1>5. owned[p.left] \cap owned[p.right] = {}
  BY <1>2 DEF SwapInv, LedgerInv, MomentConservation, Disjoint
<1>6. m \notin owned'[a]
  BY <1>3, <1>4, <1>5 DEF Promised
<1>7. /\ Range(q.leftNfts) \subseteq owned'[q.left]
      /\ Range(q.rightNfts) \subseteq owned'[q.right]
  BY DEF CanExecute, OwnsOffer
<1>8. m \in owned'[a]
  BY <1>7 DEF Promised
<1> QED BY <1>6, <1>8

\* A Moment is not spent twice.
THEOREM SpentOnce == SwapSpec => NoDoubleSpend
<1>1. SwapSpec => [][SpentNow]_vars
  BY AcceptedIsSpent, SwapInvariance, PTL DEF SwapSpec
<1> QED BY <1>1 DEF NoDoubleSpend, SpentNow

\* What LockedMomentsStayPut says of one step.
LockedStayPut ==
    \A a \in Account : \A m \in owned[a] :
       IsLocked(m) => m \in owned'[a] \/ m \in destroyed'

\* No step of the swap contract moves a locked Moment.
LEMMA StepKeepsLocked ==
    SwapInv /\ [SwapNext]_vars => [LockedStayPut]_ledgerVars
<1> SUFFICES ASSUME SwapInv, [SwapNext]_vars, ledgerVars' # ledgerVars,
                    NEW a \in Account, NEW m \in owned[a], IsLocked(m)
             PROVE  m \in owned'[a] \/ m \in destroyed'
  BY DEF LockedStayPut
<1>1. SwapNext
  BY DEF vars
<1>2. owned \in [Account -> SUBSET MomentId]
  BY DEF SwapInv, LedgerInv, LedgerTypeOK
<1>3. CASE owned' = owned
  BY <1>3
<1>4. ASSUME NEW b \in Account, DestroyCollection(b)
      PROVE  m \in owned'[a] \/ m \in destroyed'
  BY <1>2, <1>4 DEF DestroyCollection
<1>5. ASSUME NEW b \in Account, NEW n \in BatchSizes, BatchMint(b, n)
      PROVE  m \in owned'[a]
  BY <1>2, <1>5 DEF BatchMint
<1>6. ASSUME NEW b \in Account, NEW c \in Account, NEW n \in MomentId,
             Transfer(b, c, n)
      PROVE  m \in owned'[a]
  BY <1>2, <1>6 DEF Transfer, Moved
<1>7. ASSUME NEW signer \in Account, NEW left \in Account,
             NEW p \in swapProposals[left], AcceptTrade(signer, left, p)
      PROVE  m \in owned'[a]
  <2>1. m \notin Range(p.leftNfts) \cup Range(p.rightNfts)
    BY <1>7, AcceptedProposal
  <2>2. /\ p.left = p.right => owned' = owned
        /\ p.left # p.right =>
             /\ owned'[p.left] = (owned[p.left]
                   \ Range(p.leftNfts)) \cup Range(p.rightNfts)
             /\ owned'[p.right] = (owned[p.right]
                   \ Range(p.rightNfts)) \cup Range(p.leftNfts)
        /\ \A b \in Account \ {p.left, p.right} : owned'[b] = owned[b]
    BY <1>7, AcceptedHoldings
  <2> QED BY <2>1, <2>2
<1> QED BY <1>1, <1>3, <1>4, <1>5, <1>6, <1>7, HoldingsChange

\* A swap does not move a locked Moment either.
THEOREM LockedNotSwapped == SwapSpec => LockedMomentsStayPut
<1>1. SwapSpec => [][LockedStayPut]_ledgerVars
  BY StepKeepsLocked, SwapInvariance, PTL DEF SwapSpec
<1> QED BY <1>1 DEF LockedMomentsStayPut, LockedStayPut

\* Nor does any step of the swap contract touch a lock that stands.
LEMMA StepHonoursLocks ==
    SwapInv /\ [SwapNext]_vars => [LocksHonoured]_ledgerVars
<1> SUFFICES ASSUME SwapInv, [SwapNext]_vars, ledgerVars' # ledgerVars
             PROVE  LocksHonoured
  OBVIOUS
<1>1. SwapNext
  BY DEF vars
<1>2. CASE LedgerNext
  BY <1>2, LedgerStepHonoursLocks DEF SwapInv, LedgerInv
<1>3. CASE lockedNFTs' = lockedNFTs
  BY <1>3 DEF LocksHonoured
<1>4. LedgerNext \/ lockedNFTs' = lockedNFTs
  BY <1>1 DEF SwapNext, OtherTransactions, SwapSetupAccount,
              SetProposalCreation, CreateProposal, AcceptTrade,
              DeleteProposal, lockVars, ledgerVars
<1> QED BY <1>2, <1>3, <1>4

\* Locks stand where Moments are swapped, too.
THEOREM LocksStandSwaps == SwapSpec => LocksAreHonoured
<1>1. SwapSpec => [][LocksHonoured]_ledgerVars
  BY StepHonoursLocks, SwapInvariance, PTL DEF SwapSpec
<1> QED BY <1>1 DEF LocksAreHonoured, LocksHonoured
-----------------------------------------------------------------------------
(***************************************************************************)
(* The swap contract implements the market: its initial states are the     *)
(* market's, and each of its transactions is a step of the market.         *)
(***************************************************************************)

\* What the variables of the market are mapped to.
Issued       == 1 .. totalSupply
Holders      == [m \in MomentId |-> HolderOf(m)]
DealsOnTable == { DealOf(p) : p \in AllProposals }
LastDeals    == { DealOf(p) : p \in proposalExecuted }

HolderIn(holdings, m) ==
    IF \E a \in Account : m \in holdings[a]
    THEN CHOOSE a \in Account : m \in holdings[a]
    ELSE Nobody

-----------------------------------------------------------------------------
(***************************************************************************)
(* Holders and deals.                                                      *)
(***************************************************************************)

\* As collections are disjoint, the holder of a Moment is well defined.
LEMMA HolderInValue ==
    ASSUME NEW holdings \in [Account -> SUBSET MomentId], Disjoint(holdings),
           NEW m \in MomentId
    PROVE  /\ \A a \in Account : m \in holdings[a] <=> HolderIn(holdings, m) = a
           /\ HolderIn(holdings, m) \in Account \cup {Nobody}
<1>1. CASE \E a \in Account : m \in holdings[a]
  <2>1. PICK a \in Account : m \in holdings[a]
    BY <1>1
  <2>2. HolderIn(holdings, m) \in Account /\ m \in holdings[HolderIn(holdings, m)]
    BY <1>1 DEF HolderIn
  <2> QED BY <2>1, <2>2 DEF Disjoint
<1>2. CASE ~ \E a \in Account : m \in holdings[a]
  <2>1. HolderIn(holdings, m) = Nobody
    BY <1>2 DEF HolderIn
  <2> QED BY <1>2, <2>1, NobodyIsNoAccount
<1> QED BY <1>1, <1>2

\* The same of the holdings before and after a step.
LEMMA HolderOfValue ==
    ASSUME SwapInv, SwapInv', NEW m \in MomentId
    PROVE  /\ \A a \in Account : m \in owned[a] <=> HolderOf(m) = a
           /\ HolderOf(m) \in Account \cup {Nobody}
           /\ \A a \in Account : m \in owned'[a] <=> HolderOf(m)' = a
           /\ HolderOf(m)' \in Account \cup {Nobody}
<1>1. /\ owned \in [Account -> SUBSET MomentId] /\ Disjoint(owned)
      /\ owned' \in [Account -> SUBSET MomentId] /\ Disjoint(owned')
  BY DEF SwapInv, LedgerInv, LedgerTypeOK, MomentConservation, Disjoint, MomentId
<1>2. HolderOf(m) = HolderIn(owned, m) /\ HolderOf(m)' = HolderIn(owned', m)
  BY DEF HolderOf, HolderIn
<1> QED BY <1>1, <1>2, HolderInValue

\* Holders that stay the same, with the collections.
LEMMA SameHolders ==
    ASSUME UNCHANGED owned
    PROVE  Holders' = Holders
BY DEF Holders, HolderOf, MomentId

\* Deals that stay the same, with the proposals.
LEMMA SameDeals ==
    ASSUME UNCHANGED swapProposals
    PROVE  DealsOnTable' = DealsOnTable
BY DEF DealsOnTable, AllProposals, DealOf

\* A transaction that concerns neither Moments nor proposals.
LEMMA ElsewhereIsStep ==
    ASSUME UNCHANGED << totalSupply, owned, swapProposals >>,
           proposalExecuted' = {}
    PROVE  Market!MarketNext
<1>1. Issued' = Issued /\ Holders' = Holders /\ DealsOnTable' = DealsOnTable
  BY SameHolders, SameDeals DEF Issued
<1>2. LastDeals' = {}
  BY DEF LastDeals
<1>3. Market!Elsewhere
  BY <1>1, <1>2 DEF Market!Elsewhere, Issued, Holders, DealsOnTable, LastDeals
<1> QED BY <1>3 DEF Market!MarketNext
-----------------------------------------------------------------------------
(***************************************************************************)
(* Every transaction is a step of the market.                              *)
(***************************************************************************)

LEMMA DestroyIsBurn ==
    ASSUME SwapInv, SwapInv', NEW a \in Account, DestroyCollection(a),
           UNCHANGED swapVars, proposalExecuted' = {}
    PROVE  Market!MarketNext
<1>1. Issued' = Issued /\ DealsOnTable' = DealsOnTable /\ LastDeals' = {}
  BY SameDeals DEF DestroyCollection, swapVars, Issued, LastDeals
<1>2. /\ owned \in [Account -> SUBSET MomentId]
      /\ owned' = [owned EXCEPT ![a] = {}]
  BY DEF SwapInv, LedgerInv, LedgerTypeOK, DestroyCollection
<1>3. ASSUME NEW m \in MomentId
      PROVE  HolderOf(m)' = IF HolderOf(m) = a THEN Nobody ELSE HolderOf(m)
  <2>1. \A b \in Account : m \in owned'[b] <=> b # a /\ m \in owned[b]
    BY <1>2
  <2> QED BY <2>1, HolderOfValue
<1>4. Holders' = [m \in MomentId |-> IF Holders[m] = a THEN Nobody
                                                      ELSE Holders[m]]
  BY <1>3 DEF Holders, MomentId
<1>5. Market!Burn(a)
  BY <1>1, <1>4 DEF Market!Burn, Issued, Holders, DealsOnTable, LastDeals
<1> QED BY <1>5 DEF Market!MarketNext

LEMMA MintIsIssue ==
    ASSUME SwapInv, SwapInv', NEW a \in Account, NEW n \in BatchSizes,
           BatchMint(a, n), UNCHANGED swapVars, proposalExecuted' = {}
    PROVE  Market!MarketNext
<1> DEFINE new == totalSupply + 1 .. totalSupply + n
<1>1. /\ totalSupply \in Nat /\ n \in Nat \ {0}
      /\ totalSupply' = totalSupply + n /\ totalSupply + n <= MaxSupply
      /\ owned \in [Account -> SUBSET MomentId]
      /\ owned' = [owned EXCEPT ![a] = @ \cup new]
  BY BatchAssumption, SupplyAssumption
     DEF SwapInv, LedgerInv, LedgerTypeOK, BatchMint
<1>2. /\ new \cap Issued = {} /\ Issued' = Issued \cup new
      /\ new \in SUBSET MomentId
  BY <1>1, SupplyAssumption DEF Issued, MomentId
<1>3. DealsOnTable' = DealsOnTable /\ LastDeals' = {}
  BY SameDeals DEF swapVars, LastDeals
<1>4. \A b \in Account : owned[b] \cap new = {}
  <2>1. Held(owned) \subseteq 1 .. totalSupply
    BY DEF SwapInv, LedgerInv, MomentConservation
  <2> QED BY <1>2, <2>1 DEF Held, Issued
<1> HIDE DEF new
<1>5. ASSUME NEW m \in MomentId
      PROVE  HolderOf(m)' = IF m \in new THEN a ELSE HolderOf(m)
  <2>1. \A b \in Account :
           m \in owned'[b] <=> m \in owned[b] \/ (b = a /\ m \in new)
    BY <1>1
  <2>2. CASE m \in new
    <3>1. m \in owned'[a]
      BY <2>1, <2>2
    <3> QED BY <2>2, <3>1, HolderOfValue
  <2>3. CASE m \notin new
    <3>1. \A b \in Account : m \in owned'[b] <=> m \in owned[b]
      BY <2>1, <2>3
    <3> QED BY <2>3, <3>1, HolderOfValue
  <2> QED BY <2>2, <2>3
<1>6. Holders' = [m \in MomentId |-> IF m \in new THEN a ELSE Holders[m]]
  BY <1>5 DEF Holders, MomentId
<1>7. Market!Issue(a, new)
  BY <1>2, <1>3, <1>6 DEF Market!Issue, Issued, Holders, DealsOnTable, LastDeals
<1> QED BY <1>2, <1>7 DEF Market!MarketNext

LEMMA TransferIsGift ==
    ASSUME SwapInv, SwapInv', NEW a \in Account, NEW b \in Account,
           NEW n \in MomentId, Transfer(a, b, n),
           UNCHANGED swapVars, proposalExecuted' = {}
    PROVE  Market!MarketNext
<1>1. Issued' = Issued /\ DealsOnTable' = DealsOnTable /\ LastDeals' = {}
  BY SameDeals DEF Transfer, swapVars, Issued, LastDeals
<1>2. /\ owned \in [Account -> SUBSET MomentId]
      /\ n \in owned[a]
      /\ owned' = Moved(owned, a, b, {n})
  BY DEF SwapInv, LedgerInv, LedgerTypeOK, Transfer
<1>3. ASSUME NEW m \in MomentId
      PROVE  HolderOf(m)' = IF m = n THEN b ELSE HolderOf(m)
  <2>1. CASE m = n
    <3>1. m \in owned'[b]
      BY <1>2, <2>1 DEF Moved
    <3> QED BY <2>1, <3>1, HolderOfValue
  <2>2. CASE m # n
    <3>1. \A c \in Account : m \in owned'[c] <=> m \in owned[c]
      BY <1>2, <2>2 DEF Moved
    <3> QED BY <2>2, <3>1, HolderOfValue
  <2> QED BY <2>1, <2>2
<1>4. Holders' = [Holders EXCEPT ![n] = b] /\ Holders[n] = a
  BY <1>2, <1>3, HolderOfValue DEF Holders, MomentId
<1>5. Market!Give(a, b, n)
  BY <1>1, <1>4 DEF Market!Give, Issued, Holders, DealsOnTable, LastDeals
<1> QED BY <1>5 DEF Market!MarketNext

LEMMA AcceptIsSettlement ==
    ASSUME SwapInv, SwapInv', NEW signer \in Account, NEW left \in Account,
           NEW p \in swapProposals[left], AcceptTrade(signer, left, p)
    PROVE  Market!MarketNext
<1> DEFINE d == DealOf(p)
<1>1. Issued' = Issued /\ DealsOnTable' = DealsOnTable
  BY SameDeals DEF AcceptTrade, swapVars, Issued
<1>2. LastDeals' = {d}
  BY DEF AcceptTrade, LastDeals, DealOf
<1>3. d \in DealsOnTable
  BY DEF DealsOnTable, AllProposals
<1>4. /\ p.left \in Account /\ p.right \in Account
      /\ Range(p.leftNfts) \in SUBSET owned[p.left]
      /\ Range(p.rightNfts) \in SUBSET owned[p.right]
      /\ Range(p.leftNfts) \subseteq MomentId
      /\ Range(p.rightNfts) \subseteq MomentId
      /\ Disjoint(owned)
  BY AcceptedProposal, ProposalFields
     DEF SwapInv, LedgerInv, MomentConservation
<1>5. /\ \A m \in d.give : m \in MomentId /\ HolderOf(m) = d.left
      /\ \A m \in d.take : m \in MomentId /\ HolderOf(m) = d.right
  BY <1>4, HolderOfValue DEF DealOf
<1>6. ASSUME NEW m \in MomentId
      PROVE  HolderOf(m)' = CASE m \in d.take -> d.left
                              [] m \in d.give \ d.take -> d.right
                              [] OTHER -> HolderOf(m)
  <2>1. CASE p.left = p.right
    <3>1. \A c \in Account : m \in owned'[c] <=> m \in owned[c]
      BY <2>1, AcceptedHoldings
    <3>2. HolderOf(m)' = HolderOf(m)
      BY <3>1, HolderOfValue
    <3> QED BY <1>5, <2>1, <3>2 DEF DealOf
  <2>2. CASE p.left # p.right
    <3>1. /\ owned'[p.left] = (owned[p.left]
                \ Range(p.leftNfts)) \cup Range(p.rightNfts)
          /\ owned'[p.right] = (owned[p.right]
                \ Range(p.rightNfts)) \cup Range(p.leftNfts)
          /\ \A a \in Account \ {p.left, p.right} : owned'[a] = owned[a]
      BY <2>2, AcceptedHoldings
    <3>2. Range(p.leftNfts) \cap Range(p.rightNfts) = {}
      BY <1>4, <2>2 DEF Disjoint
    <3>3. CASE m \in Range(p.rightNfts)
      <4>1. HolderOf(m)' = p.left
        BY <1>4, <3>1, <3>3, HolderOfValue
      <4> QED BY <3>3, <4>1 DEF DealOf
    <3>4. CASE m \in Range(p.leftNfts)
      <4>1. HolderOf(m)' = p.right
        BY <1>4, <3>1, <3>4, HolderOfValue
      <4> QED BY <3>2, <3>4, <4>1 DEF DealOf
    <3>5. CASE m \notin Range(p.leftNfts) \cup Range(p.rightNfts)
      <4>1. \A c \in Account : m \in owned'[c] <=> m \in owned[c]
        BY <1>4, <3>1, <3>5
      <4>2. HolderOf(m)' = HolderOf(m)
        BY <4>1, HolderOfValue
      <4> QED BY <3>5, <4>2 DEF DealOf
    <3> QED BY <3>3, <3>4, <3>5
  <2> QED BY <2>1, <2>2
<1> HIDE DEF d
<1>7. Holders' = [m \in MomentId |-> CASE m \in d.take -> d.left
                                       [] m \in d.give \ d.take -> d.right
                                       [] OTHER -> Holders[m]]
  BY <1>6 DEF Holders, MomentId
<1>8. /\ \A m \in d.give : Holders[m] = d.left
      /\ \A m \in d.take : Holders[m] = d.right
  BY <1>5 DEF Holders
<1>9. Market!Settle(d)
  BY <1>1, <1>2, <1>7, <1>8
     DEF Market!Settle, Market!Covered, Issued, Holders, DealsOnTable, LastDeals
<1> QED BY <1>3, <1>9 DEF Market!MarketNext, DealsOnTable

LEMMA CreateIsProposal ==
    ASSUME SwapInv, SwapInv', NEW left \in Account, NEW right \in Account,
           NEW leftNfts \in OfferLists, NEW rightNfts \in OfferLists,
           NEW minutes \in OffsetMinutes,
           CreateProposal(left, right, leftNfts, rightNfts, minutes)
    PROVE  Market!MarketNext
<1>1. PICK id \in ProposalId \ { p.id : p \in swapProposals[left] } :
         swapProposals' = [swapProposals EXCEPT ![left] = @ \cup {
              [ id |-> id, left |-> left, leftNfts |-> leftNfts,
                right |-> right, rightNfts |-> rightNfts,
                expiration |-> timestamp + minutes * 1000 * 60,
                createdAt |-> timestamp ] }]
  BY DEF CreateProposal
<1> DEFINE p == [ id |-> id, left |-> left, leftNfts |-> leftNfts,
                  right |-> right, rightNfts |-> rightNfts,
                  expiration |-> timestamp + minutes * 1000 * 60,
                  createdAt |-> timestamp ]
           d == DealOf(p)
<1>2. /\ p.left = left /\ p.right = right /\ p.id = id
      /\ p.leftNfts = leftNfts /\ p.rightNfts = rightNfts
  OBVIOUS
<1>3. swapProposals' = [swapProposals EXCEPT ![left] = @ \cup {p}]
  BY <1>1
<1> HIDE DEF p
<1>4. swapProposals \in [Account -> SUBSET Proposal]
  BY DEF SwapInv, SwapTypeOK
<1>5. AllProposals' = AllProposals \cup {p}
  BY <1>3, <1>4 DEF AllProposals
<1>6. DealsOnTable' = DealsOnTable \cup {d}
  BY <1>5 DEF DealsOnTable, DealOf
<1>7. Issued' = Issued /\ Holders' = Holders /\ LastDeals' = {}
  BY SameHolders DEF CreateProposal, Issued, LastDeals
<1>8. /\ Range(leftNfts) \subseteq owned[left]
      /\ Range(rightNfts) \subseteq owned[right]
  BY DEF CreateProposal, OwnsOffer
<1>9. /\ Range(leftNfts) \subseteq MomentId
      /\ Range(rightNfts) \subseteq MomentId
  BY OfferAssumption DEF Range
<1>10. /\ \A m \in d.give : Holders[m] = d.left
       /\ \A m \in d.take : Holders[m] = d.right
  BY <1>2, <1>8, <1>9, HolderOfValue DEF Holders, DealOf
<1>11. \A e \in DealsOnTable : e.left = d.left => e.id # d.id
  <2> SUFFICES ASSUME NEW a \in Account, NEW q \in swapProposals[a],
                      DealOf(q).left = d.left
               PROVE  DealOf(q).id # d.id
    BY DEF DealsOnTable, AllProposals
  <2>1. q.left = a
    BY DEF SwapInv, SwapTypeOK
  <2>2. a = left
    BY <1>2, <2>1 DEF DealOf
  <2> QED BY <1>1, <1>2, <2>2 DEF DealOf
<1>12. d \in Market!Deal
  BY <1>1, <1>2, <1>9 DEF DealOf, Market!Deal
<1> HIDE DEF d
<1>13. Market!Propose(d)
  BY <1>6, <1>7, <1>10, <1>11
     DEF Market!Propose, Market!Covered, Issued, Holders, DealsOnTable,
         LastDeals
<1> QED BY <1>12, <1>13 DEF Market!MarketNext

LEMMA DeleteIsRetraction ==
    ASSUME SwapInv, NEW left \in Account, NEW id \in ProposalId,
           DeleteProposal(left, id)
    PROVE  Market!MarketNext
<1>1. PICK p \in swapProposals[left] : p.id = id
  BY DEF DeleteProposal
<1> DEFINE d == DealOf(p)
<1>2. /\ swapProposals \in [Account -> SUBSET Proposal]
      /\ \A a \in Account : \A q \in swapProposals[a] : q.left = a
      /\ \A q \in swapProposals[left] : q.id = id => q = p
  BY <1>1 DEF SwapInv, SwapTypeOK
<1>3. swapProposals' = [swapProposals EXCEPT
                           ![left] = { q \in @ : q.id # id }]
  BY DEF DeleteProposal
<1>4. AllProposals' = AllProposals \ {p}
  <2>1. ASSUME NEW a \in Account, NEW q \in swapProposals'[a]
        PROVE  q \in AllProposals \ {p}
    BY <1>1, <1>2, <1>3, <2>1 DEF AllProposals
  <2>2. ASSUME NEW a \in Account, NEW q \in swapProposals[a], q # p
        PROVE  q \in swapProposals'[a]
    BY <1>1, <1>2, <1>3, <2>2
  <2> QED BY <2>1, <2>2 DEF AllProposals
<1>5. \A q \in AllProposals : DealOf(q) = d => q = p
  <2> SUFFICES ASSUME NEW a \in Account, NEW q \in swapProposals[a],
                      DealOf(q) = d
               PROVE  q = p
    BY DEF AllProposals
  <2>1. q.left = p.left /\ q.id = p.id
    BY DEF DealOf
  <2> QED BY <1>1, <1>2, <2>1
<1>6. d \in DealsOnTable
  BY <1>1 DEF DealsOnTable, AllProposals
<1>7. DealsOnTable' = DealsOnTable \ {d}
  <2>1. DealsOnTable' = { DealOf(q) : q \in AllProposals \ {p} }
    BY <1>4 DEF DealsOnTable, DealOf
  <2> QED BY <1>5, <2>1 DEF DealsOnTable
<1>8. Issued' = Issued /\ Holders' = Holders /\ LastDeals' = {}
  BY SameHolders DEF DeleteProposal, ledgerVars, Issued, LastDeals
<1> HIDE DEF d
<1>9. Market!Retract(d)
  BY <1>7, <1>8
     DEF Market!Retract, Issued, Holders, DealsOnTable, LastDeals
<1> QED BY <1>6, <1>9 DEF Market!MarketNext, DealsOnTable

LEMMA OthersAreSteps ==
    ASSUME SwapInv, SwapInv', OtherTransactions
    PROVE  Market!MarketNext
<1>1. ASSUME LedgerNext, UNCHANGED swapVars, proposalExecuted' = {}
      PROVE  Market!MarketNext
  <2>1. ASSUME NEW a \in Account, DestroyCollection(a)
        PROVE  Market!MarketNext
    BY <1>1, <2>1, DestroyIsBurn
  <2>2. ASSUME NEW a \in Account, NEW n \in BatchSizes, BatchMint(a, n)
        PROVE  Market!MarketNext
    BY <1>1, <2>2, MintIsIssue
  <2>3. ASSUME NEW a \in Account, NEW b \in Account, NEW m \in MomentId,
               Transfer(a, b, m)
        PROVE  Market!MarketNext
    BY <1>1, <2>3, TransferIsGift
  <2>4. CASE UNCHANGED << totalSupply, owned >>
    BY <1>1, <2>4, ElsewhereIsStep DEF swapVars
  <2> QED BY <1>1, <2>1, <2>2, <2>3, <2>4
          DEF LedgerNext, WalletSetup, RevokeProvider, Lock, Unlock,
              MarkNFTUnlockable, UnlockAll, Tick
<1>2. ASSUME NEW a \in Account, SwapSetupAccount(a)
      PROVE  Market!MarketNext
  BY <1>2, ElsewhereIsStep DEF SwapSetupAccount
<1>3. ASSUME NEW allowed \in BOOLEAN, SetProposalCreation(allowed)
      PROVE  Market!MarketNext
  BY <1>3, ElsewhereIsStep DEF SetProposalCreation, ledgerVars
<1> QED BY <1>1, <1>2, <1>3 DEF OtherTransactions

LEMMA TransactionIsStep ==
    ASSUME SwapInv, SwapInv', SwapNext
    PROVE  Market!MarketNext
<1>1. CASE OtherTransactions
  BY <1>1, OthersAreSteps
<1>2. ASSUME NEW left \in Account, NEW right \in Account,
             NEW leftNfts \in OfferLists, NEW rightNfts \in OfferLists,
             NEW minutes \in OffsetMinutes,
             CreateProposal(left, right, leftNfts, rightNfts, minutes)
      PROVE  Market!MarketNext
  BY <1>2, CreateIsProposal
<1>3. ASSUME NEW signer \in Account, NEW left \in Account,
             NEW p \in swapProposals[left], AcceptTrade(signer, left, p)
      PROVE  Market!MarketNext
  BY <1>3, AcceptIsSettlement
<1>4. ASSUME NEW left \in Account, NEW id \in ProposalId,
             DeleteProposal(left, id)
      PROVE  Market!MarketNext
  BY <1>4, DeleteIsRetraction
<1> QED BY <1>1, <1>2, <1>3, <1>4 DEF SwapNext
-----------------------------------------------------------------------------
(***************************************************************************)
(* The theorems about the market.                                          *)
(***************************************************************************)

LEMMA StartIsMarkets == SwapInit => Market!MarketInit
<1> SUFFICES ASSUME SwapInit PROVE Market!MarketInit
  OBVIOUS
<1>1. Issued = {} /\ LastDeals = {}
  BY DEF SwapInit, Init, Issued, LastDeals
<1>2. Holders = [m \in MomentId |-> Nobody]
  BY DEF SwapInit, Init, Holders, HolderOf
<1>3. DealsOnTable = {}
  BY DEF SwapInit, DealsOnTable, AllProposals
<1> QED BY <1>1, <1>2, <1>3
        DEF Market!MarketInit, Issued, Holders, DealsOnTable, LastDeals

\* What a step that leaves everything as it is does to the market.
LEMMA StutterIsStutter ==
    ASSUME UNCHANGED vars
    PROVE  UNCHANGED Market!marketVars
<1>1. UNCHANGED << totalSupply, owned, swapProposals, proposalExecuted >>
  BY DEF vars, ledgerVars, swapVars
<1>2. Issued' = Issued /\ Holders' = Holders /\ DealsOnTable' = DealsOnTable
  BY <1>1, SameHolders, SameDeals DEF Issued
<1>3. LastDeals' = LastDeals
  BY <1>1 DEF LastDeals, DealOf
<1> QED BY <1>2, <1>3
        DEF Market!marketVars, Issued, Holders, DealsOnTable, LastDeals

\* One step, stuttering included.
LEMMA StepOfMarket ==
    SwapInv /\ SwapInv' /\ [SwapNext]_vars =>
       [Market!MarketNext]_(Market!marketVars)
BY TransactionIsStep, StutterIsStutter

\* The swap contract implements the atomic swap market.
THEOREM SwapImplementsMarket == SwapSpec => ImplementsAtomicSwap
<1> QED BY StepOfMarket, StartIsMarkets, SwapInvariance, PTL
        DEF SwapSpec, ImplementsAtomicSwap, Market!MarketSpec
=============================================================================
