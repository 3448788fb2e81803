--------------------------- MODULE MomentCollection ---------------------------
(***************************************************************************)
(* The ledger under TopShot Match: who holds which Moment, which           *)
(* capabilities each account has linked to its collection, and which       *)
(* Moments are locked.                                                     *)
(*                                                                         *)
(* It models TopShot.Collection (withdraw, deposit, lock, unlock,          *)
(* destroy), the minting of Moments as far as it adds ids to a collection, *)
(* TopShotLocking, and the part of setupAccount.cdc that stores and links  *)
(* a collection.  A Cadence transaction is atomic (a panic undoes all its  *)
(* effects), so every transaction is one action, whose guard is the        *)
(* condition under which nothing in it panics.                             *)
(***************************************************************************)
EXTENDS Integers, Sequences, FiniteSets

CONSTANTS
    Account,          \* the accounts of the chain
    MaxSupply,        \* bound: Moments minted in a behaviour
    BatchSizes,       \* how many Moments one minting transaction creates
    ClockSteps,       \* seconds by which the block timestamp may advance
    MaxTime,          \* bound: largest block timestamp
    LockDurations,    \* durations, in seconds, an owner may lock for
    LockTypeResolves  \* whether CompositeType(...) of TopShotLocking.cdc:51
                      \* names a type: FALSE in the source as committed,
                      \* TRUE once its TOPSHOTADDRESS is filled in

ASSUME SupplyAssumption == MaxSupply \in Nat
ASSUME BatchAssumption  == BatchSizes \subseteq Nat \ {0}
ASSUME ClockAssumption  == MaxTime \in Nat /\ ClockSteps \subseteq Nat \ {0}
ASSUME LockAssumption   == /\ LockDurations \subseteq Nat
                           /\ LockTypeResolves \in BOOLEAN

VARIABLES
    totalSupply,       \* TopShot.totalSupply: the last Moment id given out
    owned,             \* owned[a]: keys of the ownedNFTs of a's collection
    collectionStored,  \* accounts with a TopShot.Collection in storage
    publicLink,        \* publicLink[a]: interfaces of /public/MomentCollection
    providerLink,      \* accounts with a link at /private/MomentCollection
    lockedNFTs,        \* lock expiry per Moment, or NotLocked
    unlockableNFTs,    \* Moments whose lock an admin has overridden
    timestamp,         \* getCurrentBlock().timestamp, in seconds
    destroyed          \* Moments of which MomentDestroyed was emitted

ledgerVars == << totalSupply, owned, collectionStored, publicLink,
                 providerLink, lockedNFTs, unlockableNFTs, timestamp,
                 destroyed >>
lockVars   == << lockedNFTs, unlockableNFTs >>
linkVars   == << collectionStored, publicLink, providerLink >>

MomentId  == 1 .. MaxSupply
NotLocked == -1

\* The interfaces a collection can be linked with.
Interface == { "CollectionPublic", "MomentCollectionPublic",
               "ResolverCollection", "Receiver" }

\* What setupAccount.cdc links, and what the NFTCollectionData view of a
\* Moment says a wallet should link.
AppLink    == { "CollectionPublic", "MomentCollectionPublic",
                "ResolverCollection" }
WalletLink == Interface

Init ==
    /\ totalSupply = 0
    /\ owned = [a \in Account |-> {}]
    /\ collectionStored = {}
    /\ publicLink = [a \in Account |-> {}]
    /\ providerLink = {}
    /\ lockedNFTs = [m \in MomentId |-> NotLocked]
    /\ unlockableNFTs = {}
    /\ timestamp = 0
    /\ destroyed = {}
-----------------------------------------------------------------------------
(***************************************************************************)
(* Capabilities.                                                           *)
(***************************************************************************)

\* getCapability(/public/MomentCollection) can be borrowed as a reference
\* with these interfaces.
PubliclyBorrowable(a, interfaces) ==
    a \in collectionStored /\ interfaces \subseteq publicLink[a]

\* queryAccountSetup.cdc: is the account ready to receive Moments?
QueryAccountSetup(a) == PubliclyBorrowable(a, {"Receiver"})

IsLocked(m) == lockedNFTs[m] # NotLocked

\* withdraw from one collection and deposit into another, for each Moment
\* of S.  Both EXCEPTs apply, in this order, when the accounts are the same.
Moved(holdings, from, to, S) ==
    [holdings EXCEPT ![from] = @ \ S, ![to] = @ \cup S]
-----------------------------------------------------------------------------
(***************************************************************************)
(* Accounts.                                                               *)
(***************************************************************************)

\* The first block of setupAccount.cdc.  The link is not replaced when the
\* path is already taken (a collection destroyed earlier leaves it behind).
SetupMomentCollection(a) ==
    IF a \in collectionStored
    THEN UNCHANGED linkVars
    ELSE /\ collectionStored' = collectionStored \cup {a}
         /\ publicLink' = [publicLink EXCEPT ![a] =
                              IF @ = {} THEN AppLink ELSE @]
         /\ UNCHANGED providerLink

SetupAccount(a) ==
    /\ a \notin collectionStored
    /\ SetupMomentCollection(a)
    /\ UNCHANGED << totalSupply, owned, lockVars, timestamp, destroyed >>

\* A wallet sets the collection up the way TopShot.NFT's NFTCollectionData
\* view describes, public and private link, or repairs the public link of a
\* collection that exists.
WalletSetup(a) ==
    /\ a \notin collectionStored \/ publicLink[a] # WalletLink
    /\ collectionStored' = collectionStored \cup {a}
    /\ publicLink' = [publicLink EXCEPT ![a] = WalletLink]
    /\ providerLink' = providerLink \cup {a}
    /\ UNCHANGED << totalSupply, owned, lockVars, timestamp, destroyed >>

\* The owner unlinks /private/MomentCollection.
RevokeProvider(a) ==
    /\ a \in providerLink
    /\ providerLink' = providerLink \ {a}
    /\ UNCHANGED << totalSupply, owned, collectionStored, publicLink,
                    lockVars, timestamp, destroyed >>

\* The owner takes the collection out of storage and destroys it, and with
\* it every Moment it holds, locked or not.  The links dangle.
DestroyCollection(a) ==
    /\ a \in collectionStored
    /\ collectionStored' = collectionStored \ {a}
    /\ destroyed' = destroyed \cup owned[a]
    /\ owned' = [owned EXCEPT ![a] = {}]
    /\ UNCHANGED << totalSupply, publicLink, providerLink, lockVars,
                    timestamp >>
-----------------------------------------------------------------------------
(***************************************************************************)
(* Moments.                                                                *)
(***************************************************************************)

\* Mutant: NFT.init does not advance totalSupply.
BatchMintSameIds(a, n) ==
    /\ PubliclyBorrowable(a, AppLink)
    /\ totalSupply + n <= MaxSupply
    /\ owned' = [owned EXCEPT
                    ![a] = @ \cup (totalSupply + 1 .. totalSupply + n)]
    /\ UNCHANGED << totalSupply, linkVars, lockVars, timestamp, destroyed >>

\* batch_mint_moment.cdc: NFT.init gives out the next ids, batchDeposit puts
\* the Moments into the recipient's collection.
BatchMint(a, n) ==
    /\ PubliclyBorrowable(a, AppLink)
    /\ totalSupply + n <= MaxSupply
    /\ totalSupply' = totalSupply + n
    /\ owned' = [owned EXCEPT
                    ![a] = @ \cup (totalSupply + 1 .. totalSupply + n)]
    /\ UNCHANGED << linkVars, lockVars, timestamp, destroyed >>

\* The owner sends a Moment outside TopShot Match: withdraw, then deposit
\* through the recipient's MomentCollectionPublic.
Transfer(a, b, m) ==
    /\ m \in owned[a]
    /\ ~ IsLocked(m)
    /\ PubliclyBorrowable(b, {"MomentCollectionPublic"})
    /\ owned' = Moved(owned, a, b, {m})
    /\ UNCHANGED << totalSupply, linkVars, lockVars, timestamp, destroyed >>
-----------------------------------------------------------------------------
(***************************************************************************)
(* TopShotLocking.                                                         *)
(***************************************************************************)

\* Collection.lock.  A second lock returns the Moment unchanged.
Lock(a, m, duration) ==
    /\ m \in owned[a]
    /\ LockTypeResolves
    /\ ~ IsLocked(m)
    /\ lockedNFTs' = [lockedNFTs EXCEPT ![m] = timestamp + duration]
    /\ UNCHANGED << totalSupply, owned, linkVars, unlockableNFTs, timestamp,
                    destroyed >>

\* Mutant: unlocking does not look at the expiry.
UnlockEarly(a, m) ==
    /\ m \in owned[a]
    /\ IsLocked(m)
    /\ lockedNFTs' = [lockedNFTs EXCEPT ![m] = NotLocked]
    /\ unlockableNFTs' = unlockableNFTs \ {m}
    /\ UNCHANGED << totalSupply, owned, linkVars, timestamp, destroyed >>

\* Collection.unlock.
Unlock(a, m) ==
    /\ m \in owned[a]
    /\ IsLocked(m)
    /\ timestamp >= lockedNFTs[m] \/ m \in unlockableNFTs
    /\ lockedNFTs' = [lockedNFTs EXCEPT ![m] = NotLocked]
    /\ unlockableNFTs' = unlockableNFTs \ {m}
    /\ UNCHANGED << totalSupply, owned, linkVars, timestamp, destroyed >>

\* Admin.markNFTUnlockable, on a reference to a Moment somebody holds.  It
\* does not ask whether the Moment is locked.
MarkNFTUnlockable(m) ==
    /\ \E a \in Account : m \in owned[a]
    /\ unlockableNFTs' = unlockableNFTs \cup {m}
    /\ UNCHANGED << totalSupply, owned, linkVars, lockedNFTs, timestamp,
                    destroyed >>

\* Admin.unlockAll.
UnlockAll ==
    /\ lockedNFTs' = [m \in MomentId |-> NotLocked]
    /\ unlockableNFTs' = {}
    /\ UNCHANGED << totalSupply, owned, linkVars, timestamp, destroyed >>

\* A new block is sealed.
Tick ==
    \E d \in ClockSteps :
        /\ timestamp + d <= MaxTime
        /\ timestamp' = timestamp + d
        /\ UNCHANGED << totalSupply, owned, linkVars, lockVars, destroyed >>
-----------------------------------------------------------------------------
\* The transactions other than setupAccount.cdc, which also concerns the
\* swap collection, and which the composed modules therefore complete.
LedgerNext ==
    \/ \E a \in Account :
          \/ WalletSetup(a)
          \/ RevokeProvider(a)
          \/ DestroyCollection(a)
          \/ \E n \in BatchSizes : BatchMint(a, n)
          \/ \E b \in Account, m \in MomentId : Transfer(a, b, m)
          \/ \E m \in MomentId, d \in LockDurations : Lock(a, m, d)
          \/ \E m \in MomentId : Unlock(a, m)
    \/ \E m \in MomentId : MarkNFTUnlockable(m)
    \/ UnlockAll
    \/ Tick

Next == LedgerNext \/ \E a \in Account : SetupAccount(a)

Spec == Init /\ [][Next]_ledgerVars
-----------------------------------------------------------------------------
(***************************************************************************)
(* Properties.                                                             *)
(***************************************************************************)

\* The types of the ledger's variables.
LedgerTypeOK ==
    /\ totalSupply \in 0 .. MaxSupply
    /\ owned \in [Account -> SUBSET MomentId]
    /\ collectionStored \subseteq Account
    /\ publicLink \in [Account -> SUBSET Interface]
    /\ providerLink \subseteq Account
    /\ lockedNFTs \in [MomentId -> Nat \cup {NotLocked}]
    /\ unlockableNFTs \subseteq MomentId
    /\ timestamp \in Nat
    /\ destroyed \subseteq MomentId

\* No two collections hold the same Moment.
Disjoint(holdings) ==
    \A a, b \in Account : a # b => holdings[a] \cap holdings[b] = {}

\* The Moments somebody holds.
Held(holdings) == UNION { holdings[a] : a \in Account }

\* Moments are resources: each id that NFT.init gave out is, at any time, in
\* exactly one collection or destroyed by its owner, and no other id exists.
\* So no deposit ever replaces, and silently destroys, a Moment that was
\* already there (TopShot.cdc:1168-1177), and no swap loses one.
MomentConservation ==
    /\ Disjoint(owned)
    /\ Held(owned) \cap destroyed = {}
    /\ Held(owned) \cup destroyed = 1 .. totalSupply

\* A locked Moment leaves its collection only when the collection itself is
\* destroyed: neither a transfer nor a swap moves it (TopShot.cdc:1120).
LockedMomentsStayPut ==
    [][\A a \in Account : \A m \in owned[a] :
          IsLocked(m) => m \in owned'[a] \/ m \in destroyed']_ledgerVars

\* The lock an owner asked for is honoured: while it stands its expiry does
\* not move, and it ends only after that time or because an admin overrode
\* it, for this Moment or for all (TopShotLocking.cdc:56-97).
LocksAreHonoured ==
    [][\A m \in MomentId :
          IsLocked(m) /\ lockedNFTs'[m] # lockedNFTs[m] =>
             /\ lockedNFTs'[m] = NotLocked
             /\ \/ timestamp >= lockedNFTs[m]
                \/ m \in unlockableNFTs
                \/ UnlockAll]_ledgerVars
=============================================================================
