-------------------------------- MODULE EMSwap --------------------------------
(***************************************************************************)
(* The swap contract on top of the ledger: proposals kept in the left      *)
(* user's SwapCollection, their verification, atomic execution, deletion,  *)
(* and the pause switch of the SwapProposalAdmin.                          *)
(*                                                                         *)
(* The actions are the transactions the app sends (setupAccount,           *)
(* createProposal, acceptTrade, deleteProposal) with the contract code     *)
(* they run.  TopShot Match asks for no fees, so the fee loops of          *)
(* verifyUserOffer and executeUserOffer have nothing to iterate over.      *)
(***************************************************************************)
EXTENDS MomentCollection, Functions

CONSTANTS
    ProposalId,     \* bound: the ids unsafeRandom() may yield
    OfferLists,     \* lists of Moments that may be offered or asked for
    OffsetMinutes   \* expirationOffsetMinutes that may be passed

ASSUME OfferAssumption  == OfferLists \subseteq Seq(MomentId) \ {<< >>}
ASSUME OffsetAssumption == OffsetMinutes \subseteq Nat

VARIABLES
    swapStored,       \* accounts with a SwapCollection in storage
    swapPublicLink,   \* interfaces of /public/emSwapCollectionPublic
    swapManagerLink,  \* accounts with /private/emSwapCollectionManager
    swapProposals,    \* swapProposals[a]: the values of a's dictionary
    allowCreation,    \* EMSwap.AllowSwapProposalCreation
    proposalExecuted  \* the ProposalExecuted events of the last transaction

swapVars == << swapStored, swapPublicLink, swapManagerLink, swapProposals,
               allowCreation >>
vars     == << ledgerVars, swapVars, proposalExecuted >>

SwapProposalMinExpirationMinutes     == 2
SwapProposalMaxExpirationMinutes     == 20
SwapProposalDefaultExpirationMinutes == 5

SwapInterface == { "SwapCollectionPublic", "SwapCollectionManager" }

\* A SwapProposal.  leftUserCapabilities are those of the left user's own
\* account; createdAt is a history field the code does not keep.
Proposal ==
    [ id : ProposalId, left : Account, leftNfts : OfferLists,
      right : Account, rightNfts : OfferLists,
      expiration : Nat, createdAt : Nat ]

SwapInit ==
    /\ Init
    /\ swapStored = {}
    /\ swapPublicLink = [a \in Account |-> {}]
    /\ swapManagerLink = {}
    /\ swapProposals = [a \in Account |-> {}]
    /\ allowCreation = TRUE
    /\ proposalExecuted = {}
-----------------------------------------------------------------------------
(***************************************************************************)
(* Contract functions.                                                     *)
(***************************************************************************)

\* Mutant: verifyUserOffer borrows the collection but does not look into it.
OwnsOfferUnchecked(user, nfts) ==
    PubliclyBorrowable(user, {"CollectionPublic"})

\* verifyUserOffer without capabilities: the user holds every Moment of the
\* offer, as seen through the public link of the collection.
OwnsOffer(user, nfts) ==
    /\ PubliclyBorrowable(user, {"CollectionPublic"})
    /\ Range(nfts) \subseteq owned[user]

\* Mutant: the addresses of the capabilities are not compared.
HasSomeCapabilities(user, signer) ==
    PubliclyBorrowable(signer, {"Receiver"})

\* verifyUserOffer's checks on UserCapabilities taken from account signer
\* (in the state where signer's provider link exists): they are the user's
\* own, the provider works, and so does the receiver of the partner's NFTs.
HasCapabilities(user, signer) ==
    /\ signer = user
    /\ PubliclyBorrowable(signer, {"Receiver"})

\* Mutant: withdraw does not ask whether a Moment is locked.
WithdrawableLocked(nfts) == IsInjective(nfts)

\* executeUserOffer withdraws the Moments one by one, so an offer that names
\* one twice panics on the second; a locked Moment panics at once.
Withdrawable(nfts) ==
    IsInjective(nfts) /\ \A m \in Range(nfts) : ~ IsLocked(m)

\* Mutant: only the left offer is executed.
SwappedLeftOnly(holdings, p, signer) ==
    Moved(holdings, p.left, signer, Range(p.leftNfts))

\* The holdings after executeUserOffer of the left, then of the right offer;
\* Moments of the right offer come from the signer's provider.
Swapped(holdings, p, signer) ==
    Moved(Moved(holdings, p.left, signer, Range(p.leftNfts)),
          signer, p.left, Range(p.rightNfts))

\* Mutant: the expiration is not checked.
CanExecuteExpired(p, signer) ==
    /\ OwnsOffer(p.left, p.leftNfts)
    /\ HasCapabilities(p.left, p.left)
    /\ p.left \in providerLink \cup {signer}
    /\ OwnsOffer(p.right, p.rightNfts)
    /\ HasCapabilities(p.right, signer)
    /\ Withdrawable(p.leftNfts)
    /\ Withdrawable(p.rightNfts)

\* SwapProposal.execute does not panic when signer accepts p, having made
\* sure of its own provider link just before.
CanExecute(p, signer) ==
    /\ timestamp <= p.expiration
    /\ OwnsOffer(p.left, p.leftNfts)
    /\ HasCapabilities(p.left, p.left)
    /\ p.left \in providerLink \cup {signer}
    /\ OwnsOffer(p.right, p.rightNfts)
    /\ HasCapabilities(p.right, signer)
    /\ Withdrawable(p.leftNfts)
    /\ Withdrawable(p.rightNfts)
-----------------------------------------------------------------------------
(***************************************************************************)
(* Transactions.                                                           *)
(***************************************************************************)

\* setupAccount.cdc: each block acts only if its resource is absent.
SwapSetupAccount(a) ==
    /\ a \notin collectionStored \/ a \notin swapStored
    /\ SetupMomentCollection(a)
    /\ swapStored' = swapStored \cup {a}
    /\ IF a \in swapStored
       THEN UNCHANGED << swapPublicLink, swapManagerLink >>
       ELSE /\ swapPublicLink' = [swapPublicLink EXCEPT ![a] = SwapInterface]
            /\ swapManagerLink' = swapManagerLink \cup {a}
    /\ proposalExecuted' = {}
    /\ UNCHANGED << totalSupply, owned, lockVars, timestamp, destroyed,
                    swapProposals, allowCreation >>

\* Mutant: a random id is used without asking whether it is taken.
CreateProposalAnyId(left, right, leftNfts, rightNfts, minutes) ==
    /\ minutes \in SwapProposalMinExpirationMinutes ..
                   SwapProposalMaxExpirationMinutes
    /\ allowCreation
    /\ HasCapabilities(left, left)
    /\ OwnsOffer(left, leftNfts)
    /\ OwnsOffer(right, rightNfts)
    /\ providerLink' = providerLink \cup {left}
    /\ swapStored' = swapStored \cup {left}
    /\ IF left \in swapStored
       THEN UNCHANGED << swapPublicLink, swapManagerLink >>
       ELSE /\ swapPublicLink' = [swapPublicLink EXCEPT
                                     ![left] = {"SwapCollectionPublic"}]
            /\ swapManagerLink' = swapManagerLink \cup {left}
    /\ \E id \in ProposalId :
          swapProposals' = [swapProposals EXCEPT ![left] = @ \cup {
              [ id |-> id, left |-> left, leftNfts |-> leftNfts,
                right |-> right, rightNfts |-> rightNfts,
                expiration |-> timestamp + minutes * 1000 * 60,
                createdAt |-> timestamp ] }]
    /\ proposalExecuted' = {}
    /\ UNCHANGED << totalSupply, owned, collectionStored, publicLink,
                    lockVars, timestamp, destroyed, allowCreation >>

\* createProposal.cdc, signed by left: it relinks left's provider if need
\* be, creates left's SwapCollection if it has none (publicly linked without
\* SwapCollectionManager), and stores the proposal under an unused id.
CreateProposal(left, right, leftNfts, rightNfts, minutes) ==
    /\ minutes \in SwapProposalMinExpirationMinutes ..
                   SwapProposalMaxExpirationMinutes
    /\ allowCreation
    /\ HasCapabilities(left, left)
    /\ OwnsOffer(left, leftNfts)
    /\ OwnsOffer(right, rightNfts)
    /\ providerLink' = providerLink \cup {left}
    /\ swapStored' = swapStored \cup {left}
    /\ IF left \in swapStored
       THEN UNCHANGED << swapPublicLink, swapManagerLink >>
       ELSE /\ swapPublicLink' = [swapPublicLink EXCEPT
                                     ![left] = {"SwapCollectionPublic"}]
            /\ swapManagerLink' = swapManagerLink \cup {left}
    /\ \E id \in ProposalId \ { p.id : p \in swapProposals[left] } :
          swapProposals' = [swapProposals EXCEPT ![left] = @ \cup {
              [ id |-> id, left |-> left, leftNfts |-> leftNfts,
                right |-> right, rightNfts |-> rightNfts,
                expiration |-> timestamp + minutes * 1000 * 60,
                createdAt |-> timestamp ] }]
    /\ proposalExecuted' = {}
    /\ UNCHANGED << totalSupply, owned, collectionStored, publicLink,
                    lockVars, timestamp, destroyed, allowCreation >>

\* acceptTrade: signer executes proposal p of left's SwapCollection, after
\* relinking its own provider.  The proposal stays in the collection, and
\* ProposalExecuted is emitted.
AcceptTrade(signer, left, p) ==
    /\ p \in swapProposals[left]
    /\ left \in swapStored
    /\ "SwapCollectionPublic" \in swapPublicLink[left]
    /\ CanExecute(p, signer)
    /\ owned' = Swapped(owned, p, signer)
    /\ providerLink' = providerLink \cup {signer}
    /\ proposalExecuted' = {p}
    /\ UNCHANGED << totalSupply, collectionStored, publicLink, lockVars,
                    timestamp, destroyed, swapVars >>

\* deleteProposal.cdc, signed by anybody: it works only if the collection
\* was publicly linked with SwapCollectionManager.  An unknown id is no
\* error, and no change.
DeleteProposal(left, id) ==
    /\ left \in swapStored
    /\ "SwapCollectionManager" \in swapPublicLink[left]
    /\ \E p \in swapProposals[left] : p.id = id
    /\ swapProposals' = [swapProposals EXCEPT
                            ![left] = { p \in @ : p.id # id }]
    /\ proposalExecuted' = {}
    /\ UNCHANGED << ledgerVars, swapStored, swapPublicLink, swapManagerLink,
                    allowCreation >>

\* SwapProposalAdmin.stopProposalCreation and startProposalCreation.
SetProposalCreation(allowed) ==
    /\ allowCreation # allowed
    /\ allowCreation' = allowed
    /\ proposalExecuted' = {}
    /\ UNCHANGED << ledgerVars, swapStored, swapPublicLink, swapManagerLink,
                    swapProposals >>

\* The transactions that are not the app's own swap transactions.
OtherTransactions ==
    \/ LedgerNext /\ UNCHANGED swapVars /\ proposalExecuted' = {}
    \/ \E a \in Account : SwapSetupAccount(a)
    \/ \E allowed \in BOOLEAN : SetProposalCreation(allowed)

SwapNext ==
    \/ OtherTransactions
    \/ \E left, right \in Account, leftNfts, rightNfts \in OfferLists,
          minutes \in OffsetMinutes :
          CreateProposal(left, right, leftNfts, rightNfts, minutes)
    \/ \E signer, left \in Account : \E p \in swapProposals[left] :
          AcceptTrade(signer, left, p)
    \/ \E left \in Account, id \in ProposalId : DeleteProposal(left, id)

SwapSpec == SwapInit /\ [][SwapNext]_vars
-----------------------------------------------------------------------------
(***************************************************************************)
(* Properties.                                                             *)
(***************************************************************************)

\* The types of all variables; each account's proposals are its own, and
\* keyed by id, as in a dictionary (EMSwap.cdc:255, 386).
SwapTypeOK ==
    /\ LedgerTypeOK
    /\ swapStored \subseteq Account
    /\ swapPublicLink \in [Account -> SUBSET SwapInterface]
    /\ swapManagerLink \subseteq Account
    /\ swapProposals \in [Account -> SUBSET Proposal]
    /\ \A a \in Account : \A p, q \in swapProposals[a] :
          p.left = a /\ (p.id = q.id => p = q)
    /\ allowCreation \in BOOLEAN
    /\ proposalExecuted \subseteq Proposal

AllProposals == UNION { swapProposals[a] : a \in Account }

\* The Moments that a parts with if proposal p is executed.
Promised(p, a) ==
    { m \in MomentId : \/ (p.left = a /\ m \in Range(p.leftNfts))
                      \/ (p.right = a /\ m \in Range(p.rightNfts)) }

\* Nobody loses a Moment without having agreed: it leaves a collection only
\* by the owner's own transaction, or by the execution of an unexpired
\* proposal that promises it, accepted by the very user it was made to,
\* while the proposer's provider is still linked - and then both users have
\* everything they were promised (EMSwap.cdc:327-360, 519-646).
MovesAreConsented ==
    [][\A a \in Account : \A m \in owned[a] \ owned'[a] :
          \/ DestroyCollection(a)
          \/ \E b \in Account : Transfer(a, b, m)
          \/ \E p \in AllProposals :
                /\ m \in Promised(p, a)
                /\ timestamp <= p.expiration
                /\ p.left \in providerLink
                /\ AcceptTrade(p.right, p.left, p)
                /\ Range(p.leftNfts) \subseteq owned'[p.right]
                /\ Range(p.rightNfts) \subseteq owned'[p.left]]_vars

\* A Moment is not spent twice: once a proposal between two users has been
\* executed, no proposal that counts on one of them still having a Moment it
\* gave away can be executed - the executed proposal itself included, which
\* acceptTrade leaves in the collection - until that Moment comes back.
NoDoubleSpend ==
    [][\A p \in AllProposals :
          p.left # p.right /\ AcceptTrade(p.right, p.left, p) =>
             \A q \in AllProposals, a \in {p.left, p.right} :
                Promised(p, a) \cap Promised(q, a) # {} =>
                   ~ CanExecute(q, q.right)']_vars

\* What the documentation of the limits says: a proposal is active for at
\* most SwapProposalMaxExpirationMinutes (EMSwap.cdc:44-45).
SettlesWithinMaxMinutes ==
    [][\A p \in AllProposals :
          AcceptTrade(p.right, p.left, p) =>
             timestamp - p.createdAt <=
                SwapProposalMaxExpirationMinutes * 60]_vars

\* What setupAccount.cdc says it does: it sets the account up to use Top
\* Shot (setupAccount.cdc:6-8), so the account passes queryAccountSetup.cdc.
SetupMakesAccountReady ==
    [][\A a \in Account :
          SwapSetupAccount(a) => QueryAccountSetup(a)']_vars
=============================================================================
