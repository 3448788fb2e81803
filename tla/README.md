# TopShot Match: a TLA+ verification project

TopShot Match is an iOS app with which owners of NBA Top Shot Moments swipe
through each other's *trading blocks*, like Moments, are told of a match, and
swap Moments through a smart contract on the Flow blockchain. This directory
holds TLA+ modules translated from the source, the TLC configurations that
check them on small instances, and TLAPS proofs for every instance.

To check a run: `tlc -config X.cfg M` with the module and configuration
`PROJECT.json` names under `runs`; to check the proofs: `tlapm M.tla` on
`SequenceLemmas`, `EMSwapProofs`, `SwapFeesProofs`, `SessionProofs`,
`EditionsProofs`, `MatchingProofs`, `TradingDeskProofs` and
`SwapNotifierProofs`.

## 1. Inventory

| Component | Source | State | Operations | Modelled in |
|---|---|---|---|---|
| Moment collections | `TopShot.cdc` (`Collection`, `NFT`), `setupAccount.cdc`, `batch_mint_moment.cdc` | the Moments of each account, the public and the private link to its collection, `totalSupply` | set-up, mint, withdraw and deposit, destroy | `MomentCollection` |
| Locking | `TopShotLocking.cdc` | expiry of each lock, admin overrides | lock, unlock, override, unlock all | `MomentCollection` |
| Swap contract | `EMSwap.cdc`, `createProposal.cdc`, `acceptTrade.cdc`, `deleteProposal.cdc` | each account's SwapCollection (proposals by id), its links, the pause switch | propose, execute, delete, pause, resume | `EMSwap` |
| Swap fees | `EMSwap.cdc` (`Fee`, the fee loops) | fees of a proposal, vaults, links to vaults | ask for fees, check and charge them at execution | `SwapFees` |
| Editions | `TopShot.cdc` (`Set`, `Play`, `Admin`, `SubeditionAdmin`) | plays, sets, retirement, locks, series, minted counts, subedition records | create, add, retire, lock, mint | `Editions` |
| Trading blocks and likes | `TopShotMatch.cdc` and its transactions | `tradingBlock`, `likedMomentsRelationship` | replace a block, remove a Moment, add likes, reset; the feed query | `TopShotMatch` |
| App: likes and matches | `BlockchainViewModel.swift`, `ContentView.swift` | the feed, queued likes, the prompt shown, running queries and submissions | log in and out, load the feed, swipe, submit likes, open and close prompts | `Matching` |
| App: notifications | `checkForExecutedTrades`, `notifySwap` | swaps already notified, running checks | poll every five seconds, notify, refresh | `SwapNotifier` |
| App: session and set-up | `login`, `logout`, `isAccountSetup`, `setupAccount`, `mintMomentToUser` | the address, the sheet of the set-up, logins and transactions under way | log in, set up, first minting, log out | `Session` |
| App: own Moments and block | `getUserNfts`, `updateTradingBlock`, `getUserTradingBlock` | cached Moments and their block marks | load, toggle, save | `TradingDesk` |
| App: proposing and pending trades | `getPendingTrades`, `submitTradeProposal`, `submitTradeAcceptance`, `deleteProposal`, `queryProposals.cdc` | the list of proposals made to the user | query, propose, accept, decline | `TradingDesk` |
| Views, metadata, deployment, `ios/Pods` | | | | not modelled |

How they interact. The app sends *scripts* (queries) and *transactions* to the
chain. A transaction is atomic: a `panic` or a failed `assert` undoes all of
it. So every transaction is one action of a module, guarded by the condition
under which nothing in it panics; interleaving happens between transactions,
and, in the app, at every `await`. The contracts call each other directly
(`TopShot` asks `TopShotLocking`; `EMSwap` borrows collections through
capabilities) and `acceptTrade` calls `EMSwap` and `TopShotMatch` in one
transaction.

What is hard. Between a proposal and its acceptance anything may happen to the
offered Moments and to the capabilities stored with the proposal. Links outlive
what they lead to, and depend on which transaction ran first. Deadlines mix
units. Counters of Moments are keyed by concatenated ids. In the app every
handler is cut at its `await`s, the waiting loops ignore the outcome of the
transaction they wait for, the timer starts overlapping checks, and caches
(feed, own Moments, pending trades) are stale by design. The list with lines is
`hazards` in `PROJECT.json`.

What makes each component correct:

- collections: each minted Moment is in exactly one collection or destroyed;
- locking: a locked Moment stays put; a lock ends when it has expired or by an
  admin's override, which may be older than the lock;
- swap contract: swaps are atomic and consented to, no Moment is spent twice;
- swap fees: both users pay every fee once, with the swap or not at all; once
  the checks have passed a payment fails only for what they do not look at, a
  receiver's link or a user who trades with himself;
- session and set-up: first Moments are given at most once as long as logins do
  not overlap, no set-up expires and no collection is destroyed; a newcomer does
  get them if his wallet answers, nothing disturbs the login and the catalog has
  what is to be minted;
- editions: counts are right, retirement is final, and a serial number is given
  out once within an edition and subedition, where a plain Moment and one minted
  with subedition 0, which both say 0, count as two;
- trading blocks and likes: the chain records only likes that were swiped;
- likes and matches: an announced match rests on a like that was sealed, which
  only a reset of the contract can have erased since; a like reaches the chain;
- proposing and pending trades: who accepts a trade gets what he was shown;
- notifications: a swap is notified, and once.

## 2. Modules

- **MomentCollection** models `TopShot.Collection` and `TopShotLocking`.
  `owned[a]` is the key set of the `ownedNFTs` of a's collection (not an owner
  per Moment, so that "one holder" is something to show), `publicLink[a]` the
  interfaces linked at `/public/MomentCollection`, `providerLink` the accounts
  with a link at `/private/MomentCollection`, `lockedNFTs`/`unlockableNFTs` the
  dictionaries of `TopShotLocking`, `destroyed` the log of `MomentDestroyed`
  events. `WalletSetup`, `RevokeProvider` and `Transfer` are things an owner's
  wallet does; they are external, modelled from what the code relies on.
  `LockTypeResolves` is FALSE for the source as committed: line 51 of
  `TopShotLocking.cdc` unwraps `CompositeType("A.TOPSHOTADDRESS.TopShot.NFT")`,
  whose address is a placeholder, so every `lockNFT` panics. The run
  `settlement` sets it to TRUE, as it is once the placeholder is filled in.
- **EMSwap** extends the ledger with the SwapCollections. `swapProposals[a]` is
  the set of values of a's dictionary; `CanExecute` is what
  `SwapProposal.execute` asserts, `Swapped` what it does. `AcceptTrade` is the
  transaction the app sends, which leaves the executed proposal in place (the
  `acceptTrade.cdc` of the repository also calls `deleteProposal` on a
  reference whose type does not offer it). `proposalExecuted` holds the
  `ProposalExecuted` event of the last transaction; without it half a swap
  could pass for a gift in the refinement.
- **AtomicSwap** states what a swap market promises: Moments change hands by
  gift or by settling a deal that is on the table, in full.
- **EMSwapRefinement** maps the ledger and the proposals to the market.
- **SwapFees** extends the transactions of `EMSwap` by their fees. `balance` is
  what the vaults contain, `feeProvider` and `feeReceiver` the links to them
  that stand, `proposalFees` the fees stored with each proposal. `FeesVerified`
  is the loop of `verifyUserOffer` with its running totals (`FeeSum`),
  `AfterFees` that of `executeUserOffer`, `Withdrawals` that none of its
  withdrawals asks for too much. Both loops are functions of the round, so that
  proofs can speak of the totals and of the vaults after each fee. The app
  proposes no fees; other clients of the contract may.
- **Session** cuts `login` at its awaits: `LoggedIn`, `CheckAnswered`,
  `CheckDone`, `SetupWaited`, `RecheckDone`, `MintWaited` are what it does from
  one answer to the next. `logins[h]` is where call h is; the check of the
  account captures its user, everything else reads `userAddress` when it gets
  there, as in the code. `sent` holds the transactions asked for, which outlive
  the call that waits for them (`by`). Until `WalletSigns` one is a request that
  `fcl.mutate` waits for; only a signed one is sealed or expires. A call may
  throw, the user may log out, swipe the sheet away or tap the button again, the
  app may be killed. A minting also depends on the catalog of `Editions`: that
  Set 1 or a Play is missing or retired is a choice of `MintSealed` here, sealed
  with an error that the app does not look at. `mishaps` and `welcomed` are
  history variables.
  `BatchMint` here is for the user's own collection; the four plays of a first
  minting are `WelcomeSize` Moments.
- **Editions** models the catalog side of `TopShot.cdc`. A Set is a record of
  its `retired` and `numberMintedPerPlay` dictionaries and its lock; a Play is
  reduced to its tagline; `minted` is the log of `MomentMinted` events. The
  subedition key is the concatenation of three ids in decimal, as in the code.
  No subedition id is checked there, so that 0 is among those passed; the log
  has `Plain` for a Moment of `mintMoment`, and `MomentSubeditionID` is 0 for
  both, as in the event.
  Nobody owns an Admin: `createAdminCollection` hands one to everybody.
- **TopShotMatch** is the contract of trading blocks and likes. `Feeds(user)`
  is the set of the results `getGlobalTradingBlockExcludingUser` may return:
  when several users list one Moment, the order of dictionary keys decides
  whose card is shown.
- **Matching** puts devices in front of that contract. A handler that awaits
  the chain is several actions: `GetGlobalTradingBlock` (the question is
  asked), `AnswerQuery` (the chain answers), `FeedLoaded` (the rest of the
  handler); `SubmitLikedMoments`, `SubmissionSealed` / `Failed` / `Throws`,
  `SubmissionDone`. A handler that throws while it asks for the status leaves a
  transaction that goes on by itself (`StraySealed`). In between the user may
  swipe, log out, log in. `ContractReset` is `reset.cdc`, which anybody can send.
  `prompt` is the alert or sheet that covers the cards. `swiped` and
  `forgotten`, the likes that a reset erased, are history variables.
- **TradingDesk** puts devices in front of `EMSwap` and `TopShotMatch`
  together. What a device shows (`userMoments`, `pendingTrades`) is filled by
  the answers of queries; `sent` holds the transactions under way, whose
  arguments come from what was shown. `getUserNfts` is two actions, as its two
  scripts are answered in different states; otherwise an answer and its display
  are one step, because what is shown may be used arbitrarily late anyway.
  `TradeAccepted` is the app's acceptance: the swap and the removal of both
  Moments from the blocks, together. Proposal ids are 64-bit random numbers, of
  which the model assumes that none comes twice (`usedIds`); within one
  SwapCollection the contract makes sure of it itself.
- **SwapNotifier** follows `checkForExecutedTrades` for one user. A running
  check is a record of the events it has left and of the step it does next;
  `Insert` may lose a concurrent insertion, because the Swift set is not
  protected and the function not confined to the main actor. `mishaps`
  records whether checks ever overlapped or a call ever failed, that of the
  latest block or of the events included (`PollFails`).
- **SequenceLemmas**, **EMSwapProofs**, **SwapFeesProofs**, **SessionProofs**,
  **EditionsProofs**, **MatchingProofs**, **TradingDeskProofs**,
  **SwapNotifierProofs**: section 5.
- **MCEMSwap**, **MCSwapFees**, **MCSession**, **MCEditions**, **MCMatching**,
  **MCTradingDesk** give the constants values and, where a run restricts what
  may happen, say so in an operator of their own (`Settlement`, `OneWallet`).

Operators commented *Mutant* are deliberately wrong variants of the definition
that follows them; each breaks a property and shows that the property speaks
about that code. No specification uses them.

## 3. Runs

| Run | Question | Bounds |
|---|---|---|
| `swap` | Types, conservation, consent, double spending and the refinement of the market, from empty accounts | 2 accounts, 2 Moments minted singly or together, 1 proposal id per account, times before and after expiry |
| `settlement` | Fees with the swap or not at all, why a payment can fail after the checks, locks against transfers and swaps, the refinement step by step | 2 accounts and a platform, 2 Moments, 1 proposal of alice's at a time, 3 lists of fees (none, twice to one receiver, to a user), 2 tokens each, locks of 60 s with overrides, times 0 and 60 |
| `session` | First Moments are given once, and given if wallets answer and nothing goes wrong; nothing is sent in nobody's name; the sheet goes | 2 users, 2 calls of login, 1 transaction nobody waits for |
| `editions` | Serial numbers, counts, subedition records, retirement | 2 Plays, 1 Set, 3 Moments in batches of 1 or 2, subedition ids 0, 1 and 2, 2 series |
| `matching` | Announced matches rest on likes that were sealed, likes on the chain were swiped by their user | 2 users on devices of their own, 1 Moment each, 1 feed query and 1 submission under way in all, either may fail; resets |
| `desk` | An accepted trade is the one that was shown, clears both blocks, and was not declined; each step is one of the market | alice offers, bob answers; 2 Moments, 2 proposals in all, 1 transaction under way, gifts and resets at any time |
| `notifier` | Who is notified of a swap, how often, and eventually | 2 swaps, 2 checks at a time, window 4, a check every 2 blocks, 9 blocks |
| `max_minutes` | violated: a proposal ends after the documented 20 minutes | |
| `setup_ready` | violated: setupAccount makes an account ready to trade | |
| `subedition_keys` | violated: the number minted per subedition is what it is said to count | 11 Plays, so that ids have two digits |
| `lost_likes` | violated: a like leaves the queue only for the chain | 2 likes |
| `missed_swap` | violated: every swap is notified | the window of 10 and interval of 5 blocks of the code |

Why the bounds are enough. A transfer, a swap or a proposal concerns two
accounts; third accounts, pairs and doubled Moments, several proposals at once
are covered by the theorems of section 5, which hold for every value of the
constants. `settlement` starts in an open market and leaves out what `swap`
has (minting, pausing, destruction), so that both users can pay a list once
but not twice, a payment can lack funds or a link, and a lock can meet a
proposal. In `session` one user may have set the account up by a wallet, and a
collection is destroyed at most once; the second call of login starts while the
first is under way and no transaction is left alone, and is the other user's,
so that calls overlap and users change in between. Proposals play no part there.
What matters of time
is whether a deadline has passed, so the clock takes one or two steps. In
`editions` three Moments allow a batch after a single one and plain minting
between two mintings with a subedition, and a plain Moment next to one of
subedition 0; Sets do not touch each other except through the subedition key,
which `subedition_keys` looks at. In `matching` a
match needs two users, who are symmetric; that one submission is under way at a
time still lets it outlast its handler, a logout and a reset. Several at once,
users who share a device, and which owner the feed shows when three users list
one Moment are covered by the theorems about `Matching`. In `desk` a trade needs
one who offers and one who answers; the second proposal undercuts or repeats
the first. One transaction is under way at a time: its arguments depend on the
display alone, so that a second one sent early is no different from one sent
later from a display as old. `notifier` scales the window and the timer period
down from 10 and 5 to 4 and 2 and leaves five blocks after the window; its
claims depend only on the window being at least the period.

Deadlock is checked in every run: the system can always do something, if only
the pause switch, a gift of tokens, a relogin or another poll.

The specifications of the chain and of `Matching` have no fairness, as nobody
is obliged to trade; their properties are about states and steps.
`SwapNotifier` has `FairSpec`: the chain keeps sealing blocks, the timer of
`ContentView` repeats, and a call that is awaited returns or fails. Nothing is
assumed of failures. `SpacedSwapsGetNotified` is restricted to swaps at least
one timer period after the previous one, because the check returns at the first
swap that is marked already; `missed_swap` shows what happens to the others.

`SessionSpec` has weak fairness of what `login` does next, which the main actor
runs once a query is answered or a loop has ended, and of the signed
transactions somebody waits for: Flow seals them or lets them expire. Nothing
obliges a user to log in, a wallet to sign or to answer, a transaction to be
sealed rather than to expire, a minting to succeed, or a transaction nobody
waits for to end at all. While a wallet does not answer, `fcl.mutate` waits
without a limit (`BloctoWalletProvider.swift:212-230`) and the sheet stays:
both liveness properties have the premise `WalletsAnswer`, that no call of
login waits for a wallet for ever. `NewcomersAreWelcomed` is moreover about
logins nothing happened to and mintings the catalog did not revert,
`SetupSheetGoes` about all in which no call threw.

## 4. Disagreements between the code and what is said of it

`findings` in `PROJECT.json` quotes both sides of the five violated runs. Others
were met while modelling and are not kept as runs:

- A user whose SwapCollection was created by `createProposal.cdc` is linked
  without the Manager interface; `deleteProposal.cdc` then panics, so his
  proposals can neither be declined nor withdrawn.
- The `serialNumber` of a Moment minted with a subedition counts that
  subedition, not, as `TopShot.cdc:547-548` says, the edition.
- A plain Moment and one minted with subedition 0 of the same edition can both
  be number 1 of subedition 0: `mintMomentWithSubedition` checks no id
  (`TopShot.cdc:424-455`), and the two are counted apart.
- A user who likes a Moment of somebody whose like is on the chain already is
  not prompted if his feed was fetched before that like
  (`BlockchainViewModel.swift:65`), although `ContentView.swift:217` says so.
- An update of a trading block that is under way while a trade is executed puts
  the traded Moment back on the block of its former owner.
- The view for proposing a trade unwraps `likedMoments.last!`
  (`ContentView.swift:182`), which a submission that ends meanwhile empties.
- Two calls of `login` that overlap both find the account not set up, and both
  mint first Moments (`BlockchainViewModel.swift:76` has no guard).
- A logout while the account is checked makes `userAddress!` of `sendTx`
  (`BlockchainViewModel.swift:1043`) stop the app; a logout and another user's
  login during the set-up make the first Moments go to that other user.
- An account whose set-up was sealed but whose minting was lost counts as set
  up and never gets first Moments; one whose set-up expired may be given them
  twice, if the minting sent all the same is sealed after the next login's
  set-up.
- A user set up by another wallet skips the set-up and so has no SwapCollection
  linked with the Manager interface.
- A minting that the catalog reverts is sealed, with an error that nothing looks
  at: the sheet goes, and the account, being set up, never gets first Moments.
- A call that throws during the set-up, or a wallet that does not answer, leaves
  its sheet on the screen until it is swiped away.
- A fee receiver whose link is removed after the proposal was created makes its
  execution panic at `EMSwap.cdc:619`; the checks before look only at the users'
  vaults.
- After a reset of `TopShotMatch` the feeds on the devices still announce
  matches whose likes are gone.
- A proposal with oneself may pass the checks of its fees and yet fail on its
  payments, as both sides draw on one vault; it only panics.
- A feed query answered after another user logged in on the device shows the
  feed, and announces the matches, of the previous one.

## 5. Proofs

All proofs are for every value of the constants that satisfies the named
assumptions, and are checked by SMT, Zenon and, in the last step, PTL.

`SequenceLemmas` has what the other modules need of sequences and loops:
`RemoveAt` and `RemoveFirst`, `SetToSeq`, and two facts about a loop over
1 .. n. `UpTo` is induction with the property given as a set of rounds: were
some round missing from it, there would be a least one (`LeastOf`, from the
well-foundedness of the numbers). `LoopRuns` says that a loop has a value after
each round, which a function defined by recursion has only if that is shown.

`EMSwapProofs` begins with the ledger. `LedgerInv` is inductive: types,
conservation and that nothing is held where nothing is stored. The last part is
no claim about the code, whose Moments are inside the stored resource; `owned` is
a total function in the model and the proof of a re-created collection has to
be told. The types are needed for the ids above `totalSupply`. From it: type
correctness, conservation, that no transfer moves a locked Moment and that a
lock ends early only where an admin has overridden it (`LocksAreHonoured`).

Then the swap contract. `SwappedValue` computes where everything is after both
halves of a swap, one of which may give back what the other gave;
`AcceptedProposal` says what the verification guarantees. From these and the
invariant follow type correctness (proposal ids are unique in their account),
conservation, consent (`MovesAreConsented`), `NoDoubleSpend`,
`LockedMomentsStayPut` and `LocksAreHonoured`.

Last the refinement: every behaviour of the swap contract is one of
`AtomicSwap` (`SwapImplementsMarket`). The refinement mapping finds the holder
of a Moment by a CHOOSE, so `HolderOfValue` first shows from conservation that
there is one to find; then each transaction gets a lemma that names the market
step it is (a gift, a settlement, a proposal, a retraction, an issue, a burn) or
shows that it is a stutter.

`SwapFeesProofs`: fees only add conditions and payments to the transactions of
`EMSwap` (`StepOfSwapOrVaults`), so the invariant, conservation, no double
spending, locks and the refinement step by step carry over to any fees, vaults
and links.

The payments themselves are loops over a list of any length. `PaymentsAddUp`
says what they do: after i fees the payer's vault of a token is down by the
running total of that token, every holder's vault is up by the running total of
the fees it receives. The verification compared the balance with the same
totals, and what a payer receives meanwhile only helps, so no withdrawal fails:
not the first user's (`CoveredCanBePaid`), and not the second's either, whom the
first one's payments leave with at least what was verified (`OthersKeepCover`).
That supposes that receivers' links stand, which the execution does not check,
and that the two users are not the same; `OnlyUncheckedPaymentsFail` says that
nothing else can make a payment fail. With `FeesInv` it also follows that no
vault is ever overdrawn (`FeesTypeOK`). `FeesArePaidWithTheSwap` takes the sums of
both users together, whichever of them receives fees himself (`SettledChange`).

`SessionProofs`: `WelcomedAtMostOnce` is not inductive. `SessionInv` adds what
is known of an account at each await of `login` (`LoginKnows`: from the answer
"not set up" until the minting is sent, nothing was given or is on its way), of
the transactions asked for (`SendersWait`: a call waits for its own;
`WelcomesAreFirst`: no two mintings for one account, none for one that has
been given something, all for accounts whose set-up is complete) and of links
(`LinksComplete`: a collection is linked as the app or a wallet links it, so
that a set-up cannot leave an account not set up). All but the last and
`SendersWait` are claimed only until logins overlap, a set-up expires or a
collection is destroyed. From it follow type correctness, `WelcomedAtMostOnce`
and `MintingsCanSucceed`, for any number of users, logins, failures and
restarts. Finally the session as a whole is a behaviour of the swap contract
and its ledger (`SessionUsesTheContract`).

`EditionsProofs`: `SerialsUnique` is not inductive. `CountersAhead` strengthens
it: every counter is at least as large as the serial numbers it gave out, also
where two subeditions share a counter because their keys coincide. With it a
counter gives out no number twice, whatever the keys are; a plain Moment and one
of subedition 0 have different counters, which is the exception `SerialsUnique`
makes. Retirement and closing are final because Sets only ever close
(`SetsOnlyClose`) and nothing is minted from a retired edition.

`CatalogInv` adds the counts, the places and the records. `MintsEffect` gives
both ways of minting one form: a batch adds its q Moments to one edition and
raises the edition's count by q, so that `EditionCounts` stays true by the
cardinality of a disjoint union. The places need the counts: the next serial
number of a plain minting is the count plus one, with or without subeditions,
which is the place of a Moment whose id is above all others. The records stay
because `momentsSubedition` is only ever extended, and what is minted with a
subedition is entered in the same transaction.

`MatchingProofs` has three invariants. `MatchingInv`: queries and submissions
are in the name of a user of their device (`UsersAtHome`), and likes that are
queued or under way were swiped there (`LikesWereSwiped`), so that no like on
the chain is invented. `FeedInv` says of every card, in an answer, on the screen
or among the likes, that it is from the feed of a user of that device
(`CardFor`): of another owner, and if it speaks of a like, that like reached the
chain. It lasts because what the contract has or had until a reset only grows
(`EverOnChain`); from it follows `MatchesAreReal`, also where users share a
device, of whom the one who is told need not be the one the feed was for.
`OwnDeviceInv` assumes `OneUserEach`, that one user logs in on each device, and
gives `NobodyLikesThemselves`, which does not hold otherwise. That removing a
Moment from a block leaves a list of Moments rests on `RemoveFirst` finding a
least index, which `SequenceLemmas` shows.

`SwapNotifierProofs`: `NotifierInv` says that checks look at executed swaps
(`SoundCheck`) and, as long as no two overlapped, that there is one at most,
that what was notified is marked, and that a check about to mark a swap finds
it unmarked and about to notify it finds it not notified (`CheckKnows`). A check
that is given up leaves a swap marked and not notified, never the other way
round; hence `NotifiedAtMostOnce`.

`SpacedSwapsAreNotified` has its own invariant on top, `NoticeInv`, which holds
with overlapping checks too. The timer keeps up (`TimerKeepsUp`) and swaps are
in order of height (`SwapsInOrder`), so that between the block in which the
older swaps have left the window and the one in which a spaced swap leaves it
some check is asked for, whose first event is that swap (`FirstInWindow`).
`FirstAreServed` says that from then on the swap is notified or some check is
at it. It needs `MarkedAreServed` where a check stops at a swap that is marked:
whatever is marked, or was when some check looked, is notified or about to be.
Both need that no call failed. They also need the window to be no shorter than
the timer period (`NotifierAssumption`; 10 blocks against about five in the
code): with a window of 4 blocks and a period of 6 a swap can fall between two
checks.

`TradingDeskProofs` works on top of the invariant of the swap contract. Its
properties are about transactions that name a proposal by its id alone.
`DeskInv` therefore says what an id stands for: every proposal has an id that
was drawn (`ProposalsAreDrawn`), and every trade that some device shows, some
transaction carries or somebody declined has a drawn id too, so that a proposal
found under it is the one the trade was read from (`TradesAreNamed`); what was
declined is gone (`DeclinedAreGone`). A drawn id never comes again, so a stale
display may lead to a failed transaction but not to another trade. That both
Moments leave the blocks needs in addition that no block lists a Moment twice
(`BlocksListOnce`), as `removeMomentFromTradingBlock` strikes off the first
occurrence only. `DeskAssumption` asks of `OfferLists` that it contains the
one-Moment lists the app proposes, and of `OffsetMinutes` that it contains the
default. With these every step of the devices and the chain is a transaction of
`EMSwap` or leaves it alone (`DeskUsesTheContract`): trading with the app
implements the market (`DeskImplementsMarket`), and consent and spending once
hold of all its users together.

Induction over data is available only in the form of `UpTo`, with the property
given as a set: the library's induction theorems take it as an operator, which
the provers cannot instantiate. The model's loops are therefore functions of
the round, never RECURSIVE operators.

Only model-checked: liveness, which is out of the prover's reach
(`NewcomersAreWelcomed`, `SetupSheetGoes`, `SpacedSwapsGetNotified`). The five
violated runs are TLC's as well. Every invariant and every action property of
a passing run is a theorem.

## 6. Plan

Done: the ledger, the swap contract with its abstract market and its fees, the
catalog, the trading blocks with likes and matches, trading with the app, the
notifications, the session; a theorem for every invariant and action property
that a run checks. What is left:

1. Abstract specifications of other components than the market, and proofs that
   they are implemented: of the likes (a like is swiped, under way or on the
   chain), of a user's welcome.
2. For which ids the concatenated subedition keys differ, and that then the
   places within subeditions are numbered as those of plain editions are.
3. A model of a view that is open while a submission or a query ends (the
   unwrapped `likedMoments.last!` and `originalGlobalTradingBlock!`).

## 7. Not modelled

Metadata views and getters (pure functions of plays and sets), SwiftUI layout
and gestures other than those that start a handler, the handshake of the wallet
behind `fcl.login`, deployment scripts, and everything under `ios/Pods`. The
last is by far most of the repository's lines: cryptography, networking and
Flow's SDK, written by others and used here only through `fcl`. The contracts
and the app themselves, which `map` covers, are a few thousand lines of Cadence
and Swift.
