-------------------------------- MODULE Session --------------------------------
(***************************************************************************)
(* Logging in on one device: login of BlockchainViewModel with the check   *)
(* of the account, its set-up and the minting of its first Moments, on the *)
(* ledger of EMSwap.                                                       *)
(*                                                                         *)
(* login is cut at its awaits.  Set-up and minting are two transactions,   *)
(* which the user's wallet signs, or does not, and which go on when the    *)
(* app has stopped.  accountSetUp is read only where it has just been      *)
(* assigned, so that it is no variable here; the feed and the user's       *)
(* Moments, loaded last, are those of Matching and TradingDesk.            *)
(***************************************************************************)
EXTENDS EMSwap

CONSTANTS
    NoUser,       \* the user of a device nobody is logged in on
    Handler,      \* bound: calls of login under way at a time
    NoHandler,    \* marks a transaction nobody waits for any more
    WelcomeSize   \* how many Moments a new user is given

ASSUME SessionAssumption ==
    /\ NoUser \notin Account /\ NoHandler \notin Handler
    /\ WelcomeSize \in BatchSizes

VARIABLES
    userAddress,          \* who is logged in
    accountSetupLoading,  \* whether the sheet of the set-up is shown
    logins,               \* logins[h]: where call h of login is
    sent,                 \* transactions asked for, not sealed or expired
    adminStored,          \* accounts with a TopShot.Admin in storage
    welcomed,             \* history: first mintings each account received
    mishaps               \* history: what has disturbed a login so far,
                          \* a member of Mishap

deviceVars  == << userAddress, accountSetupLoading, logins >>
chainVars   == << ledgerVars, swapVars, proposalExecuted, adminStored >>
sessionVars == << deviceVars, sent, chainVars, welcomed, mishaps >>

\* next: what the call awaits; user and answer: whom the check of the
\* account is about, and what the chain answered, until it is acted upon.
Login ==
    [ next : {"over", "wallet", "check", "answer", "setup", "recheck", "mint"},
      user : Account \cup {NoUser}, answer : BOOLEAN ]
Over == [ next |-> "over", user |-> NoUser, answer |-> FALSE ]

\* A set-up by, or a minting by and for, an account: a request to its wallet
\* until it is signed.
Transaction ==
    [ kind : {"setup", "mint"}, signer : Account,
      by : Handler \cup {NoHandler}, signed : BOOLEAN ]

\* A call threw; the app was left, or the minting expired or was reverted by
\* the catalog; logins overlapped, a set-up expired or a collection was
\* destroyed.
Mishap == { "failure", "abandoned", "irregular" }

SessionInit ==
    /\ SwapInit
    /\ userAddress = NoUser
    /\ accountSetupLoading = FALSE
    /\ logins = [h \in Handler |-> Over]
    /\ sent = {}
    /\ adminStored = {}
    /\ welcomed = [a \in Account |-> 0]
    /\ mishaps = {}
-----------------------------------------------------------------------------
Underway == { h \in Handler : logins[h].next # "over" }

\* The transactions of a call that nobody waits for any more.
Orphaned(calls) ==
    { IF t.by \in calls THEN [t EXCEPT !.by = NoHandler] ELSE t : t \in sent }

\* Mutant: the app asks what queryAccountSetup.cdc asks.
IsAccountSetupReceiver(a) == QueryAccountSetup(a)

\* isAccountSetup, as the chain answers it.
IsAccountSetup(a) == PubliclyBorrowable(a, AppLink)

\* Call h awaits s next.
Awaits(h, s) == logins' = [logins EXCEPT ![h] = [Over EXCEPT !.next = s]]

Returns(h) == logins' = [logins EXCEPT ![h] = Over]

\* sendTx: h asks the wallet to send a transaction in the name of the user
\* logged in now, and stays in fcl.mutate until the wallet has answered.
Sends(h, kind) ==
    sent' = sent \cup {[ kind |-> kind, signer |-> userAddress, by |-> h,
                         signed |-> FALSE ]}

\* Call h is in fcl.mutate, which waits for the wallet without a limit.
WalletAsked(h) == \E t \in sent : t.by = h /\ ~ t.signed

\* The app stops, by itself or not: it starts anew with nobody logged in.
Restarts ==
    /\ userAddress' = NoUser
    /\ accountSetupLoading' = FALSE
    /\ logins' = [h \in Handler |-> Over]
    /\ sent' = Orphaned(Handler)
-----------------------------------------------------------------------------
(***************************************************************************)
(* login.                                                                  *)
(***************************************************************************)

\* The button is there while nobody is logged in and no sheet covers it.
TapLogin(h) ==
    /\ userAddress = NoUser /\ ~ accountSetupLoading
    /\ logins[h] = Over
    /\ Awaits(h, "wallet")
    /\ mishaps' = mishaps \cup (IF Underway = {} THEN {} ELSE {"irregular"})
    /\ UNCHANGED << userAddress, accountSetupLoading, sent, chainVars,
                    welcomed >>

\* fcl.login returns the user, whose account is then checked.
LoggedIn(h, user) ==
    /\ logins[h].next = "wallet"
    /\ userAddress' = user
    /\ logins' = [logins EXCEPT ![h].next = "check", ![h].user = user]
    /\ UNCHANGED << accountSetupLoading, sent, chainVars, welcomed, mishaps >>

CheckAnswered(h) ==
    /\ logins[h].next = "check"
    /\ logins' = [logins EXCEPT ![h].next = "answer",
                                ![h].answer = IsAccountSetup(logins[h].user)]
    /\ UNCHANGED << userAddress, accountSetupLoading, sent, chainVars,
                    welcomed, mishaps >>

\* Mutant: without a user the set-up is sent in nobody's name.
CheckDoneForNobody(h) ==
    /\ logins[h].next = "answer"
    /\ IF logins[h].answer
       THEN Returns(h) /\ UNCHANGED << userAddress, accountSetupLoading, sent >>
       ELSE /\ accountSetupLoading' = TRUE
            /\ Sends(h, "setup") /\ Awaits(h, "setup")
            /\ UNCHANGED userAddress
    /\ UNCHANGED << chainVars, welcomed, mishaps >>

\* An account that is not set up is, by the user logged in by now; if there
\* is none any more, userAddress! of sendTx stops the app.
CheckDone(h) ==
    /\ logins[h].next = "answer"
    /\ \/ /\ logins[h].answer
          /\ Returns(h)
          /\ UNCHANGED << userAddress, accountSetupLoading, sent >>
       \/ /\ ~ logins[h].answer /\ userAddress # NoUser
          /\ accountSetupLoading' = TRUE
          /\ Sends(h, "setup") /\ Awaits(h, "setup")
          /\ UNCHANGED userAddress
       \/ /\ ~ logins[h].answer /\ userAddress = NoUser
          /\ Restarts
    /\ UNCHANGED << chainVars, welcomed, mishaps >>

\* Mutant: the loop does not wait for the transaction to be sealed.
SetupWaitedBriefly(h) ==
    /\ logins[h].next = "setup"
    /\ IF userAddress = NoUser
       THEN Returns(h) /\ accountSetupLoading' = FALSE
       ELSE Awaits(h, "recheck") /\ UNCHANGED accountSetupLoading
    /\ UNCHANGED << userAddress, sent, chainVars, welcomed, mishaps >>

\* setupAccount's loop ends when the transaction is sealed or has expired,
\* and the account is checked again.  Without a user both the check and
\* mintMomentToUser return at once.
SetupWaited(h) ==
    /\ logins[h].next = "setup"
    /\ \A t \in sent : t.by # h
    /\ IF userAddress = NoUser
       THEN Returns(h) /\ accountSetupLoading' = FALSE
       ELSE Awaits(h, "recheck") /\ UNCHANGED accountSetupLoading
    /\ UNCHANGED << userAddress, sent, chainVars, welcomed, mishaps >>

\* The second answer changes nothing: the minting follows in any case.
RecheckDone(h) ==
    /\ logins[h].next = "recheck"
    /\ IF userAddress = NoUser
       THEN Returns(h) /\ accountSetupLoading' = FALSE /\ UNCHANGED sent
       ELSE /\ Sends(h, "mint") /\ Awaits(h, "mint")
            /\ UNCHANGED accountSetupLoading
    /\ UNCHANGED << userAddress, chainVars, welcomed, mishaps >>

\* Mutant: the sheet is not taken away.
MintWaitedCovered(h) ==
    /\ logins[h].next = "mint"
    /\ \A t \in sent : t.by # h
    /\ Returns(h)
    /\ UNCHANGED << userAddress, accountSetupLoading, sent, chainVars,
                    welcomed, mishaps >>

MintWaited(h) ==
    /\ logins[h].next = "mint"
    /\ \A t \in sent : t.by # h
    /\ Returns(h)
    /\ accountSetupLoading' = FALSE
    /\ UNCHANGED << userAddress, sent, chainVars, welcomed, mishaps >>

\* An awaited call throws (or the user declines in the wallet): login ends
\* where it is, and what it asked for may still be signed, sealed or expire.
CallFailed(h) ==
    /\ h \in Underway
    /\ Returns(h)
    /\ sent' = Orphaned({h})
    /\ mishaps' = mishaps \cup {"failure"}
    /\ UNCHANGED << userAddress, accountSetupLoading, chainVars, welcomed >>

\* What login does between two of the user's gestures.
LoginStep(h) ==
    CheckAnswered(h) \/ CheckDone(h) \/ SetupWaited(h) \/ RecheckDone(h)
                     \/ MintWaited(h)
-----------------------------------------------------------------------------
(***************************************************************************)
(* The user and the device.                                                *)
(***************************************************************************)

\* A tap on the address; logout ends no call of login.
Logout ==
    /\ userAddress # NoUser /\ ~ accountSetupLoading
    /\ userAddress' = NoUser
    /\ mishaps' = mishaps \cup (IF Underway = {} THEN {} ELSE {"abandoned"})
    /\ UNCHANGED << accountSetupLoading, logins, sent, chainVars, welcomed >>

\* The sheet can be swiped away, and login goes on.
DismissSetup ==
    /\ accountSetupLoading
    /\ accountSetupLoading' = FALSE
    /\ UNCHANGED << userAddress, logins, sent, chainVars, welcomed, mishaps >>

AppKilled ==
    /\ Restarts
    /\ mishaps' = mishaps \cup (IF Underway = {} THEN {} ELSE {"abandoned"})
    /\ UNCHANGED << chainVars, welcomed >>
-----------------------------------------------------------------------------
(***************************************************************************)
(* The chain.                                                              *)
(***************************************************************************)

\* The user approves the transaction, and the wallet signs and submits it.
WalletSigns(t) ==
    /\ t \in sent /\ ~ t.signed
    /\ sent' = (sent \ {t}) \cup {[t EXCEPT !.signed = TRUE]}
    /\ UNCHANGED << deviceVars, chainVars, welcomed, mishaps >>

\* Mutant: set-up does not store an Admin.
SetupSealedNoAdmin(t) ==
    /\ t \in sent /\ t.signed /\ t.kind = "setup"
    /\ sent' = sent \ {t}
    /\ IF t.signer \in collectionStored \cap swapStored
       THEN UNCHANGED << ledgerVars, swapVars >> /\ proposalExecuted' = {}
       ELSE SwapSetupAccount(t.signer)
    /\ UNCHANGED << adminStored, deviceVars, welcomed, mishaps >>

\* setupAccount: what is absent is stored and linked, an Admin included.
SetupSealed(t) ==
    /\ t \in sent /\ t.signed /\ t.kind = "setup"
    /\ sent' = sent \ {t}
    /\ IF t.signer \in collectionStored \cap swapStored
       THEN UNCHANGED << ledgerVars, swapVars >> /\ proposalExecuted' = {}
       ELSE SwapSetupAccount(t.signer)
    /\ adminStored' = adminStored \cup {t.signer}
    /\ UNCHANGED << deviceVars, welcomed, mishaps >>

\* What minting asks of the account: to have an Admin and a linked collection.
CanMint(a) == a \in adminStored /\ PubliclyBorrowable(a, AppLink)

\* The Moments are minted, unless the catalog does not have Set 1 or one of
\* the Plays drawn at random, or has retired it: then, as for an account that
\* cannot mint, the transaction is sealed with an error and without effect.
MintSealed(t) ==
    /\ t \in sent /\ t.signed /\ t.kind = "mint"
    /\ sent' = sent \ {t}
    /\ \/ /\ CanMint(t.signer)
          /\ BatchMint(t.signer, WelcomeSize)
          /\ welcomed' = [welcomed EXCEPT ![t.signer] = @ + 1]
          /\ UNCHANGED mishaps
       \/ /\ mishaps' = mishaps \cup (IF CanMint(t.signer) THEN {"abandoned"}
                                                          ELSE {})
          /\ UNCHANGED << ledgerVars, welcomed >>
    /\ proposalExecuted' = {}
    /\ UNCHANGED << swapVars, adminStored, deviceVars >>

\* The chain never executes the transaction.
Expired(t) ==
    /\ t \in sent /\ t.signed
    /\ sent' = sent \ {t}
    /\ mishaps' = mishaps \cup (IF t.kind = "setup" THEN {"irregular"}
                                                   ELSE {"abandoned"})
    /\ UNCHANGED << deviceVars, chainVars, welcomed >>

Settles(t) == SetupSealed(t) \/ MintSealed(t) \/ Expired(t)

\* What users do with a wallet.
ElsewhereInWallet ==
    /\ \E a \in Account :
          \/ WalletSetup(a) /\ UNCHANGED mishaps
          \/ DestroyCollection(a) /\ mishaps' = mishaps \cup {"irregular"}
    /\ proposalExecuted' = {}
    /\ UNCHANGED << swapVars, adminStored, deviceVars, sent, welcomed >>
-----------------------------------------------------------------------------
SessionNext ==
    \/ \E h \in Handler :
          \/ TapLogin(h)
          \/ \E user \in Account : LoggedIn(h, user)
          \/ LoginStep(h)
          \/ CallFailed(h)
    \/ Logout
    \/ DismissSetup
    \/ AppKilled
    \/ \E t \in sent : WalletSigns(t) \/ Settles(t)
    \/ ElsewhereInWallet

\* Awaited queries are answered, and a signed transaction is sealed or
\* expires.  Nothing obliges a wallet to sign, or to answer at all.
SessionFairness ==
    \A h \in Handler :
       /\ WF_sessionVars(LoginStep(h))
       /\ WF_sessionVars(\E t \in sent : t.by = h /\ Settles(t))

SessionSpec ==
    SessionInit /\ [][SessionNext]_sessionVars /\ SessionFairness
-----------------------------------------------------------------------------
(***************************************************************************)
(* Properties.                                                             *)
(***************************************************************************)

\* The types of the session's variables: whatever is sent is sent in the
\* name of somebody.
SessionTypeOK ==
    /\ SwapTypeOK
    /\ userAddress \in Account \cup {NoUser}
    /\ accountSetupLoading \in BOOLEAN
    /\ logins \in [Handler -> Login]
    /\ sent \subseteq Transaction
    /\ adminStored \subseteq Account
    /\ welcomed \in [Account -> Nat]
    /\ mishaps \subseteq Mishap

\* A user is given first Moments once, however often login fails, is
\* abandoned by a logout or is killed and repeated in between, and although
\* the transactions go on without it: once set up, an account is recognised
\* (BlockchainViewModel.swift:82-95).  Excepted are logins that overlap, a
\* set-up that expired before the minting, and destroyed collections.
WelcomedAtMostOnce ==
    "irregular" \notin mishaps =>
       \A a \in Account : welcomed[a] <= 1

\* The minting builds on the set-up: with the same exceptions it is never
\* sent by an account whose Admin is not stored yet, or for one without a
\* collection (BlockchainViewModel.swift:87-93, 309-324).
MintingsCanSucceed ==
    "irregular" \notin mishaps =>
       \A t \in sent : t.kind = "mint" => CanMint(t.signer)

\* No call of login waits for a wallet for ever: a premise, which the code
\* cannot establish (BloctoWalletProvider.swift:212-230 has no timeout).
WalletsAnswer == \A h \in Handler : []<> ~ WalletAsked(h)

\* If wallets answer, a login that finds an account not set up ends with the
\* account set up and its first Moments minted, unless something disturbs a
\* login or the catalog reverts the minting (BlockchainViewModel.swift:82-95).
NewcomersAreWelcomed ==
    WalletsAnswer =>
       \A a \in Account :
          (\E h \in Handler : /\ logins[h].next = "answer"
                              /\ logins[h].user = a /\ ~ logins[h].answer)
             ~> (welcomed[a] > 0 /\ CanMint(a)) \/ mishaps # {}

\* If wallets answer, the sheet of the set-up does not stay for ever, even if
\* transactions expire or are reverted and logins overlap; only a call that
\* throws leaves it there (BlockchainViewModel.swift:86-94).
SetupSheetGoes ==
    WalletsAnswer =>
       (accountSetupLoading ~> ~ accountSetupLoading \/ "failure" \in mishaps)
=============================================================================
