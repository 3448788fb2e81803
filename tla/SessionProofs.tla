----------------------------- MODULE SessionProofs -----------------------------
(***************************************************************************)
(* Proofs about the session, for any accounts, any number of logins under  *)
(* way and any bounds: what is sent is sent in the name of somebody, first *)
(* Moments are given once, and the minting builds on the set-up.           *)
(***************************************************************************)
EXTENDS Session, EMSwapProofs

\* The links of collections are those the app and wallets make, and a
\* collection in storage is linked.
LinksComplete ==
    \A a \in Account :
       /\ publicLink[a] \in { {}, AppLink, WalletLink }
       /\ a \in collectionStored => publicLink[a] # {}

\* A call whose transaction is under way awaits it.
SendersWait ==
    \A t \in sent : t.by # NoHandler => logins[t.by].next = t.kind

\* Only one call of login is under way.
OneLogin == \A h, k \in Handler : h \in Underway /\ k \in Underway => h = k

\* The user has not been given anything, and nothing is on its way.
NotWelcomed(a) ==
    /\ welcomed[a] = 0
    /\ \A t \in sent : t.kind = "mint" => t.signer # a

\* An account was given first Moments, or will be, once, and is set up.
WelcomesAreFirst ==
    /\ \A a \in Account :
          welcomed[a] \in {0, 1} /\ (welcomed[a] = 1 => IsAccountSetup(a))
    /\ \A t \in sent : t.kind = "mint" =>
          CanMint(t.signer) /\ welcomed[t.signer] = 0
    /\ \A t, u \in sent :
          t.kind = "mint" /\ u.kind = "mint" /\ t.signer = u.signer => t = u

\* Where a call of login is tells what is known of its user.
LoginKnows(h) ==
    /\ logins[h].next \in {"check", "answer"} =>
          /\ logins[h].user \in Account
          /\ userAddress \in {logins[h].user, NoUser}
    /\ logins[h].next = "answer" /\ ~ logins[h].answer =>
          NotWelcomed(logins[h].user)
    /\ logins[h].next \in {"setup", "recheck"} /\ userAddress # NoUser =>
          NotWelcomed(userAddress)
    /\ logins[h].next = "setup" /\ userAddress # NoUser =>
          \/ CanMint(userAddress)
          \/ \E t \in sent : t.by = h /\ t.kind = "setup"
                                      /\ t.signer = userAddress
    /\ logins[h].next = "recheck" /\ userAddress # NoUser =>
          CanMint(userAddress)

\* The part that holds until something irregular happens.
Regular == OneLogin /\ WelcomesAreFirst /\ \A h \in Handler : LoginKnows(h)

SessionInv ==
    /\ SwapInv
    /\ SessionTypeOK
    /\ LinksComplete
    /\ SendersWait
    /\ "irregular" \in mishaps \/ Regular
-----------------------------------------------------------------------------
(***************************************************************************)
(* What the steps do to the variables.                                     *)
(***************************************************************************)

LEMMA AwaitsValue ==
    ASSUME logins \in [Handler -> Login], NEW h \in Handler,
           NEW s \in {"wallet", "setup", "recheck", "mint"}, Awaits(h, s)
    PROVE  /\ logins' \in [Handler -> Login]
           /\ logins'[h].next = s
           /\ logins'[h].answer = FALSE
           /\ \A k \in Handler \ {h} : logins'[k] = logins[k]
BY DEF Awaits, Over, Login

LEMMA ReturnsValue ==
    ASSUME logins \in [Handler -> Login], NEW h \in Handler, Returns(h)
    PROVE  /\ logins' \in [Handler -> Login]
           /\ logins'[h].next = "over"
           /\ \A k \in Handler \ {h} : logins'[k] = logins[k]
BY DEF Returns, Over, Login

LEMMA OrphanedValue ==
    ASSUME sent \subseteq Transaction, NEW calls \in SUBSET Handler
    PROVE  /\ Orphaned(calls) \subseteq Transaction
           /\ \A t \in Orphaned(calls) :
                 /\ t.by \notin calls
                 /\ t.by # NoHandler => t \in sent
                 /\ \E u \in sent : u.kind = t.kind /\ u.signer = t.signer
                                    /\ (t.by = u.by \/ t.by = NoHandler)
           /\ \A u \in sent : u.by \notin calls => u \in Orphaned(calls)
<1>1. ASSUME NEW u \in sent
      PROVE  LET t == IF u.by \in calls THEN [u EXCEPT !.by = NoHandler] ELSE u
             IN  /\ t \in Transaction
                 /\ t.kind = u.kind /\ t.signer = u.signer
                 /\ t.by \notin calls
                 /\ t.by # NoHandler => t = u
                 /\ t.by = u.by \/ t.by = NoHandler
  BY SessionAssumption DEF Transaction
<1>2. ASSUME NEW u \in sent, u.by \notin calls
      PROVE  u \in Orphaned(calls)
  BY <1>2 DEF Orphaned
<1>3. ASSUME NEW t \in Orphaned(calls)
      PROVE  /\ t \in Transaction
             /\ t.by \notin calls
             /\ t.by # NoHandler => t \in sent
             /\ \E u \in sent : u.kind = t.kind /\ u.signer = t.signer
                                /\ (t.by = u.by \/ t.by = NoHandler)
  <2>1. PICK u \in sent :
           t = IF u.by \in calls THEN [u EXCEPT !.by = NoHandler] ELSE u
    BY <1>3 DEF Orphaned
  <2> QED BY <1>1, <2>1
<1> QED BY <1>2, <1>3

LEMMA SendsValue ==
    ASSUME sent \subseteq Transaction, userAddress \in Account,
           NEW h \in Handler, NEW k \in {"setup", "mint"}, Sends(h, k)
    PROVE  LET t == [ kind |-> k, signer |-> userAddress, by |-> h,
                      signed |-> FALSE ]
           IN  /\ t \in Transaction
               /\ sent' = sent \cup {t}
               /\ t.kind = k /\ t.signer = userAddress /\ t.by = h
               /\ t.by # NoHandler
BY SessionAssumption DEF Sends, Transaction
-----------------------------------------------------------------------------
(***************************************************************************)
(* The chain under the session.                                            *)
(***************************************************************************)

\* A step that leaves the chain alone.
LEMMA QuietChain ==
    ASSUME SwapInv, LinksComplete, UNCHANGED chainVars
    PROVE  SwapInv' /\ LinksComplete'
<1>1. UNCHANGED << ledgerVars, swapVars, proposalExecuted >>
  BY DEF chainVars
<1>2. LedgerInv'
  BY <1>1, StutterKeepsInv DEF SwapInv
<1>3. SwapInv'
  BY <1>1, <1>2 DEF SwapInv, SwapTypeOK, LedgerInv, swapVars
<1>4. LinksComplete'
  BY <1>1 DEF LinksComplete, ledgerVars
<1> QED BY <1>3, <1>4

\* After its set-up an account is set up, and no other is any less so.
LEMMA SetupChain ==
    ASSUME SwapInv, LinksComplete, NEW t \in Transaction, SetupSealed(t)
    PROVE  /\ SwapInv' /\ LinksComplete'
           /\ CanMint(t.signer)'
           /\ \A a \in Account : IsAccountSetup(a) => IsAccountSetup(a)'
           /\ \A a \in Account : CanMint(a) => CanMint(a)'
<1>1. t.signer \in Account
  BY DEF Transaction
<1>2. publicLink \in [Account -> SUBSET Interface]
  BY DEF SwapInv, SwapTypeOK, LedgerTypeOK
<1>3. AppLink # {} /\ WalletLink # {} /\ AppLink \subseteq WalletLink
  BY DEF AppLink, WalletLink, Interface
<1>4. CASE t.signer \in collectionStored \cap swapStored
  <2>1. UNCHANGED << ledgerVars, swapVars >> /\ proposalExecuted' = {}
    BY <1>4 DEF SetupSealed
  <2>2. LedgerInv'
    BY <2>1, StutterKeepsInv DEF SwapInv
  <2>3. SwapInv'
    BY <2>1, <2>2 DEF SwapInv, SwapTypeOK, LedgerInv, swapVars
  <2>4. UNCHANGED << collectionStored, publicLink >>
    BY <2>1 DEF ledgerVars
  <2>5. adminStored' = adminStored \cup {t.signer}
    BY DEF SetupSealed
  <2> QED BY <1>1, <1>3, <1>4, <2>3, <2>4, <2>5
          DEF LinksComplete, CanMint, IsAccountSetup, PubliclyBorrowable
<1>5. CASE t.signer \notin collectionStored \cap swapStored
  <2>1. SwapSetupAccount(t.signer)
    BY <1>5 DEF SetupSealed
  <2>2. SwapInv'
    BY <1>1, <2>1, OtherTransactionsKeepInv DEF OtherTransactions
  <2>3. /\ collectionStored' = collectionStored \cup {t.signer}
        /\ \A a \in Account \ {t.signer} : publicLink'[a] = publicLink[a]
        /\ publicLink'[t.signer] =
              IF t.signer \notin collectionStored /\ publicLink[t.signer] = {}
              THEN AppLink ELSE publicLink[t.signer]
    BY <1>1, <1>2, <2>1
       DEF SwapSetupAccount, SetupMomentCollection, linkVars
  <2>4. adminStored' = adminStored \cup {t.signer}
    BY DEF SetupSealed
  <2>5. LinksComplete'
    BY <1>1, <1>3, <2>3 DEF LinksComplete
  <2>6. AppLink \subseteq publicLink'[t.signer]
    BY <1>1, <1>3, <2>3 DEF LinksComplete
  <2>7. \A a \in Account : IsAccountSetup(a) => IsAccountSetup(a)'
    BY <2>3, <2>6 DEF IsAccountSetup, PubliclyBorrowable
  <2>8. IsAccountSetup(t.signer)'
    BY <2>3, <2>6 DEF IsAccountSetup, PubliclyBorrowable
  <2> QED BY <2>2, <2>4, <2>5, <2>7, <2>8
          DEF CanMint, IsAccountSetup, PubliclyBorrowable
<1> QED BY <1>4, <1>5

\* Minting changes no links.
LEMMA MintChain ==
    ASSUME SwapInv, LinksComplete, NEW t \in Transaction, MintSealed(t)
    PROVE  /\ SwapInv' /\ LinksComplete'
           /\ \A a \in Account : IsAccountSetup(a) => IsAccountSetup(a)'
           /\ \A a \in Account : CanMint(a) => CanMint(a)'
<1>1. t.signer \in Account
  BY DEF Transaction
<1>2. UNCHANGED swapVars /\ proposalExecuted' = {} /\ UNCHANGED adminStored
  BY DEF MintSealed
<1>3. SwapInv' /\ UNCHANGED << collectionStored, publicLink >>
  <2>1. CASE BatchMint(t.signer, WelcomeSize)
    <3>1. OtherTransactions
      BY <1>1, <1>2, <2>1, SessionAssumption DEF OtherTransactions, LedgerNext
    <3> QED BY <2>1, <3>1, OtherTransactionsKeepInv DEF BatchMint, linkVars
  <2>2. CASE UNCHANGED ledgerVars
    <3>1. LedgerInv'
      BY <2>2, StutterKeepsInv DEF SwapInv
    <3>2. SwapInv'
      BY <1>2, <2>2, <3>1 DEF SwapInv, SwapTypeOK, LedgerInv, swapVars
    <3> QED BY <2>2, <3>2 DEF ledgerVars
  <2> QED BY <2>1, <2>2 DEF MintSealed
<1> QED BY <1>2, <1>3
        DEF LinksComplete, CanMint, IsAccountSetup, PubliclyBorrowable

\* What wallets do keeps the links complete, and undoes a set-up only where
\* that is recorded.
LEMMA WalletChain ==
    ASSUME SwapInv, LinksComplete, ElsewhereInWallet
    PROVE  /\ SwapInv' /\ LinksComplete'
           /\ \/ "irregular" \in mishaps'
              \/ /\ mishaps' = mishaps
                 /\ \A a \in Account : IsAccountSetup(a) => IsAccountSetup(a)'
                 /\ \A a \in Account : CanMint(a) => CanMint(a)'
           /\ mishaps' \in { mishaps, mishaps \cup {"irregular"} }
<1>1. publicLink \in [Account -> SUBSET Interface]
  BY DEF SwapInv, SwapTypeOK, LedgerTypeOK
<1>2. OtherTransactions
  BY DEF ElsewhereInWallet, OtherTransactions, LedgerNext
<1>3. SwapInv'
  BY <1>2, OtherTransactionsKeepInv
<1>4. adminStored' = adminStored
  BY DEF ElsewhereInWallet
<1>5. ASSUME NEW a \in Account, WalletSetup(a), UNCHANGED mishaps
      PROVE  /\ LinksComplete'
             /\ \A b \in Account : IsAccountSetup(b) => IsAccountSetup(b)'
             /\ \A b \in Account : CanMint(b) => CanMint(b)'
  <2>1. /\ collectionStored' = collectionStored \cup {a}
        /\ publicLink' = [publicLink EXCEPT ![a] = WalletLink]
    BY <1>5 DEF WalletSetup
  <2>2. WalletLink # {} /\ AppLink \subseteq WalletLink
    BY DEF AppLink, WalletLink, Interface
  <2>3. LinksComplete'
    BY <1>1, <2>1, <2>2 DEF LinksComplete
  <2>4. \A b \in Account : IsAccountSetup(b) => IsAccountSetup(b)'
    BY <1>1, <2>1, <2>2 DEF IsAccountSetup, PubliclyBorrowable
  <2> QED BY <1>4, <2>3, <2>4 DEF CanMint, IsAccountSetup, PubliclyBorrowable
<1>6. ASSUME NEW a \in Account, DestroyCollection(a),
             mishaps' = mishaps \cup {"irregular"}
      PROVE  LinksComplete' /\ "irregular" \in mishaps'
  BY <1>6 DEF DestroyCollection, LinksComplete
<1>7. \/ \E a \in Account : WalletSetup(a) /\ UNCHANGED mishaps
      \/ \E a \in Account : /\ DestroyCollection(a)
                            /\ mishaps' = mishaps \cup {"irregular"}
  BY DEF ElsewhereInWallet
<1>8. CASE \E a \in Account : WalletSetup(a) /\ UNCHANGED mishaps
  BY <1>3, <1>5, <1>8
<1>9. CASE \E a \in Account : /\ DestroyCollection(a)
                             /\ mishaps' = mishaps \cup {"irregular"}
  BY <1>3, <1>6, <1>9
<1> QED BY <1>7, <1>8, <1>9
-----------------------------------------------------------------------------
(***************************************************************************)
(* What is known of logins and first Moments, as long as nothing irregular *)
(* has happened.                                                           *)
(***************************************************************************)

\* With one login under way, a step of that login is all there is to look at.
LEMMA OthersKnow ==
    ASSUME NEW h \in Handler, Underway \subseteq {h},
           \A k \in Handler \ {h} : logins'[k] = logins[k],
           LoginKnows(h)', WelcomesAreFirst'
    PROVE  Regular'
<1>1. \A k \in Handler \ {h} : logins'[k].next = "over"
  BY DEF Underway
<1>2. OneLogin'
  BY <1>1 DEF OneLogin, Underway
<1>3. \A k \in Handler \ {h} : LoginKnows(k)'
  BY <1>1 DEF LoginKnows
<1> QED BY <1>2, <1>3 DEF Regular

LEMMA OnlyOne ==
    ASSUME Regular, NEW h \in Handler, h \in Underway
    PROVE  Underway \subseteq {h}
BY DEF Regular, OneLogin, Underway

\* Nothing new is minted, and nothing undone.
LEMMA StillFirst ==
    ASSUME WelcomesAreFirst, UNCHANGED welcomed, sent \subseteq Transaction,
           \A t \in sent' : t.kind = "mint" => t \in sent,
           \A a \in Account : IsAccountSetup(a) => IsAccountSetup(a)',
           \A a \in Account : CanMint(a) => CanMint(a)'
    PROVE  /\ WelcomesAreFirst'
           /\ \A a \in Account : NotWelcomed(a) => NotWelcomed(a)'
<1>1. \A t \in sent : t.signer \in Account
  BY DEF Transaction
<1>2. WelcomesAreFirst'
  BY <1>1 DEF WelcomesAreFirst
<1>3. \A a \in Account : NotWelcomed(a) => NotWelcomed(a)'
  BY DEF NotWelcomed
<1> QED BY <1>2, <1>3

\* A chain left alone answers the same.
LEMMA SameAnswers ==
    ASSUME UNCHANGED chainVars
    PROVE  \A a \in Account : /\ IsAccountSetup(a)' = IsAccountSetup(a)
                              /\ CanMint(a)' = CanMint(a)
BY DEF chainVars, ledgerVars, IsAccountSetup, CanMint, PubliclyBorrowable

\* Not to wait for a transaction does not make it another.
LEMMA OrphansAreFirst ==
    ASSUME WelcomesAreFirst, sent \subseteq Transaction,
           UNCHANGED << chainVars, welcomed >>,
           NEW calls \in SUBSET Handler, sent' = Orphaned(calls)
    PROVE  WelcomesAreFirst'
<1>1. /\ \A t \in sent' : \E u \in sent : u.kind = t.kind
                                          /\ u.signer = t.signer
      /\ sent' \subseteq Transaction
  BY OrphanedValue
<1>2. \A a \in Account : /\ IsAccountSetup(a)' = IsAccountSetup(a)
                         /\ CanMint(a)' = CanMint(a)
  BY SameAnswers
<1>3. ASSUME NEW t \in sent', NEW u \in sent', t.kind = "mint",
             u.kind = "mint", t.signer = u.signer
      PROVE  t = u
  <2>1. PICK p \in sent :
           t = IF p.by \in calls THEN [p EXCEPT !.by = NoHandler] ELSE p
    BY DEF Orphaned
  <2>2. PICK q \in sent :
           u = IF q.by \in calls THEN [q EXCEPT !.by = NoHandler] ELSE q
    BY DEF Orphaned
  <2>3. p.kind = "mint" /\ q.kind = "mint" /\ p.signer = q.signer
    BY <1>3, <2>1, <2>2 DEF Transaction
  <2>4. p = q
    BY <2>3 DEF WelcomesAreFirst
  <2> QED BY <2>1, <2>2, <2>4
<1>4. ASSUME NEW t \in sent', t.kind = "mint"
      PROVE  CanMint(t.signer)' /\ welcomed'[t.signer] = 0
  BY <1>1, <1>2, <1>4 DEF WelcomesAreFirst, Transaction
<1>5. \A a \in Account : welcomed'[a] \in {0, 1}
                         /\ (welcomed'[a] = 1 => IsAccountSetup(a)')
  BY <1>2 DEF WelcomesAreFirst
<1> QED BY <1>3, <1>4, <1>5 DEF WelcomesAreFirst
-----------------------------------------------------------------------------
(***************************************************************************)
(* The steps of login.                                                     *)
(***************************************************************************)

LEMMA TapLoginKeeps ==
    ASSUME SessionInv, NEW h \in Handler, TapLogin(h)
    PROVE  SessionInv'
<1>1. /\ logins' \in [Handler -> Login]
      /\ logins'[h].next = "wallet"
      /\ \A k \in Handler \ {h} : logins'[k] = logins[k]
  BY AwaitsValue DEF TapLogin, SessionInv, SessionTypeOK
<1>2. UNCHANGED << userAddress, accountSetupLoading, sent, chainVars, welcomed >>
  BY DEF TapLogin
<1>3. SwapInv' /\ LinksComplete'
  BY <1>2, QuietChain DEF SessionInv
<1>4. mishaps' \in { mishaps, mishaps \cup {"irregular"} }
      /\ (Underway # {} => "irregular" \in mishaps')
  BY DEF TapLogin
<1>5. SessionTypeOK'
  BY <1>1, <1>2, <1>3, <1>4
     DEF SessionInv, SessionTypeOK, SwapInv, Mishap, chainVars
<1>6. SendersWait'
  <2>1. logins[h].next = "over"
    BY DEF TapLogin, Over
  <2>2. \A t \in sent : t.by # h
    BY <2>1, SessionAssumption
       DEF SessionInv, SessionTypeOK, SendersWait, Transaction
  <2> QED BY <1>1, <1>2, <2>2
          DEF SessionInv, SessionTypeOK, SendersWait, Transaction
<1>7. "irregular" \in mishaps' \/ Regular'
  <2>1. CASE "irregular" \notin mishaps /\ Underway = {}
    <3>1. Regular
      BY <2>1 DEF SessionInv
    <3>2. WelcomesAreFirst'
      BY <1>2, <3>1, StillFirst, SameAnswers
         DEF Regular, SessionInv, SessionTypeOK
    <3>3. LoginKnows(h)'
      BY <1>1 DEF LoginKnows
    <3> QED BY <1>1, <2>1, <3>2, <3>3, OthersKnow
  <2> QED BY <1>4, <2>1
<1> QED BY <1>3, <1>5, <1>6, <1>7 DEF SessionInv

LEMMA LoggedInKeeps ==
    ASSUME SessionInv, NEW h \in Handler, NEW user \in Account,
           LoggedIn(h, user)
    PROVE  SessionInv'
<1>1. /\ logins' \in [Handler -> Login]
      /\ logins[h].next = "wallet"
      /\ logins'[h].next = "check" /\ logins'[h].user = user
      /\ \A k \in Handler \ {h} : logins'[k] = logins[k]
      /\ userAddress' = user
  BY DEF LoggedIn, SessionInv, SessionTypeOK, Login
<1>2. UNCHANGED << accountSetupLoading, sent, chainVars, welcomed, mishaps >>
  BY DEF LoggedIn
<1>3. SwapInv' /\ LinksComplete'
  BY <1>2, QuietChain DEF SessionInv
<1>4. SessionTypeOK'
  BY <1>1, <1>2, <1>3 DEF SessionInv, SessionTypeOK, SwapInv, chainVars
<1>5. SendersWait'
  BY <1>1, <1>2, SessionAssumption
     DEF SessionInv, SessionTypeOK, SendersWait, Transaction
<1>6. "irregular" \in mishaps' \/ Regular'
  <2>1. CASE "irregular" \notin mishaps
    <3>1. Regular
      BY <2>1 DEF SessionInv
    <3>2. WelcomesAreFirst'
      BY <1>2, <3>1, StillFirst, SameAnswers
         DEF Regular, SessionInv, SessionTypeOK
    <3>3. LoginKnows(h)'
      BY <1>1 DEF LoginKnows
    <3>4. Underway \subseteq {h}
      BY <1>1, <3>1, OnlyOne DEF Underway
    <3> QED BY <1>1, <3>2, <3>3, <3>4, OthersKnow
  <2> QED BY <1>2, <2>1
<1> QED BY <1>3, <1>4, <1>5, <1>6 DEF SessionInv

\* An account that is not set up has been given nothing.
LEMMA CheckAnsweredKeeps ==
    ASSUME SessionInv, NEW h \in Handler, CheckAnswered(h)
    PROVE  SessionInv'
<1>1. /\ logins' \in [Handler -> Login]
      /\ logins[h].next = "check"
      /\ logins'[h].next = "answer" /\ logins'[h].user = logins[h].user
      /\ logins'[h].answer = IsAccountSetup(logins[h].user)
      /\ \A k \in Handler \ {h} : logins'[k] = logins[k]
  <2>1. logins' = [logins EXCEPT ![h] = [logins[h] EXCEPT !.next = "answer",
                                 !.answer = IsAccountSetup(logins[h].user)]]
    BY DEF CheckAnswered
  <2>2. IsAccountSetup(logins[h].user) \in BOOLEAN
    BY DEF IsAccountSetup, PubliclyBorrowable
  <2>3. logins \in [Handler -> Login] /\ logins[h].next = "check"
    BY DEF CheckAnswered, SessionInv, SessionTypeOK
  <2> HIDE DEF IsAccountSetup
  <2> QED BY <2>1, <2>2, <2>3 DEF Login
<1>2. UNCHANGED << userAddress, accountSetupLoading, sent, chainVars, welcomed,
                   mishaps >>
  BY DEF CheckAnswered
<1>3. SwapInv' /\ LinksComplete'
  BY <1>2, QuietChain DEF SessionInv
<1>4. SessionTypeOK'
  BY <1>1, <1>2, <1>3 DEF SessionInv, SessionTypeOK, SwapInv, chainVars
<1>5. SendersWait'
  BY <1>1, <1>2, SessionAssumption
     DEF SessionInv, SessionTypeOK, SendersWait, Transaction
<1>6. "irregular" \in mishaps' \/ Regular'
  <2>1. CASE "irregular" \notin mishaps
    <3>1. Regular
      BY <2>1 DEF SessionInv
    <3>2. WelcomesAreFirst' /\ \A a \in Account : NotWelcomed(a)
                                                  => NotWelcomed(a)'
      BY <1>2, <3>1, StillFirst, SameAnswers
         DEF Regular, SessionInv, SessionTypeOK
    <3>3. logins[h].user \in Account
          /\ userAddress \in {logins[h].user, NoUser}
      BY <1>1, <3>1 DEF Regular, LoginKnows
    <3>4. ~ IsAccountSetup(logins[h].user) => NotWelcomed(logins[h].user)
      BY <3>1, <3>3
         DEF Regular, WelcomesAreFirst, NotWelcomed, CanMint, IsAccountSetup
    <3>5. (~ logins[h].answer => NotWelcomed(logins[h].user))'
      BY <1>1, <1>2, <3>3, <3>4 DEF NotWelcomed
    <3>6. LoginKnows(h)'
      BY <1>1, <1>2, <3>3, <3>5 DEF LoginKnows
    <3>7. Underway \subseteq {h}
      BY <1>1, <3>1, OnlyOne DEF Underway
    <3> QED BY <1>1, <3>2, <3>6, <3>7, OthersKnow
  <2> QED BY <1>2, <2>1
<1> QED BY <1>3, <1>4, <1>5, <1>6 DEF SessionInv

\* The call returns and leaves its transactions to nobody: h is over then.
LEMMA ReturnKeeps ==
    ASSUME SessionInv, NEW h \in Handler, h \in Underway, Returns(h),
           UNCHANGED chainVars, UNCHANGED welcomed,
           userAddress' \in Account \cup {NoUser},
           accountSetupLoading' \in BOOLEAN,
           mishaps \subseteq mishaps', mishaps' \subseteq Mishap,
           \/ sent' = Orphaned({h})
           \/ UNCHANGED sent /\ \A t \in sent : t.by # h
    PROVE  SessionInv'
<1>1. /\ logins' \in [Handler -> Login]
      /\ logins'[h].next = "over"
      /\ \A k \in Handler \ {h} : logins'[k] = logins[k]
  BY ReturnsValue DEF SessionInv, SessionTypeOK
<1>2. SwapInv' /\ LinksComplete'
  BY QuietChain DEF SessionInv
<1>3. /\ sent' \subseteq Transaction
      /\ \A t \in sent' : t.by # h /\ (t.by # NoHandler => t \in sent)
  BY OrphanedValue DEF SessionInv, SessionTypeOK
<1>4. SessionTypeOK'
  BY <1>1, <1>2, <1>3 DEF SessionInv, SessionTypeOK, SwapInv, chainVars
<1>5. SendersWait'
  BY <1>1, <1>3, SessionAssumption
     DEF SessionInv, SessionTypeOK, SendersWait, Transaction
<1>6. "irregular" \in mishaps' \/ Regular'
  <2>1. CASE "irregular" \notin mishaps
    <3>1. Regular
      BY <2>1 DEF SessionInv
    <3>2. WelcomesAreFirst'
      <4>1. CASE sent' = Orphaned({h})
        BY <3>1, <4>1, OrphansAreFirst DEF Regular, SessionInv, SessionTypeOK
      <4>2. CASE UNCHANGED sent
        BY <3>1, <4>2, StillFirst, SameAnswers
           DEF Regular, SessionInv, SessionTypeOK
      <4> QED BY <4>1, <4>2
    <3>3. LoginKnows(h)'
      BY <1>1 DEF LoginKnows
    <3>4. Underway \subseteq {h}
      BY <3>1, OnlyOne
    <3> QED BY <1>1, <3>2, <3>3, <3>4, OthersKnow
  <2> QED BY <2>1
<1> QED BY <1>2, <1>4, <1>5, <1>6 DEF SessionInv

\* After the app has stopped no login is under way.
LEMMA RestartKeeps ==
    ASSUME SessionInv, Restarts, UNCHANGED chainVars, UNCHANGED welcomed,
           mishaps \subseteq mishaps', mishaps' \subseteq Mishap
    PROVE  SessionInv'
<1>1. /\ logins' \in [Handler -> Login]
      /\ \A k \in Handler : logins'[k].next = "over"
      /\ userAddress' = NoUser /\ accountSetupLoading' = FALSE
      /\ sent' = Orphaned(Handler)
  BY DEF Restarts, Over, Login
<1>2. SwapInv' /\ LinksComplete'
  BY QuietChain DEF SessionInv
<1>3. sent' \subseteq Transaction /\ \A t \in sent' : t.by \notin Handler
  BY <1>1, OrphanedValue DEF SessionInv, SessionTypeOK
<1>4. SessionTypeOK'
  BY <1>1, <1>2, <1>3 DEF SessionInv, SessionTypeOK, SwapInv, chainVars
<1>5. SendersWait'
  BY <1>3 DEF SendersWait, Transaction
<1>6. "irregular" \in mishaps' \/ Regular'
  <2>1. CASE "irregular" \notin mishaps
    <3>1. WelcomesAreFirst'
      BY <1>1, <2>1, OrphansAreFirst
         DEF Regular, SessionInv, SessionTypeOK
    <3>2. OneLogin' /\ \A k \in Handler : LoginKnows(k)'
      BY <1>1 DEF OneLogin, Underway, LoginKnows
    <3> QED BY <3>1, <3>2 DEF Regular
  <2> QED BY <2>1
<1> QED BY <1>2, <1>4, <1>5, <1>6 DEF SessionInv

\* The call sends a transaction and waits for it.
LEMMA SendKeepsTypes ==
    ASSUME SessionInv, NEW h \in Handler, NEW k \in {"setup", "mint"},
           logins[h].next \notin {"setup", "mint"},
           userAddress \in Account, Sends(h, k), Awaits(h, k),
           accountSetupLoading' \in BOOLEAN,
           UNCHANGED << userAddress, chainVars, welcomed, mishaps >>
    PROVE  SwapInv' /\ LinksComplete' /\ SessionTypeOK' /\ SendersWait'
<1>1. /\ logins' \in [Handler -> Login]
      /\ logins'[h].next = k
      /\ \A j \in Handler \ {h} : logins'[j] = logins[j]
  BY AwaitsValue DEF SessionInv, SessionTypeOK
<1>2. SwapInv' /\ LinksComplete'
  BY QuietChain DEF SessionInv
<1> DEFINE new == [ kind |-> k, signer |-> userAddress, by |-> h,
                    signed |-> FALSE ]
<1>3. new \in Transaction /\ sent' = sent \cup {new}
      /\ new.kind = k /\ new.by = h
  BY SendsValue DEF SessionInv, SessionTypeOK
<1>4. SessionTypeOK'
  BY <1>1, <1>2, <1>3 DEF SessionInv, SessionTypeOK, SwapInv, chainVars
<1>5. \A t \in sent : t.by # h
  BY SessionAssumption
     DEF SessionInv, SessionTypeOK, SendersWait, Transaction
<1> HIDE DEF new
<1>6. SendersWait'
  BY <1>1, <1>3, <1>5 DEF SessionInv, SessionTypeOK, SendersWait, Transaction
<1> QED BY <1>2, <1>4, <1>6

LEMMA CheckDoneKeeps ==
    ASSUME SessionInv, NEW h \in Handler, CheckDone(h)
    PROVE  SessionInv'
<1>1. logins[h].next = "answer" /\ h \in Underway
      /\ UNCHANGED chainVars /\ UNCHANGED welcomed /\ UNCHANGED mishaps
  BY DEF CheckDone, Underway
<1>2. CASE Returns(h) /\ UNCHANGED << userAddress, accountSetupLoading, sent >>
  <2>1. \A t \in sent : t.by # h
    BY <1>1, SessionAssumption
       DEF SessionInv, SessionTypeOK, SendersWait, Transaction
  <2>2. userAddress' \in Account \cup {NoUser}
    BY <1>2 DEF SessionInv, SessionTypeOK
  <2>3. accountSetupLoading' \in BOOLEAN
    BY <1>2, Zenon DEF SessionInv, SessionTypeOK
  <2>4. mishaps \subseteq mishaps' /\ mishaps' \subseteq Mishap
    BY <1>1 DEF SessionInv, SessionTypeOK
  <2> QED BY <1>1, <1>2, <2>1, <2>2, <2>3, <2>4, ReturnKeeps
<1>3. CASE /\ ~ logins[h].answer /\ userAddress # NoUser
           /\ accountSetupLoading' = TRUE
           /\ Sends(h, "setup") /\ Awaits(h, "setup")
           /\ UNCHANGED userAddress
  <2>1. userAddress \in Account
    BY <1>3 DEF SessionInv, SessionTypeOK
  <2>2. SwapInv' /\ LinksComplete' /\ SessionTypeOK' /\ SendersWait'
    BY <1>1, <1>3, <2>1, SendKeepsTypes
  <2>3. CASE "irregular" \notin mishaps
    <3>1. Regular
      BY <2>3 DEF SessionInv
    <3> DEFINE new == [ kind |-> "setup", signer |-> userAddress, by |-> h,
                        signed |-> FALSE ]
    <3>2. sent' = sent \cup {new} /\ new.kind = "setup" /\ new.by = h
          /\ new.signer = userAddress
      BY <1>3, <2>1, SendsValue DEF SessionInv, SessionTypeOK
    <3>3. /\ logins'[h].next = "setup"
          /\ \A k \in Handler \ {h} : logins'[k] = logins[k]
      BY <1>3, AwaitsValue DEF SessionInv, SessionTypeOK
    <3> HIDE DEF new
    <3>4. WelcomesAreFirst' /\ \A a \in Account : NotWelcomed(a)
                                                  => NotWelcomed(a)'
      BY <1>1, <3>1, <3>2, StillFirst, SameAnswers
         DEF Regular, SessionInv, SessionTypeOK
    <3>5. userAddress = logins[h].user /\ NotWelcomed(userAddress)
      BY <1>1, <1>3, <3>1 DEF Regular, LoginKnows
    <3>6. NotWelcomed(userAddress)'
      BY <1>3, <2>1, <3>4, <3>5 DEF NotWelcomed
    <3>7. LoginKnows(h)'
      BY <1>3, <3>2, <3>3, <3>6 DEF LoginKnows
    <3>8. Underway \subseteq {h}
      BY <1>1, <3>1, OnlyOne
    <3> QED BY <2>2, <3>3, <3>4, <3>7, <3>8, OthersKnow DEF SessionInv
  <2>4. CASE "irregular" \in mishaps
    BY <1>1, <2>2, <2>4 DEF SessionInv
  <2> QED BY <2>3, <2>4
<1>4. CASE Restarts
  BY <1>1, <1>4, RestartKeeps DEF SessionInv, SessionTypeOK
<1> QED BY <1>2, <1>3, <1>4 DEF CheckDone

LEMMA SetupWaitedKeeps ==
    ASSUME SessionInv, NEW h \in Handler, SetupWaited(h)
    PROVE  SessionInv'
<1>1. /\ logins[h].next = "setup" /\ h \in Underway
      /\ \A t \in sent : t.by # h
      /\ UNCHANGED userAddress /\ UNCHANGED sent /\ UNCHANGED chainVars
      /\ UNCHANGED welcomed /\ UNCHANGED mishaps
  BY DEF SetupWaited, Underway
<1>2. userAddress' \in Account \cup {NoUser}
      /\ mishaps \subseteq mishaps' /\ mishaps' \subseteq Mishap
  BY <1>1 DEF SessionInv, SessionTypeOK
<1>3. CASE Returns(h) /\ accountSetupLoading' = FALSE
  BY <1>1, <1>2, <1>3, ReturnKeeps
<1>4. CASE /\ userAddress # NoUser
           /\ Awaits(h, "recheck") /\ UNCHANGED accountSetupLoading
  <2>1. /\ logins' \in [Handler -> Login]
        /\ logins'[h].next = "recheck"
        /\ \A k \in Handler \ {h} : logins'[k] = logins[k]
    BY <1>4, AwaitsValue DEF SessionInv, SessionTypeOK
  <2>2. SwapInv' /\ LinksComplete'
    BY <1>1, QuietChain DEF SessionInv
  <2>3. SessionTypeOK'
    BY <1>1, <1>4, <2>1, <2>2
       DEF SessionInv, SessionTypeOK, SwapInv, chainVars
  <2>4. SendersWait'
    BY <1>1, <2>1, SessionAssumption
       DEF SessionInv, SessionTypeOK, SendersWait, Transaction
  <2>5. CASE "irregular" \notin mishaps
    <3>1. Regular /\ userAddress \in Account
      BY <1>4, <2>5 DEF SessionInv, SessionTypeOK
    <3>2. WelcomesAreFirst' /\ \A a \in Account : NotWelcomed(a)
                                                  => NotWelcomed(a)'
      BY <1>1, <3>1, StillFirst, SameAnswers
         DEF Regular, SessionInv, SessionTypeOK
    <3>3. NotWelcomed(userAddress) /\ CanMint(userAddress)
      BY <1>1, <1>4, <3>1 DEF Regular, LoginKnows
    <3>4. NotWelcomed(userAddress)' /\ CanMint(userAddress)'
      BY <1>1, <3>1, <3>2, <3>3, SameAnswers DEF NotWelcomed, CanMint
    <3>5. LoginKnows(h)'
      BY <2>1, <3>4 DEF LoginKnows
    <3>6. Underway \subseteq {h}
      BY <1>1, <3>1, OnlyOne
    <3> QED BY <2>1, <2>2, <2>3, <2>4, <3>2, <3>5, <3>6, OthersKnow
            DEF SessionInv
  <2>6. CASE "irregular" \in mishaps
    BY <1>1, <2>2, <2>3, <2>4, <2>6 DEF SessionInv
  <2> QED BY <2>5, <2>6
<1> QED BY <1>3, <1>4 DEF SetupWaited

LEMMA RecheckDoneKeeps ==
    ASSUME SessionInv, NEW h \in Handler, RecheckDone(h)
    PROVE  SessionInv'
<1>1. /\ logins[h].next = "recheck" /\ h \in Underway
      /\ UNCHANGED userAddress /\ UNCHANGED chainVars
      /\ UNCHANGED welcomed /\ UNCHANGED mishaps
  BY DEF RecheckDone, Underway
<1>2. userAddress' \in Account \cup {NoUser}
      /\ mishaps \subseteq mishaps' /\ mishaps' \subseteq Mishap
  BY <1>1 DEF SessionInv, SessionTypeOK
<1>3. CASE Returns(h) /\ accountSetupLoading' = FALSE /\ UNCHANGED sent
  <2>1. \A t \in sent : t.by # h
    BY <1>1, SessionAssumption
       DEF SessionInv, SessionTypeOK, SendersWait, Transaction
  <2> QED BY <1>1, <1>2, <1>3, <2>1, ReturnKeeps
<1>4. CASE /\ userAddress # NoUser
           /\ Sends(h, "mint") /\ Awaits(h, "mint")
           /\ UNCHANGED accountSetupLoading
  <2>1. userAddress \in Account
    BY <1>4 DEF SessionInv, SessionTypeOK
  <2>2. accountSetupLoading' \in BOOLEAN
    BY <1>4, Zenon DEF SessionInv, SessionTypeOK
  <2>3. SwapInv' /\ LinksComplete' /\ SessionTypeOK' /\ SendersWait'
    BY <1>1, <1>4, <2>1, <2>2, SendKeepsTypes
  <2>4. CASE "irregular" \notin mishaps
    <3>1. Regular
      BY <2>4 DEF SessionInv
    <3> DEFINE new == [ kind |-> "mint", signer |-> userAddress, by |-> h,
                        signed |-> FALSE ]
    <3>2. sent' = sent \cup {new} /\ new.kind = "mint" /\ new.by = h
          /\ new.signer = userAddress
      BY <1>4, <2>1, SendsValue DEF SessionInv, SessionTypeOK
    <3>3. /\ logins'[h].next = "mint"
          /\ \A k \in Handler \ {h} : logins'[k] = logins[k]
      BY <1>4, AwaitsValue DEF SessionInv, SessionTypeOK
    <3> HIDE DEF new
    <3>4. CanMint(userAddress) /\ NotWelcomed(userAddress)
      BY <1>1, <1>4, <3>1 DEF Regular, LoginKnows
    <3>5. \A a \in Account : /\ IsAccountSetup(a)' = IsAccountSetup(a)
                             /\ CanMint(a)' = CanMint(a)
      BY <1>1, SameAnswers
    <3>6. \A t \in sent' : t.kind = "mint" =>
             CanMint(t.signer)' /\ welcomed'[t.signer] = 0
      <4>1. \A t \in sent : t.signer \in Account
        BY DEF SessionInv, SessionTypeOK, Transaction
      <4> HIDE DEF CanMint
      <4> QED BY <1>1, <2>1, <3>1, <3>2, <3>4, <3>5, <4>1
              DEF Regular, WelcomesAreFirst, NotWelcomed
    <3>7. \A t, u \in sent' :
             t.kind = "mint" /\ u.kind = "mint" /\ t.signer = u.signer
                => t = u
      BY <3>1, <3>2, <3>4 DEF Regular, WelcomesAreFirst, NotWelcomed
    <3>8. WelcomesAreFirst'
      BY <1>1, <3>1, <3>5, <3>6, <3>7 DEF Regular, WelcomesAreFirst
    <3>9. LoginKnows(h)'
      BY <3>3 DEF LoginKnows
    <3>10. Underway \subseteq {h}
      BY <1>1, <3>1, OnlyOne
    <3> QED BY <2>3, <3>3, <3>8, <3>9, <3>10, OthersKnow DEF SessionInv
  <2>5. CASE "irregular" \in mishaps
    BY <1>1, <2>3, <2>5 DEF SessionInv
  <2> QED BY <2>4, <2>5
<1> QED BY <1>3, <1>4 DEF RecheckDone

LEMMA LoginEndKeeps ==
    ASSUME SessionInv, NEW h \in Handler, MintWaited(h) \/ CallFailed(h)
    PROVE  SessionInv'
<1>1. /\ h \in Underway /\ Returns(h) /\ UNCHANGED chainVars
      /\ UNCHANGED welcomed
      /\ \/ sent' = Orphaned({h})
         \/ UNCHANGED sent /\ \A t \in sent : t.by # h
  BY DEF MintWaited, CallFailed, Underway
<1>2. userAddress' \in Account \cup {NoUser}
      /\ mishaps \subseteq mishaps' /\ mishaps' \subseteq Mishap
  BY DEF MintWaited, CallFailed, SessionInv, SessionTypeOK, Mishap
<1>3. accountSetupLoading' \in BOOLEAN
  <2>1. accountSetupLoading' = FALSE \/ UNCHANGED accountSetupLoading
    BY DEF MintWaited, CallFailed
  <2> QED BY <2>1, Zenon DEF SessionInv, SessionTypeOK
<1> QED BY <1>1, <1>2, <1>3, ReturnKeeps
-----------------------------------------------------------------------------
(***************************************************************************)
(* The user, the device and the chain.                                     *)
(***************************************************************************)

LEMMA DeviceStepKeeps ==
    ASSUME SessionInv, Logout \/ DismissSetup
    PROVE  SessionInv'
<1>1. /\ UNCHANGED logins /\ UNCHANGED sent /\ UNCHANGED chainVars
      /\ UNCHANGED welcomed
      /\ userAddress' \in {userAddress, NoUser}
      /\ mishaps' \in {mishaps, mishaps \cup {"abandoned"}}
  BY DEF Logout, DismissSetup
<1>2. accountSetupLoading' \in BOOLEAN
  <2>1. accountSetupLoading' = FALSE \/ UNCHANGED accountSetupLoading
    BY DEF Logout, DismissSetup
  <2> QED BY <2>1, Zenon DEF SessionInv, SessionTypeOK
<1>3. SwapInv' /\ LinksComplete'
  BY <1>1, QuietChain DEF SessionInv
<1>4. SessionTypeOK'
  BY <1>1, <1>2, <1>3
     DEF SessionInv, SessionTypeOK, SwapInv, chainVars, Mishap
<1>5. SendersWait'
  BY <1>1 DEF SessionInv, SendersWait
<1>6. ASSUME "irregular" \notin mishaps
      PROVE  Regular'
  <2>1. Regular
    BY <1>6 DEF SessionInv
  <2>2. WelcomesAreFirst' /\ \A a \in Account : NotWelcomed(a)
                                                => NotWelcomed(a)'
    BY <1>1, <2>1, StillFirst, SameAnswers
       DEF Regular, SessionInv, SessionTypeOK
  <2>3. \A a \in Account : CanMint(a)' = CanMint(a)
    BY <1>1, SameAnswers
  <2>4. userAddress \in Account \cup {NoUser}
    BY DEF SessionInv, SessionTypeOK
  <2>5. ASSUME NEW h \in Handler
        PROVE  LoginKnows(h)'
    <3>1. LoginKnows(h)
      BY <2>1 DEF Regular
    <3>2. CASE userAddress' = NoUser
      BY <1>1, <2>2, <3>1, <3>2 DEF LoginKnows, NotWelcomed
    <3>3. CASE userAddress' = userAddress
      <4> HIDE DEF CanMint
      <4> QED BY <1>1, <2>2, <2>3, <2>4, <3>1, <3>3
              DEF LoginKnows, NotWelcomed
    <3> QED BY <1>1, <3>2, <3>3
  <2>6. OneLogin'
    BY <1>1, <2>1 DEF Regular, OneLogin, Underway
  <2> QED BY <2>2, <2>5, <2>6 DEF Regular
<1> QED BY <1>1, <1>3, <1>4, <1>5, <1>6 DEF SessionInv

LEMMA AppKilledKeeps ==
    ASSUME SessionInv, AppKilled
    PROVE  SessionInv'
<1>1. mishaps \subseteq mishaps' /\ mishaps' \subseteq Mishap
  BY DEF AppKilled, SessionInv, SessionTypeOK, Mishap
<1> QED BY <1>1, RestartKeeps DEF AppKilled

\* Where the chain has undone no set-up, and a set-up no longer under way has
\* been sealed, the logins know what they knew.
LEMMA LoginsUndisturbed ==
    ASSUME SessionInv, Regular, UNCHANGED deviceVars,
           WelcomesAreFirst',
           \A a \in Account : CanMint(a) => CanMint(a)',
           \A a \in Account : NotWelcomed(a) => NotWelcomed(a)',
           \A u \in sent : u.kind = "setup" =>
              \/ CanMint(u.signer)'
              \/ \E v \in sent' : v.kind = "setup" /\ v.by = u.by
                                  /\ v.signer = u.signer
    PROVE  Regular'
<1>1. UNCHANGED logins /\ UNCHANGED userAddress
  BY DEF deviceVars
<1>2. userAddress \in Account \cup {NoUser}
  BY DEF SessionInv, SessionTypeOK
<1>3. ASSUME NEW h \in Handler
      PROVE  LoginKnows(h)'
  <2>1. LoginKnows(h)
    BY DEF Regular
  <2>2. logins'[h].next = "answer" /\ ~ logins'[h].answer =>
           NotWelcomed(logins[h].user)'
    BY <1>1, <2>1 DEF LoginKnows, NotWelcomed
  <2> HIDE DEF CanMint, NotWelcomed
  <2> QED BY <1>1, <1>2, <2>1, <2>2 DEF LoginKnows
<1>4. OneLogin'
  BY <1>1 DEF Regular, OneLogin, Underway
<1> QED BY <1>3, <1>4 DEF Regular

\* Signed, a transaction is the same transaction still.
LEMMA WalletSignsKeeps ==
    ASSUME SessionInv, NEW t \in sent, WalletSigns(t)
    PROVE  SessionInv'
<1> DEFINE new == [t EXCEPT !.signed = TRUE]
<1>1. t \in Transaction
  BY DEF SessionInv, SessionTypeOK
<1>2. /\ new \in Transaction /\ new.kind = t.kind
      /\ new.signer = t.signer /\ new.by = t.by
  BY <1>1 DEF Transaction
<1>3. /\ sent' = (sent \ {t}) \cup {new}
      /\ UNCHANGED deviceVars /\ UNCHANGED chainVars
      /\ UNCHANGED welcomed /\ UNCHANGED mishaps
  BY DEF WalletSigns
<1> HIDE DEF new
<1>4. SwapInv' /\ LinksComplete'
  BY <1>3, QuietChain DEF SessionInv
<1>5. SessionTypeOK'
  BY <1>2, <1>3, <1>4
     DEF SessionInv, SessionTypeOK, SwapInv, deviceVars, chainVars
<1>6. SendersWait'
  BY <1>2, <1>3 DEF SessionInv, SendersWait, deviceVars
<1>7. \A a \in Account : /\ IsAccountSetup(a)' = IsAccountSetup(a)
                         /\ CanMint(a)' = CanMint(a)
  BY <1>3, SameAnswers
<1>8. ASSUME "irregular" \notin mishaps
      PROVE  Regular'
  <2>1. Regular
    BY <1>8 DEF SessionInv
  <2>2. \A u \in sent : u \in Transaction
    BY DEF SessionInv, SessionTypeOK
  <2>3. \A u \in sent' : \E v \in sent :
           u.kind = v.kind /\ u.signer = v.signer
    BY <1>2, <1>3
  <2>4. \A u \in sent' : u.kind = "mint" =>
           CanMint(u.signer)' /\ welcomed'[u.signer] = 0
    <3>1. \A u \in sent : u.signer \in Account
      BY <2>2 DEF Transaction
    <3> HIDE DEF CanMint
    <3> QED BY <1>3, <1>7, <2>1, <2>3, <3>1 DEF Regular, WelcomesAreFirst
  <2>5. \A u, v \in sent' :
           u.kind = "mint" /\ v.kind = "mint" /\ u.signer = v.signer
              => u = v
    BY <1>2, <1>3, <2>1 DEF Regular, WelcomesAreFirst
  <2>6. WelcomesAreFirst'
    BY <1>3, <1>7, <2>1, <2>4, <2>5 DEF Regular, WelcomesAreFirst
  <2>7. \A a \in Account : NotWelcomed(a) => NotWelcomed(a)'
    BY <1>3, <2>3 DEF NotWelcomed
  <2>8. \A u \in sent : u.kind = "setup" =>
           \E v \in sent' : v.kind = "setup" /\ v.by = u.by
                            /\ v.signer = u.signer
    BY <1>2, <1>3
  <2> QED BY <1>3, <1>7, <2>1, <2>6, <2>7, <2>8, LoginsUndisturbed
<1> QED BY <1>3, <1>4, <1>5, <1>6, <1>8 DEF SessionInv

LEMMA SetupSealedKeeps ==
    ASSUME SessionInv, NEW t \in sent, SetupSealed(t)
    PROVE  SessionInv'
<1>1. t \in Transaction
  BY DEF SessionInv, SessionTypeOK
<1>2. /\ SwapInv' /\ LinksComplete'
      /\ CanMint(t.signer)'
      /\ \A a \in Account : IsAccountSetup(a) => IsAccountSetup(a)'
      /\ \A a \in Account : CanMint(a) => CanMint(a)'
  BY <1>1, SetupChain DEF SessionInv
<1>3. /\ sent' = sent \ {t} /\ UNCHANGED deviceVars /\ UNCHANGED welcomed
      /\ UNCHANGED mishaps /\ adminStored' = adminStored \cup {t.signer}
  BY DEF SetupSealed
<1>4. SessionTypeOK'
  BY <1>1, <1>2, <1>3
     DEF SessionInv, SessionTypeOK, SwapInv, deviceVars, Transaction
<1>5. SendersWait'
  BY <1>3 DEF SessionInv, SendersWait, deviceVars
<1>6. ASSUME "irregular" \notin mishaps
      PROVE  Regular'
  <2>1. Regular
    BY <1>6 DEF SessionInv
  <2>2. WelcomesAreFirst' /\ \A a \in Account : NotWelcomed(a)
                                                => NotWelcomed(a)'
    BY <1>2, <1>3, <2>1, StillFirst DEF Regular, SessionInv, SessionTypeOK
  <2>3. \A u \in sent : u.kind = "setup" => u \in sent' \/ CanMint(u.signer)'
    BY <1>2, <1>3
  <2> HIDE DEF CanMint, NotWelcomed, WelcomesAreFirst
  <2> QED BY <1>2, <1>3, <2>1, <2>2, <2>3, LoginsUndisturbed
<1> QED BY <1>2, <1>3, <1>4, <1>5, <1>6 DEF SessionInv

LEMMA MintSealedKeeps ==
    ASSUME SessionInv, NEW t \in sent, MintSealed(t)
    PROVE  SessionInv'
<1>1. t \in Transaction /\ t.kind = "mint" /\ t.signer \in Account
  BY DEF SessionInv, SessionTypeOK, MintSealed, Transaction
<1>2. /\ SwapInv' /\ LinksComplete'
      /\ \A a \in Account : IsAccountSetup(a) => IsAccountSetup(a)'
      /\ \A a \in Account : CanMint(a) => CanMint(a)'
  BY <1>1, MintChain DEF SessionInv
<1>3. /\ sent' = sent \ {t} /\ UNCHANGED deviceVars
      /\ UNCHANGED adminStored
      /\ mishaps' \in { mishaps, mishaps \cup {"abandoned"} }
      /\ welcomed' \in { [welcomed EXCEPT ![t.signer] = @ + 1], welcomed }
  BY DEF MintSealed
<1>4. welcomed' \in [Account -> Nat]
  BY <1>1, <1>3 DEF SessionInv, SessionTypeOK
<1>5. SessionTypeOK'
  BY <1>2, <1>3, <1>4
     DEF SessionInv, SessionTypeOK, SwapInv, deviceVars, Mishap
<1>6. SendersWait'
  BY <1>3 DEF SessionInv, SendersWait, deviceVars
<1>7. ASSUME "irregular" \notin mishaps
      PROVE  Regular'
  <2>1. Regular
    BY <1>7 DEF SessionInv
  <2>2. CanMint(t.signer) /\ welcomed[t.signer] = 0
    BY <1>1, <2>1 DEF Regular, WelcomesAreFirst
  <2>3. /\ welcomed'[t.signer] \in {0, 1}
        /\ \A a \in Account \ {t.signer} : welcomed'[a] = welcomed[a]
    BY <1>1, <1>3, <2>2 DEF SessionInv, SessionTypeOK
  <2>4. IsAccountSetup(t.signer)'
    BY <1>1, <1>2, <2>2 DEF CanMint, IsAccountSetup
  <2>5. \A u \in sent' : u.kind = "mint" =>
           /\ u \in sent /\ u.signer \in Account /\ u.signer # t.signer
    BY <1>1, <1>3, <2>1
       DEF Regular, WelcomesAreFirst, SessionInv, SessionTypeOK, Transaction
  <2>6. WelcomesAreFirst'
    <3>1. ASSUME NEW a \in Account
          PROVE  welcomed'[a] \in {0, 1}
                 /\ (welcomed'[a] = 1 => IsAccountSetup(a)')
      BY <1>2, <2>1, <2>3, <2>4 DEF Regular, WelcomesAreFirst
    <3>2. \A u \in sent' : u.kind = "mint" =>
             CanMint(u.signer)' /\ welcomed'[u.signer] = 0
      BY <1>2, <2>1, <2>3, <2>5 DEF Regular, WelcomesAreFirst
    <3>3. \A u, v \in sent' :
             u.kind = "mint" /\ v.kind = "mint" /\ u.signer = v.signer
                => u = v
      BY <1>3, <2>1 DEF Regular, WelcomesAreFirst
    <3> QED BY <3>1, <3>2, <3>3 DEF WelcomesAreFirst
  <2>7. \A a \in Account : NotWelcomed(a) => NotWelcomed(a)'
    BY <1>1, <1>3, <2>3 DEF NotWelcomed
  <2>8. \A u \in sent : u.kind = "setup" => u \in sent'
    BY <1>1, <1>3
  <2> QED BY <1>2, <1>3, <2>1, <2>6, <2>7, <2>8, LoginsUndisturbed
<1> QED BY <1>2, <1>3, <1>5, <1>6, <1>7 DEF SessionInv

LEMMA ExpiredKeeps ==
    ASSUME SessionInv, NEW t \in sent, Expired(t)
    PROVE  SessionInv'
<1>1. /\ sent' = sent \ {t} /\ UNCHANGED deviceVars /\ UNCHANGED welcomed
      /\ UNCHANGED chainVars
      /\ mishaps \subseteq mishaps'
      /\ mishaps' \subseteq mishaps \cup {"irregular", "abandoned"}
      /\ t.kind = "setup" => "irregular" \in mishaps'
  BY DEF Expired
<1>2. SwapInv' /\ LinksComplete'
  BY <1>1, QuietChain DEF SessionInv
<1>3. SessionTypeOK'
  BY <1>1, <1>2
     DEF SessionInv, SessionTypeOK, SwapInv, deviceVars, chainVars, Mishap
<1>4. SendersWait'
  BY <1>1 DEF SessionInv, SendersWait, deviceVars
<1>5. ASSUME "irregular" \notin mishaps'
      PROVE  Regular'
  <2>1. Regular
    BY <1>1, <1>5 DEF SessionInv
  <2>2. \A a \in Account : /\ IsAccountSetup(a)' = IsAccountSetup(a)
                           /\ CanMint(a)' = CanMint(a)
    BY <1>1, SameAnswers
  <2>3. WelcomesAreFirst' /\ \A a \in Account : NotWelcomed(a)
                                                => NotWelcomed(a)'
    BY <1>1, <2>1, <2>2, StillFirst DEF Regular, SessionInv, SessionTypeOK
  <2>4. \A u \in sent : u.kind = "setup" => u \in sent'
    BY <1>1, <1>5
  <2> QED BY <1>1, <2>1, <2>2, <2>3, <2>4, LoginsUndisturbed
<1> QED BY <1>2, <1>3, <1>4, <1>5 DEF SessionInv

LEMMA ElsewhereKeeps ==
    ASSUME SessionInv, ElsewhereInWallet
    PROVE  SessionInv'
<1>1. /\ SwapInv' /\ LinksComplete'
      /\ \/ "irregular" \in mishaps'
         \/ /\ mishaps' = mishaps
            /\ \A a \in Account : IsAccountSetup(a) => IsAccountSetup(a)'
            /\ \A a \in Account : CanMint(a) => CanMint(a)'
      /\ mishaps' \in { mishaps, mishaps \cup {"irregular"} }
  BY WalletChain DEF SessionInv
<1>2. UNCHANGED deviceVars /\ UNCHANGED sent /\ UNCHANGED welcomed
      /\ UNCHANGED adminStored
  BY DEF ElsewhereInWallet
<1>3. SessionTypeOK'
  BY <1>1, <1>2 DEF SessionInv, SessionTypeOK, SwapInv, deviceVars, Mishap
<1>4. SendersWait'
  BY <1>2 DEF SessionInv, SendersWait, deviceVars
<1>5. ASSUME "irregular" \notin mishaps'
      PROVE  Regular'
  <2>1. Regular
    BY <1>1, <1>5 DEF SessionInv
  <2>2. WelcomesAreFirst' /\ \A a \in Account : NotWelcomed(a)
                                                => NotWelcomed(a)'
    BY <1>1, <1>2, <1>5, <2>1, StillFirst
       DEF Regular, SessionInv, SessionTypeOK
  <2> QED BY <1>1, <1>2, <1>5, <2>1, <2>2, LoginsUndisturbed
<1> QED BY <1>1, <1>3, <1>4, <1>5 DEF SessionInv
-----------------------------------------------------------------------------
(***************************************************************************)
(* The theorems.                                                           *)
(***************************************************************************)

LEMMA SessionStartsRegular == SessionInit => SessionInv
<1> SUFFICES ASSUME SessionInit PROVE SessionInv
  OBVIOUS
<1>1. SwapInv
  BY InitSwapInv DEF SessionInit
<1>2. SessionTypeOK
  BY <1>1 DEF SessionInit, SessionTypeOK, SwapInv, Login, Over
<1>3. LinksComplete
  BY DEF SessionInit, SwapInit, Init, LinksComplete
<1>4. SendersWait /\ WelcomesAreFirst
  BY DEF SessionInit, SendersWait, WelcomesAreFirst
<1>5. \A h \in Handler : logins[h].next = "over"
  BY DEF SessionInit, Over
<1>6. OneLogin /\ \A h \in Handler : LoginKnows(h)
  BY <1>5 DEF OneLogin, Underway, LoginKnows
<1> QED BY <1>1, <1>2, <1>3, <1>4, <1>6 DEF SessionInv, Regular

LEMMA SessionStepKeeps == SessionInv /\ [SessionNext]_sessionVars => SessionInv'
<1> SUFFICES ASSUME SessionInv, [SessionNext]_sessionVars
             PROVE  SessionInv'
  OBVIOUS
<1>1. ASSUME NEW h \in Handler, TapLogin(h)
      PROVE  SessionInv'
  BY <1>1, TapLoginKeeps
<1>2. ASSUME NEW h \in Handler, NEW user \in Account, LoggedIn(h, user)
      PROVE  SessionInv'
  BY <1>2, LoggedInKeeps
<1>3. ASSUME NEW h \in Handler, LoginStep(h)
      PROVE  SessionInv'
  BY <1>3, CheckAnsweredKeeps, CheckDoneKeeps, SetupWaitedKeeps,
     RecheckDoneKeeps, LoginEndKeeps DEF LoginStep
<1>4. ASSUME NEW h \in Handler, CallFailed(h)
      PROVE  SessionInv'
  BY <1>4, LoginEndKeeps
<1>5. CASE Logout \/ DismissSetup
  BY <1>5, DeviceStepKeeps
<1>6. CASE AppKilled
  BY <1>6, AppKilledKeeps
<1>7. ASSUME NEW t \in sent, WalletSigns(t) \/ Settles(t)
      PROVE  SessionInv'
  BY <1>7, WalletSignsKeeps, SetupSealedKeeps, MintSealedKeeps,
     ExpiredKeeps DEF Settles
<1>8. CASE ElsewhereInWallet
  BY <1>8, ElsewhereKeeps
<1>9. CASE UNCHANGED sessionVars
  <2>1. UNCHANGED chainVars /\ UNCHANGED deviceVars /\ UNCHANGED sent
        /\ UNCHANGED welcomed /\ UNCHANGED mishaps
    BY <1>9 DEF sessionVars
  <2>2. SwapInv' /\ LinksComplete'
    BY <2>1, QuietChain DEF SessionInv
  <2>3. SessionTypeOK' /\ SendersWait'
    BY <2>1, <2>2
       DEF SessionInv, SessionTypeOK, SwapInv, SendersWait, deviceVars,
           chainVars
  <2>4. ASSUME Regular
        PROVE  Regular'
    <3>1. WelcomesAreFirst' /\ \A a \in Account : NotWelcomed(a)
                                                  => NotWelcomed(a)'
      BY <2>1, <2>4, StillFirst, SameAnswers
         DEF Regular, SessionInv, SessionTypeOK
    <3>2. \A a \in Account : CanMint(a) => CanMint(a)'
      BY <2>1, SameAnswers
    <3> QED BY <2>1, <2>4, <3>1, <3>2, LoginsUndisturbed
  <2> QED BY <2>1, <2>2, <2>3, <2>4 DEF SessionInv
<1> QED BY <1>1, <1>2, <1>3, <1>4, <1>5, <1>6, <1>7, <1>8, <1>9
        DEF SessionNext

\* The inductive invariant: what wallets, logins and transactions on their
\* way have to do with one another, for any number of accounts and logins.
THEOREM SessionInvariance == SessionSpec => []SessionInv
BY SessionStartsRegular, SessionStepKeeps, PTL DEF SessionSpec

\* Type correctness: no transaction is sent in nobody's name, although a
\* logout may come while the check of the account is awaited.
THEOREM SessionTypeCorrect == SessionSpec => []SessionTypeOK
<1>1. SessionInv => SessionTypeOK
  BY DEF SessionInv
<1> QED BY <1>1, SessionInvariance, PTL

\* First Moments are given once, whatever failures, logouts, restarts and
\* repeated logins there are (BlockchainViewModel.swift:82-95).
THEOREM WelcomedOnce == SessionSpec => []WelcomedAtMostOnce
<1>1. SessionInv => WelcomedAtMostOnce
  BY DEF SessionInv, Regular, WelcomesAreFirst, WelcomedAtMostOnce
<1> QED BY <1>1, SessionInvariance, PTL

\* A minting is only ever sent for an account whose set-up is complete.
THEOREM MintingsBuildOnSetup == SessionSpec => []MintingsCanSucceed
<1>1. SessionInv => MintingsCanSucceed
  BY DEF SessionInv, Regular, WelcomesAreFirst, MintingsCanSucceed
<1> QED BY <1>1, SessionInvariance, PTL
-----------------------------------------------------------------------------
(***************************************************************************)
(* What the session does on the chain is what anybody may do there.        *)
(***************************************************************************)

NothingSwapped == proposalExecuted = {}

\* In every step of the session the swap contract and the ledger see one of
\* their own transactions or nothing.
LEMMA SessionStepIsSwapStep ==
    ASSUME SessionTypeOK, NothingSwapped, [SessionNext]_sessionVars
    PROVE  [SwapNext]_vars /\ NothingSwapped'
<1>1. CASE UNCHANGED vars
  BY <1>1 DEF vars, NothingSwapped
<1>2. CASE LedgerNext /\ UNCHANGED swapVars /\ proposalExecuted' = {}
  BY <1>2 DEF SwapNext, OtherTransactions, NothingSwapped
<1>3. ASSUME NEW a \in Account, SwapSetupAccount(a)
      PROVE  SwapNext /\ NothingSwapped'
  BY <1>3 DEF SwapNext, OtherTransactions, NothingSwapped, SwapSetupAccount
<1>4. CASE UNCHANGED chainVars
  BY <1>1, <1>4 DEF chainVars, vars
<1>5. ASSUME NEW h \in Handler,
             \/ TapLogin(h) \/ LoginStep(h) \/ CallFailed(h)
             \/ \E user \in Account : LoggedIn(h, user)
      PROVE  UNCHANGED chainVars
  BY <1>5 DEF TapLogin, LoggedIn, LoginStep, CheckAnswered, CheckDone,
     SetupWaited, RecheckDone, MintWaited, CallFailed
<1>6. CASE Logout \/ DismissSetup \/ AppKilled \/ UNCHANGED sessionVars
  BY <1>4, <1>6 DEF Logout, DismissSetup, AppKilled, sessionVars
<1>7. ASSUME NEW t \in sent, WalletSigns(t) \/ Settles(t)
      PROVE  [SwapNext]_vars /\ NothingSwapped'
  <2>1. t.signer \in Account
    BY DEF SessionTypeOK, Transaction
  <2>2. CASE SetupSealed(t)
    <3>1. CASE SwapSetupAccount(t.signer)
      BY <1>3, <2>1, <3>1
    <3>2. CASE UNCHANGED << ledgerVars, swapVars >> /\ proposalExecuted' = {}
      BY <1>1, <3>2 DEF vars, NothingSwapped
    <3> QED BY <2>2, <3>1, <3>2 DEF SetupSealed
  <2>3. CASE MintSealed(t)
    <3>1. CASE BatchMint(t.signer, WelcomeSize)
      <4>1. LedgerNext
        BY <2>1, <3>1, SessionAssumption DEF LedgerNext
      <4> QED BY <1>2, <2>3, <4>1 DEF MintSealed
    <3>2. CASE UNCHANGED ledgerVars
      BY <1>1, <2>3, <3>2 DEF MintSealed, vars, NothingSwapped
    <3> QED BY <2>3, <3>1, <3>2 DEF MintSealed
  <2>4. CASE WalletSigns(t) \/ Expired(t)
    BY <1>4, <2>4 DEF WalletSigns, Expired
  <2> QED BY <1>7, <2>2, <2>3, <2>4 DEF Settles
<1>8. CASE ElsewhereInWallet
  <2>1. LedgerNext
    BY <1>8 DEF ElsewhereInWallet, LedgerNext
  <2> QED BY <1>2, <1>8, <2>1 DEF ElsewhereInWallet
<1> QED BY <1>4, <1>5, <1>6, <1>7, <1>8 DEF SessionNext

\* Logins, set-ups and first mintings, with all that may happen to them, are
\* a behaviour of ledger and swap contract: nothing proved of these is undone.
THEOREM SessionUsesTheContract == SessionSpec => SwapSpec
<1>1. SessionInit => SwapInit /\ NothingSwapped
  BY DEF SessionInit, SwapInit, NothingSwapped
<1>2. SessionTypeOK /\ NothingSwapped /\ [SessionNext]_sessionVars =>
         [SwapNext]_vars /\ NothingSwapped'
  BY SessionStepIsSwapStep
<1> QED BY <1>1, <1>2, SessionTypeCorrect, PTL DEF SessionSpec, SwapSpec

\* First Moments are new ones: no login makes a Moment appear twice, or one
\* that others hold disappear.
THEOREM WelcomesConserve == SessionSpec => []MomentConservation
<1> QED BY SessionUsesTheContract, SwapsConserve, PTL
=============================================================================
