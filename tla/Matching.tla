------------------------------- MODULE Matching -------------------------------
(***************************************************************************)
(* Liking and matching: the app on several devices and the TopShotMatch    *)
(* contract.                                                               *)
(*                                                                         *)
(* A handler of the app runs without interruption up to an await.  So a    *)
(* call that awaits the chain is two actions or more: what the app asked   *)
(* and with which arguments is kept in queries or submissions, the chain   *)
(* answers in a step of its own, and the rest of the handler runs later,   *)
(* in whatever session the device is in by then.                           *)
(***************************************************************************)
EXTENDS TopShotMatch

CONSTANTS
    Device,
    Nobody,            \* userAddress when nobody is logged in
    NotLoaded,         \* globalTradingBlock before it is first loaded
    Unanswered,        \* the answer of a query that has not been executed
    Home,              \* Home[d]: the users who log in on device d
    Blocks,            \* Blocks[u]: what user u may put up for trade
    AskThreshold,      \* likes after which the app asks to submit them
    TransactionsFail,  \* may a submission fail or expire?
    MaxLikes, MaxQueries, MaxSubmissions  \* bounds

ASSUME DeviceAssumption ==
    /\ Home \in [Device -> SUBSET User]
    /\ \A u \in User : \A block \in Blocks[u] : block \in Seq(Moment)
    /\ Nobody \notin User
    /\ \A cards \in SUBSET Card : cards \notin {NotLoaded, Unanswered}

ASSUME MatchingBounds ==
    /\ TransactionsFail \in BOOLEAN
    /\ {AskThreshold, MaxLikes, MaxQueries, MaxSubmissions} \subseteq Nat

VARIABLES
    userAddress,         \* who is logged in on each device
    globalTradingBlock,  \* the cards left to swipe
    likedMoments,        \* the cards swiped right and not submitted yet
    prompt,              \* the alert or sheet in front of the cards
    queries,             \* feed queries the app awaits
    submissions,         \* addLikedMoments transactions of each device
    swiped,              \* history: whose cards were ever swiped right
    forgotten            \* history: likes a reset erased, until liked again

chainVars  == << contractVars, forgotten >>
deviceVars == << userAddress, globalTradingBlock, likedMoments, prompt,
                 queries, submissions, swiped >>
vars == << chainVars, deviceVars >>

Query == [ device : Device, user : User,
           feed : (SUBSET Card) \cup {Unanswered} ]

\* A submission is pending until its transaction is executed or has failed,
\* and stray when its handler has thrown before that.
Submission == [ user : User, owners : SUBSET User,
                status : {"pending", "over", "stray"} ]

Owners(cards) == { cards[i].owner : i \in DOMAIN cards }

Init ==
    /\ ContractInit
    /\ userAddress = [d \in Device |-> Nobody]
    /\ globalTradingBlock = [d \in Device |-> NotLoaded]
    /\ likedMoments = [d \in Device |-> << >>]
    /\ prompt = [d \in Device |-> "none"]
    /\ queries = {}
    /\ submissions = [d \in Device |-> << >>]
    /\ swiped = [d \in Device |-> {}]
    /\ forgotten = [u \in User |-> {}]
-----------------------------------------------------------------------------
(***************************************************************************)
(* Sessions and the feed.                                                  *)
(***************************************************************************)

\* login up to the first await after fcl.login: the Login button is shown
\* only when nobody is logged in.
Login(d, user) ==
    /\ userAddress[d] = Nobody /\ prompt[d] = "none"
    /\ userAddress' = [userAddress EXCEPT ![d] = user]
    /\ UNCHANGED << chainVars, globalTradingBlock, likedMoments, prompt,
                    queries, submissions, swiped >>

Logout(d) ==
    /\ userAddress[d] # Nobody /\ prompt[d] = "none"
    /\ userAddress' = [userAddress EXCEPT ![d] = Nobody]
    /\ globalTradingBlock' = [globalTradingBlock EXCEPT ![d] = NotLoaded]
    /\ likedMoments' = [likedMoments EXCEPT ![d] = << >>]
    /\ UNCHANGED << chainVars, prompt, queries, submissions, swiped >>

\* getGlobalTradingBlock up to its await.  Its callers reach it after awaits
\* of their own (the end of login, an accepted trade, a notified swap), so
\* at any time; it reads who is logged in when it is called.
GetGlobalTradingBlock(d) ==
    /\ userAddress[d] # Nobody
    /\ Cardinality(queries) < MaxQueries
    /\ queries' = queries \cup { [ device |-> d, user |-> userAddress[d],
                                   feed |-> Unanswered ] }
    /\ UNCHANGED << chainVars, userAddress, globalTradingBlock,
                    likedMoments, prompt, submissions, swiped >>

\* The chain executes the script.
AnswerQuery(q) ==
    /\ q.feed = Unanswered
    /\ \E feed \in Feeds(q.user) :
          queries' = (queries \ {q}) \cup {[q EXCEPT !.feed = feed]}
    /\ UNCHANGED << chainVars, userAddress, globalTradingBlock,
                    likedMoments, prompt, submissions, swiped >>

\* getGlobalTradingBlock after its await.
FeedLoaded(q) ==
    /\ q.feed # Unanswered
    /\ globalTradingBlock' = [globalTradingBlock EXCEPT ![q.device] = q.feed]
    /\ queries' = queries \ {q}
    /\ UNCHANGED << chainVars, userAddress, likedMoments, prompt,
                    submissions, swiped >>
-----------------------------------------------------------------------------
(***************************************************************************)
(* Swiping.  The cards are on the screen whenever a feed is loaded, logged *)
(* in or not, unless an alert or a sheet is in front of them.              *)
(***************************************************************************)

Swipeable(d, card) ==
    /\ prompt[d] = "none"
    /\ globalTradingBlock[d] # NotLoaded
    /\ card \in globalTradingBlock[d]

\* The prompt after a right swipe, with count likes waiting.
PromptAfter(card, count) ==
    IF card.userHasLiked THEN "propose"
    ELSE IF count >= AskThreshold THEN "submit" ELSE "none"

UserLikedMoment(d, card) ==
    /\ Swipeable(d, card)
    /\ Len(likedMoments[d]) < MaxLikes
    /\ likedMoments' = [likedMoments EXCEPT ![d] = Append(@, card)]
    /\ globalTradingBlock' = [globalTradingBlock EXCEPT ![d] = @ \ {card}]
    /\ prompt' = [prompt EXCEPT
                     ![d] = PromptAfter(card, Len(likedMoments[d]) + 1)]
    /\ swiped' = [swiped EXCEPT ![d] = @ \cup {card.owner}]
    /\ UNCHANGED << chainVars, userAddress, queries, submissions >>

\* Mutant: a left swipe counts as a like.
DislikeQueued(d, card) ==
    /\ Swipeable(d, card)
    /\ Len(likedMoments[d]) < MaxLikes
    /\ globalTradingBlock' = [globalTradingBlock EXCEPT ![d] = @ \ {card}]
    /\ likedMoments' = [likedMoments EXCEPT ![d] = Append(@, card)]
    /\ UNCHANGED << chainVars, userAddress, prompt, queries,
                    submissions, swiped >>

UserDislikedMoment(d, card) ==
    /\ Swipeable(d, card)
    /\ globalTradingBlock' = [globalTradingBlock EXCEPT ![d] = @ \ {card}]
    /\ UNCHANGED << chainVars, userAddress, likedMoments, prompt, queries,
                    submissions, swiped >>

\* The heart button.
AskToSubmit(d) ==
    /\ userAddress[d] # Nobody /\ prompt[d] = "none"
    /\ prompt' = [prompt EXCEPT ![d] = "submit"]
    /\ UNCHANGED << chainVars, userAddress, globalTradingBlock,
                    likedMoments, queries, submissions, swiped >>

\* "Yes!" to a match opens the view in which the user picks a Moment to
\* propose for likedMoments.last.
OpenTradeView(d) ==
    /\ prompt[d] = "propose"
    /\ prompt' = [prompt EXCEPT ![d] = "trade"]
    /\ UNCHANGED << chainVars, userAddress, globalTradingBlock,
                    likedMoments, queries, submissions, swiped >>

\* Cancel, "No thanks", or the view is left with or without a proposal.
ClosePrompt(d) ==
    /\ prompt[d] # "none"
    /\ prompt' = [prompt EXCEPT ![d] = "none"]
    /\ UNCHANGED << chainVars, userAddress, globalTradingBlock,
                    likedMoments, queries, submissions, swiped >>
-----------------------------------------------------------------------------
(***************************************************************************)
(* Submitting likes.                                                       *)
(***************************************************************************)

\* The submissions of all devices, which the bound MaxSubmissions counts.
UnderWay == UNION { {d} \X DOMAIN submissions[d] : d \in Device }

\* Mutant: submitting does not need a user (sendTx unwraps userAddress).
SubmitLoggedOut(d) ==
    /\ prompt[d] = "submit"
    /\ Cardinality(UnderWay) < MaxSubmissions
    /\ prompt' = [prompt EXCEPT ![d] = "none"]
    /\ submissions' = [submissions EXCEPT ![d] = Append(@,
          [ user |-> userAddress[d], owners |-> Owners(likedMoments[d]),
            status |-> "pending" ])]
    /\ UNCHANGED << chainVars, userAddress, globalTradingBlock,
                    likedMoments, queries, swiped >>

\* submitLikedMoments up to its await; its arguments are the likes of now.
SubmitLikedMoments(d) ==
    /\ prompt[d] = "submit" /\ userAddress[d] # Nobody
    /\ Cardinality(UnderWay) < MaxSubmissions
    /\ prompt' = [prompt EXCEPT ![d] = "none"]
    /\ submissions' = [submissions EXCEPT ![d] = Append(@,
          [ user |-> userAddress[d], owners |-> Owners(likedMoments[d]),
            status |-> "pending" ])]
    /\ UNCHANGED << chainVars, userAddress, globalTradingBlock,
                    likedMoments, queries, swiped >>

\* What the execution of a submission does to the chain.
LikesRecorded(submission) ==
    /\ AddLikedMoments(submission.user, submission.owners)
    /\ forgotten' = [forgotten EXCEPT ![submission.user] =
                         @ \ submission.owners]

\* The transaction is executed.
SubmissionSealed(d, i) ==
    /\ submissions[d][i].status = "pending"
    /\ LikesRecorded(submissions[d][i])
    /\ submissions' = [submissions EXCEPT ![d][i].status = "over"]
    /\ UNCHANGED << userAddress, globalTradingBlock, likedMoments, prompt,
                    queries, swiped >>

\* The transaction expires, or is sealed with an error: the status that ends
\* the wait is the same and nothing looks at the error.
SubmissionFailed(d, i) ==
    /\ TransactionsFail
    /\ submissions[d][i].status = "pending"
    /\ submissions' = [submissions EXCEPT ![d][i].status = "over"]
    /\ UNCHANGED << chainVars, userAddress, globalTradingBlock,
                    likedMoments, prompt, queries, swiped >>

\* The wallet refuses to sign, or a call for the status fails: the handler
\* throws and the likes stay.  A transaction already sent goes on by itself;
\* one that is removed was never signed, has ended, or will come to nothing.
SubmissionThrows(d, i) ==
    /\ TransactionsFail
    /\ submissions[d][i].status # "stray"
    /\ \/ submissions' = [submissions EXCEPT ![d] = RemoveAt(@, i)]
       \/ /\ submissions[d][i].status = "pending"
          /\ submissions' = [submissions EXCEPT ![d][i].status = "stray"]
    /\ UNCHANGED << chainVars, userAddress, globalTradingBlock,
                    likedMoments, prompt, queries, swiped >>

\* A transaction nobody awaits any more is executed.
StraySealed(d, i) ==
    /\ submissions[d][i].status = "stray"
    /\ LikesRecorded(submissions[d][i])
    /\ submissions' = [submissions EXCEPT ![d] = RemoveAt(@, i)]
    /\ UNCHANGED << userAddress, globalTradingBlock, likedMoments, prompt,
                    queries, swiped >>

\* submitLikedMoments after its wait: removeAll, of the likes of now.
SubmissionDone(d, i) ==
    /\ submissions[d][i].status = "over"
    /\ likedMoments' = [likedMoments EXCEPT ![d] = << >>]
    /\ submissions' = [submissions EXCEPT ![d] = RemoveAt(@, i)]
    /\ UNCHANGED << chainVars, userAddress, globalTradingBlock, prompt,
                    queries, swiped >>
-----------------------------------------------------------------------------
(***************************************************************************)
(* Other transactions on the contract.                                     *)
(***************************************************************************)

BlockUpdated(u, block) ==
    UpdateUserTradingBlock(u, block) /\ UNCHANGED << forgotten, deviceVars >>

\* The transaction of that name, or one half of an accepted trade.
MomentRemoved(u, moment) ==
    /\ RemoveMomentFromTradingBlock(u, moment)
    /\ UNCHANGED << forgotten, deviceVars >>

\* The likes of user that the chain has, or had until a reset.
EverOnChain(user) == likedMomentsRelationship[user] \cup forgotten[user]

\* reset.cdc, which anybody may send.
ContractReset ==
    /\ Reset
    /\ forgotten' = [u \in User |-> EverOnChain(u)]
    /\ UNCHANGED deviceVars

OnDevice(d) ==
    \/ \E u \in Home[d] : Login(d, u)
    \/ Logout(d)
    \/ GetGlobalTradingBlock(d)
    \/ \E card \in Card : UserLikedMoment(d, card)
    \/ \E card \in Card : UserDislikedMoment(d, card)
    \/ AskToSubmit(d)
    \/ OpenTradeView(d)
    \/ ClosePrompt(d)
    \/ SubmitLikedMoments(d)
    \/ \E i \in DOMAIN submissions[d] : SubmissionSealed(d, i)
    \/ \E i \in DOMAIN submissions[d] : SubmissionFailed(d, i)
    \/ \E i \in DOMAIN submissions[d] : SubmissionThrows(d, i)
    \/ \E i \in DOMAIN submissions[d] : StraySealed(d, i)
    \/ \E i \in DOMAIN submissions[d] : SubmissionDone(d, i)

Next ==
    \/ \E d \in Device : OnDevice(d)
    \/ \E q \in queries : AnswerQuery(q)
    \/ \E q \in queries : FeedLoaded(q)
    \/ \E u \in User : \E block \in Blocks[u] : BlockUpdated(u, block)
    \/ \E u \in User, moment \in Moment : MomentRemoved(u, moment)
    \/ ContractReset

Spec == Init /\ [][Next]_vars
-----------------------------------------------------------------------------
(***************************************************************************)
(* Properties.                                                             *)
(***************************************************************************)

\* The types of all variables.
MatchingTypeOK ==
    /\ ContractTypeOK
    /\ userAddress \in [Device -> User \cup {Nobody}]
    /\ globalTradingBlock \in [Device -> (SUBSET Card) \cup {NotLoaded}]
    /\ likedMoments \in [Device -> Seq(Card)]
    /\ prompt \in [Device -> {"none", "submit", "propose", "trade"}]
    /\ queries \subseteq Query
    /\ submissions \in [Device -> Seq(Submission)]
    /\ swiped \in [Device -> SUBSET User]
    /\ forgotten \in [User -> SUBSET User]

OnlyUserOf(d, user) == Home[d] = {user}

\* "The owner of this moment also liked one of your moments"
\* (ContentView.swift:219-231): however old the feed is, the announced like of
\* the user it was loaded for was sealed, and the chain still has it unless
\* the contract was reset since.  On a device of one user that is the user
\* who is told; on a shared one it may be another.
MatchesAreReal ==
    \A d \in Device : prompt[d] = "propose" /\ likedMoments[d] # << >> =>
       LET card == Last(likedMoments[d])
       IN  /\ card.viewer \in EverOnChain(card.owner)
           /\ \A u \in User : OnlyUserOf(d, u) => card.viewer = u

\* Nobody is recorded as liking a Moment of his own: the feed leaves out the
\* user's own block, and likes are submitted as the user who was shown that
\* feed (TopShotMatch.cdc:76-79).  This needs a device that only one user logs
\* in on.
NobodyLikesThemselves ==
    \A u \in User : u \notin likedMomentsRelationship[u]

\* A like on the chain was swiped, to the right, on a device of that user;
\* no disliked or unseen card becomes a like (BlockchainViewModel.swift:57-72,
\* 471-477).
NoInventedLikes ==
    \A u \in User : \A owner \in likedMomentsRelationship[u] :
       \E d \in Device : u \in Home[d] /\ owner \in swiped[d]

\* "Liked moments are stored on-chain": while a user stays logged in, a like
\* leaves the queue only once it is on the chain, where only a reset erases it
\* (ContentView.swift:217).
LikesLeaveTheQueueOnChain ==
    [][\A d \in Device :
          userAddress'[d] = userAddress[d] /\ userAddress[d] # Nobody =>
             Owners(likedMoments[d]) \ Owners(likedMoments'[d])
                \subseteq EverOnChain(userAddress[d])]_vars
=============================================================================
