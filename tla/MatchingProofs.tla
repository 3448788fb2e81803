----------------------------- MODULE MatchingProofs -----------------------------
(***************************************************************************)
(* Proofs about liking and matching, for any users, Moments, devices and   *)
(* bounds.                                                                 *)
(***************************************************************************)
EXTENDS Matching, SequenceLemmas

\* Every query and submission is in the name of a user of its device.
UsersAtHome ==
    /\ \A d \in Device : userAddress[d] \in Home[d] \cup {Nobody}
    /\ \A q \in queries : q.user \in Home[q.device]
    /\ \A d \in Device : \A i \in DOMAIN submissions[d] :
          submissions[d][i].user \in Home[d]

\* Likes on their way to the chain were swiped on their device.
LikesWereSwiped ==
    /\ \A d \in Device : Owners(likedMoments[d]) \subseteq swiped[d]
    /\ \A d \in Device : \A i \in DOMAIN submissions[d] :
          submissions[d][i].owners \subseteq swiped[d]

MatchingInv ==
    MatchingTypeOK /\ UsersAtHome /\ LikesWereSwiped /\ NoInventedLikes

\* Only one user logs in on each device.
OneUserEach == \A d \in Device : \A u, v \in Home[d] : u = v

\* A card from the feed of one of the viewers: of another user, whose like
\* reached the chain if the card says so.
CardFor(card, viewers) ==
    /\ card.viewer \in viewers
    /\ card.owner # card.viewer
    /\ card.userHasLiked => card.viewer \in EverOnChain(card.owner)

\* The cards of an answer are for the user who asked, those on the screen and
\* swiped for users of the device.
CardsForTheirUsers ==
    /\ \A q \in queries : q.feed # Unanswered =>
          \A card \in q.feed : CardFor(card, {q.user})
    /\ \A d \in Device : globalTradingBlock[d] # NotLoaded =>
          \A card \in globalTradingBlock[d] : CardFor(card, Home[d])
    /\ \A d \in Device : \A i \in DOMAIN likedMoments[d] :
          CardFor(likedMoments[d][i], Home[d])

\* An announced match is about the last like.
PromptsAreForLastLikes ==
    \A d \in Device : prompt[d] = "propose" /\ likedMoments[d] # << >> =>
       Last(likedMoments[d]).userHasLiked

OthersLiked ==
    \A d \in Device : \A i \in DOMAIN submissions[d] :
       submissions[d][i].user \notin submissions[d][i].owners

\* What holds besides, whoever shares devices.
FeedInv == CardsForTheirUsers /\ PromptsAreForLastLikes

\* What holds besides where every device has one user.
OwnDeviceInv == OthersLiked /\ NobodyLikesThemselves
-----------------------------------------------------------------------------
(***************************************************************************)
(* What the steps do to the sequences.                                     *)
(***************************************************************************)

\* A submission is sealed, fails, throws or is done: what is left was
\* there before.
LEMMA SubmissionsAfter ==
    ASSUME MatchingTypeOK, NEW d \in Device, NEW i \in DOMAIN submissions[d],
           \/ SubmissionSealed(d, i) \/ SubmissionFailed(d, i)
           \/ SubmissionThrows(d, i) \/ StraySealed(d, i)
           \/ SubmissionDone(d, i)
    PROVE  /\ submissions' \in [Device -> Seq(Submission)]
           /\ \A e \in Device : \A j \in DOMAIN submissions'[e] :
                 \E k \in DOMAIN submissions[e] :
                    /\ submissions'[e][j].user = submissions[e][k].user
                    /\ submissions'[e][j].owners = submissions[e][k].owners
<1>1. submissions \in [Device -> Seq(Submission)]
      /\ submissions[d] \in Seq(Submission) /\ i \in 1 .. Len(submissions[d])
  BY LenProperties DEF MatchingTypeOK
<1>2. CASE submissions' = [submissions EXCEPT ![d] = RemoveAt(@, i)]
  <2> DEFINE rest == RemoveAt(submissions[d], i)
  <2>1. /\ rest \in Seq(Submission)
        /\ \A j \in DOMAIN rest : \E k \in DOMAIN submissions[d] :
              rest[j] = submissions[d][k]
    BY <1>1, RemoveAtKeeps
  <2>2. submissions' = [submissions EXCEPT ![d] = rest]
    BY <1>2
  <2> HIDE DEF rest
  <2>3. submissions'[d] = rest
        /\ \A e \in Device \ {d} : submissions'[e] = submissions[e]
    BY <1>1, <2>2
  <2>4. submissions' \in [Device -> Seq(Submission)]
    BY <1>1, <2>1, <2>2
  <2>5. ASSUME NEW e \in Device, NEW j \in DOMAIN submissions'[e]
        PROVE  \E k \in DOMAIN submissions[e] :
                  submissions'[e][j] = submissions[e][k]
    BY <2>1, <2>3
  <2>6. ASSUME NEW e \in Device, NEW j \in DOMAIN submissions'[e]
        PROVE  \E k \in DOMAIN submissions[e] :
                  /\ submissions'[e][j].user = submissions[e][k].user
                  /\ submissions'[e][j].owners = submissions[e][k].owners
    BY <2>5
  <2> QED BY <2>4, <2>6
<1>3. ASSUME NEW o \in {"over", "stray"},
             submissions' = [submissions EXCEPT ![d][i].status = o]
      PROVE  /\ submissions' \in [Device -> Seq(Submission)]
             /\ \A e \in Device : \A j \in DOMAIN submissions'[e] :
                   \E k \in DOMAIN submissions[e] :
                      /\ submissions'[e][j].user = submissions[e][k].user
                      /\ submissions'[e][j].owners = submissions[e][k].owners
  <2> DEFINE new == [submissions[d][i] EXCEPT !.status = o]
             all == [submissions[d] EXCEPT ![i] = new]
  <2>1. /\ new \in Submission
        /\ new.user = submissions[d][i].user
        /\ new.owners = submissions[d][i].owners
    <3>1. submissions[d][i] \in Submission
      BY <1>1, ElementOfSeq
    <3> QED BY <3>1 DEF Submission
  <2>2. submissions' = [submissions EXCEPT ![d] = all]
    BY <1>1, <1>3
  <2> HIDE DEF new
  <2>3. /\ all \in Seq(Submission) /\ Len(all) = Len(submissions[d])
        /\ \A j \in 1 .. Len(submissions[d]) :
              all[j] = IF j = i THEN new ELSE submissions[d][j]
    BY <1>1, <2>1, ExceptSeq
  <2> HIDE DEF all
  <2>4. DOMAIN all = DOMAIN submissions[d]
        /\ DOMAIN all = 1 .. Len(submissions[d])
    BY <1>1, <2>3, LenProperties
  <2>5. \A j \in DOMAIN all :
           /\ all[j].user = submissions[d][j].user
           /\ all[j].owners = submissions[d][j].owners
    BY <2>1, <2>3, <2>4
  <2>6. submissions'[d] = all
        /\ \A e \in Device \ {d} : submissions'[e] = submissions[e]
    BY <1>1, <2>2
  <2>7. submissions' \in [Device -> Seq(Submission)]
    BY <1>1, <2>2, <2>3
  <2>8. ASSUME NEW e \in Device, NEW j \in DOMAIN submissions'[e]
        PROVE  \E k \in DOMAIN submissions[e] :
                  /\ submissions'[e][j].user = submissions[e][k].user
                  /\ submissions'[e][j].owners = submissions[e][k].owners
    BY <2>4, <2>5, <2>6
  <2> QED BY <2>7, <2>8
<1> QED BY <1>2, <1>3 DEF SubmissionSealed, SubmissionFailed,
        SubmissionThrows, StraySealed, SubmissionDone

\* The likes of now are submitted by the user of now.
LEMMA SubmissionsWithNew ==
    ASSUME MatchingTypeOK, NEW d \in Device, SubmitLikedMoments(d)
    PROVE  /\ submissions' \in [Device -> Seq(Submission)]
           /\ \A e \in Device : \A j \in DOMAIN submissions'[e] :
                 \/ j \in DOMAIN submissions[e]
                       /\ submissions'[e][j] = submissions[e][j]
                 \/ /\ e = d
                    /\ submissions'[e][j].user = userAddress[d]
                    /\ submissions'[e][j].owners = Owners(likedMoments[d])
<1> DEFINE new == [ user |-> userAddress[d], owners |-> Owners(likedMoments[d]),
                    status |-> "pending" ]
<1>1. submissions \in [Device -> Seq(Submission)]
      /\ submissions[d] \in Seq(Submission)
  BY DEF MatchingTypeOK
<1>2. new \in Submission
  <2>1. userAddress[d] \in User
    BY DEF MatchingTypeOK, SubmitLikedMoments
  <2>2. Owners(likedMoments[d]) \subseteq User
    <3>1. likedMoments[d] \in Seq(Card)
      BY DEF MatchingTypeOK
    <3>2. \A j \in DOMAIN likedMoments[d] : likedMoments[d][j].owner \in User
      <4>1. \A j \in DOMAIN likedMoments[d] : likedMoments[d][j] \in Card
        BY <3>1, ElementOfSeq, LenProperties
      <4> QED BY <4>1 DEF Card
    <3> QED BY <3>2 DEF Owners
  <2> QED BY <2>1, <2>2 DEF Submission
<1>3. new.user = userAddress[d] /\ new.owners = Owners(likedMoments[d])
  OBVIOUS
<1>4. submissions' = [submissions EXCEPT ![d] = Append(submissions[d], new)]
  BY DEF SubmitLikedMoments
<1> HIDE DEF new
<1>5. /\ Append(submissions[d], new) \in Seq(Submission)
      /\ Len(Append(submissions[d], new)) = Len(submissions[d]) + 1
      /\ \A j \in 1 .. Len(submissions[d]) :
            Append(submissions[d], new)[j] = submissions[d][j]
      /\ Append(submissions[d], new)[Len(submissions[d]) + 1] = new
  BY <1>1, <1>2, AppendProperties
<1>6. ASSUME NEW j \in DOMAIN Append(submissions[d], new)
      PROVE  \/ j \in DOMAIN submissions[d]
                   /\ Append(submissions[d], new)[j] = submissions[d][j]
             \/ Append(submissions[d], new)[j] = new
  <2>1. j \in 1 .. Len(submissions[d]) + 1
        /\ DOMAIN submissions[d] = 1 .. Len(submissions[d])
    BY <1>1, <1>5, LenProperties
  <2>2. j \in 1 .. Len(submissions[d]) \/ j = Len(submissions[d]) + 1
    BY <1>1, <2>1
  <2> QED BY <1>5, <2>1, <2>2
<1> QED BY <1>1, <1>3, <1>4, <1>5, <1>6

\* A swiped card is the last of the likes.
LEMMA LikesWithNew ==
    ASSUME MatchingTypeOK, NEW d \in Device, NEW card \in Card,
           UserLikedMoment(d, card)
    PROVE  /\ likedMoments' \in [Device -> Seq(Card)]
           /\ \A e \in Device : \A j \in DOMAIN likedMoments'[e] :
                 \/ j \in DOMAIN likedMoments[e]
                       /\ likedMoments'[e][j] = likedMoments[e][j]
                 \/ e = d /\ likedMoments'[e][j] = card
           /\ Last(likedMoments'[d]) = card
           /\ \A e \in Device \ {d} : likedMoments'[e] = likedMoments[e]
<1>1. likedMoments \in [Device -> Seq(Card)] /\ likedMoments[d] \in Seq(Card)
  BY DEF MatchingTypeOK
<1>2. likedMoments' = [likedMoments EXCEPT ![d] = Append(likedMoments[d], card)]
  BY DEF UserLikedMoment
<1>3. /\ Append(likedMoments[d], card) \in Seq(Card)
      /\ Len(Append(likedMoments[d], card)) = Len(likedMoments[d]) + 1
      /\ \A j \in 1 .. Len(likedMoments[d]) :
            Append(likedMoments[d], card)[j] = likedMoments[d][j]
      /\ Append(likedMoments[d], card)[Len(likedMoments[d]) + 1] = card
  BY <1>1, AppendProperties
<1>4. ASSUME NEW j \in DOMAIN Append(likedMoments[d], card)
      PROVE  \/ j \in DOMAIN likedMoments[d]
                   /\ Append(likedMoments[d], card)[j] = likedMoments[d][j]
             \/ Append(likedMoments[d], card)[j] = card
  <2>1. j \in 1 .. Len(likedMoments[d]) + 1
        /\ DOMAIN likedMoments[d] = 1 .. Len(likedMoments[d])
    BY <1>1, <1>3, LenProperties
  <2>2. j \in 1 .. Len(likedMoments[d]) \/ j = Len(likedMoments[d]) + 1
    BY <1>1, <2>1
  <2> QED BY <1>3, <2>1, <2>2
<1> QED BY <1>1, <1>2, <1>3, <1>4 DEF Last
-----------------------------------------------------------------------------
(***************************************************************************)
(* The first invariant: likes on the chain were swiped.                    *)
(***************************************************************************)

LEMMA StartsWithoutLikes == Init => MatchingInv
<1> SUFFICES ASSUME Init PROVE MatchingInv
  OBVIOUS
<1>1. MatchingTypeOK
  BY EmptySeq DEF Init, ContractInit, MatchingTypeOK, ContractTypeOK
<1>2. UsersAtHome /\ LikesWereSwiped /\ NoInventedLikes
  BY DEF Init, ContractInit, UsersAtHome, LikesWereSwiped, NoInventedLikes,
         Owners
<1> QED BY <1>1, <1>2 DEF MatchingInv

\* Steps of a device that neither like nor submit anything.
LEMMA DeviceStepKeepsInv ==
    ASSUME MatchingInv, NEW d \in Device,
           \/ \E u \in Home[d] : Login(d, u)
           \/ Logout(d)
           \/ \E card \in Card : UserDislikedMoment(d, card)
           \/ AskToSubmit(d)
           \/ OpenTradeView(d)
           \/ ClosePrompt(d)
    PROVE  MatchingInv'
<1>1. /\ UNCHANGED << chainVars, queries, submissions, swiped >>
      /\ likedMoments' \in { likedMoments,
                             [likedMoments EXCEPT ![d] = << >>] }
  BY DEF Login, Logout, UserDislikedMoment, AskToSubmit, OpenTradeView,
         ClosePrompt
<1>2. MatchingTypeOK'
  <2>1. userAddress' \in [Device -> User \cup {Nobody}]
    BY DeviceAssumption
       DEF MatchingInv, MatchingTypeOK, Login, Logout, UserDislikedMoment,
           AskToSubmit, OpenTradeView, ClosePrompt
  <2>2. globalTradingBlock' \in [Device -> (SUBSET Card) \cup {NotLoaded}]
    BY DEF MatchingInv, MatchingTypeOK, Login, Logout, UserDislikedMoment,
           AskToSubmit, OpenTradeView, ClosePrompt, Swipeable
  <2>3. prompt' \in [Device -> {"none", "submit", "propose", "trade"}]
    BY DEF MatchingInv, MatchingTypeOK, Login, Logout, UserDislikedMoment,
           AskToSubmit, OpenTradeView, ClosePrompt
  <2>4. likedMoments' \in [Device -> Seq(Card)]
    BY <1>1, EmptySeq DEF MatchingInv, MatchingTypeOK
  <2> QED BY <1>1, <2>1, <2>2, <2>3, <2>4
          DEF MatchingInv, MatchingTypeOK, ContractTypeOK, chainVars, contractVars
<1>3. UsersAtHome'
  <2>1. \A e \in Device : userAddress'[e] \in Home[e] \cup {Nobody}
    BY DEF MatchingInv, MatchingTypeOK, UsersAtHome, Login, Logout,
           UserDislikedMoment, AskToSubmit, OpenTradeView, ClosePrompt
  <2> QED BY <1>1, <2>1 DEF MatchingInv, UsersAtHome
<1>4. LikesWereSwiped'
  <2>1. \A e \in Device : Owners(likedMoments'[e]) \subseteq
                          Owners(likedMoments[e])
    <3>1. Owners(<< >>) = {}
      BY DEF Owners
    <3>2. \A e \in Device : likedMoments'[e] \in {likedMoments[e], << >>}
      BY <1>1 DEF MatchingInv, MatchingTypeOK
    <3> QED BY <3>1, <3>2
  <2> QED BY <1>1, <2>1 DEF MatchingInv, LikesWereSwiped, Owners
<1>5. NoInventedLikes'
  BY <1>1 DEF MatchingInv, NoInventedLikes, chainVars, contractVars
<1> QED BY <1>2, <1>3, <1>4, <1>5 DEF MatchingInv

\* A feed consists of cards of others, and says what the contract has.
LEMMA FeedsAreCards ==
    ASSUME NEW user \in User, NEW feed \in Feeds(user)
    PROVE  /\ feed \in SUBSET Card
           /\ \A card \in feed : CardFor(card, {user})
<1>1. PICK f \in [{ m \in Moment : OthersListing(m, user) # {} } -> User] :
         /\ \A m \in DOMAIN f : f[m] \in OthersListing(m, user)
         /\ feed = { CardOf(m, f[m], user) : m \in DOMAIN f }
  BY DEF Feeds
<1>2. ASSUME NEW m \in DOMAIN f
      PROVE  /\ CardOf(m, f[m], user) \in Card
             /\ CardFor(CardOf(m, f[m], user), {user})
  <2>1. m \in Moment /\ f[m] \in User /\ f[m] # user
    BY <1>1 DEF OthersListing
  <2>2. (user \in likedMomentsRelationship[f[m]]) \in BOOLEAN
    OBVIOUS
  <2>3. CardOf(m, f[m], user) \in Card
    BY <2>1, <2>2 DEF CardOf, Card
  <2>4. CardFor(CardOf(m, f[m], user), {user})
    BY <2>1 DEF CardOf, CardFor, EverOnChain
  <2> QED BY <2>3, <2>4
<1> QED BY <1>1, <1>2

LEMMA QueryStepKeepsInv ==
    ASSUME MatchingInv,
           \/ \E d \in Device : GetGlobalTradingBlock(d)
           \/ \E q \in queries : AnswerQuery(q)
           \/ \E q \in queries : FeedLoaded(q)
    PROVE  MatchingInv'
<1>1. UNCHANGED << chainVars, userAddress, likedMoments, prompt,
                   submissions, swiped >>
  BY DEF GetGlobalTradingBlock, AnswerQuery, FeedLoaded
<1>2. queries \subseteq Query
  BY DEF MatchingInv, MatchingTypeOK
<1>3. globalTradingBlock \in [Device -> (SUBSET Card) \cup {NotLoaded}]
  BY DEF MatchingInv, MatchingTypeOK
<1>4. /\ queries' \subseteq Query
      /\ globalTradingBlock' \in [Device -> (SUBSET Card) \cup {NotLoaded}]
      /\ \A q \in queries' : q.user \in Home[q.device]
  <2>1. ASSUME NEW d \in Device, GetGlobalTradingBlock(d)
        PROVE  <1>4!1 /\ <1>4!2 /\ <1>4!3
    <3> DEFINE new == [ device |-> d, user |-> userAddress[d],
                        feed |-> Unanswered ]
    <3>1. userAddress[d] \in User /\ userAddress[d] \in Home[d]
      BY <2>1 DEF GetGlobalTradingBlock, MatchingInv, MatchingTypeOK,
                  UsersAtHome
    <3>2. new \in Query /\ new.user \in Home[new.device]
      BY <3>1 DEF Query
    <3>3. queries' = queries \cup {new} /\ UNCHANGED globalTradingBlock
      BY <2>1 DEF GetGlobalTradingBlock
    <3> HIDE DEF new
    <3> QED BY <1>2, <1>3, <3>2, <3>3 DEF MatchingInv, UsersAtHome
  <2>2. ASSUME NEW q \in queries, AnswerQuery(q)
        PROVE  <1>4!1 /\ <1>4!2 /\ <1>4!3
    <3>1. PICK feed \in Feeds(q.user) :
             queries' = (queries \ {q}) \cup {[q EXCEPT !.feed = feed]}
      BY <2>2 DEF AnswerQuery
    <3>2. feed \in SUBSET Card
      <4>1. q.user \in User
        BY <1>2 DEF Query
      <4> QED BY <3>1, <4>1, FeedsAreCards
    <3> DEFINE new == [q EXCEPT !.feed = feed]
    <3>3. new \in Query /\ new.user = q.user /\ new.device = q.device
      BY <1>2, <3>2 DEF Query
    <3>4. queries' = (queries \ {q}) \cup {new} /\ UNCHANGED globalTradingBlock
      BY <2>2, <3>1 DEF AnswerQuery
    <3> HIDE DEF new
    <3> QED BY <1>2, <1>3, <3>3, <3>4 DEF MatchingInv, UsersAtHome
  <2>3. ASSUME NEW q \in queries, FeedLoaded(q)
        PROVE  <1>4!1 /\ <1>4!2 /\ <1>4!3
    <3>1. q.feed \in SUBSET Card /\ q.device \in Device
      BY <1>2, <2>3 DEF Query, FeedLoaded
    <3>2. queries' = queries \ {q} /\ globalTradingBlock' =
             [globalTradingBlock EXCEPT ![q.device] = q.feed]
      BY <2>3 DEF FeedLoaded
    <3> QED BY <1>2, <1>3, <3>1, <3>2 DEF MatchingInv, UsersAtHome
  <2> QED BY <2>1, <2>2, <2>3
<1>5. MatchingTypeOK'
  BY <1>1, <1>4 DEF MatchingInv, MatchingTypeOK, ContractTypeOK, chainVars, contractVars
<1>6. UsersAtHome' /\ LikesWereSwiped' /\ NoInventedLikes'
  BY <1>1, <1>4 DEF MatchingInv, UsersAtHome, LikesWereSwiped,
     NoInventedLikes, chainVars, contractVars
<1> QED BY <1>5, <1>6 DEF MatchingInv

LEMMA SwipeKeepsInv ==
    ASSUME MatchingInv, NEW d \in Device, NEW card \in Card,
           UserLikedMoment(d, card)
    PROVE  MatchingInv'
<1>1. /\ likedMoments' \in [Device -> Seq(Card)]
      /\ \A e \in Device : \A j \in DOMAIN likedMoments'[e] :
            \/ j \in DOMAIN likedMoments[e]
                  /\ likedMoments'[e][j] = likedMoments[e][j]
            \/ e = d /\ likedMoments'[e][j] = card
  BY LikesWithNew DEF MatchingInv
<1>2. /\ UNCHANGED << chainVars, userAddress, queries, submissions >>
      /\ swiped' = [swiped EXCEPT ![d] = @ \cup {card.owner}]
  BY DEF UserLikedMoment
<1>3. swiped \in [Device -> SUBSET User] /\ card.owner \in User
  BY DEF MatchingInv, MatchingTypeOK, Card
<1>4. /\ swiped' \in [Device -> SUBSET User]
      /\ card.owner \in swiped'[d]
      /\ \A e \in Device : swiped[e] \subseteq swiped'[e]
  BY <1>2, <1>3
<1>5. MatchingTypeOK'
  <2>1. globalTradingBlock' \in [Device -> (SUBSET Card) \cup {NotLoaded}]
    BY DEF MatchingInv, MatchingTypeOK, UserLikedMoment, Swipeable
  <2>2. prompt' \in [Device -> {"none", "submit", "propose", "trade"}]
    BY DEF MatchingInv, MatchingTypeOK, UserLikedMoment, PromptAfter
  <2> QED BY <1>1, <1>2, <1>4, <2>1, <2>2
          DEF MatchingInv, MatchingTypeOK, ContractTypeOK, chainVars, contractVars
<1>6. UsersAtHome'
  BY <1>2 DEF MatchingInv, UsersAtHome
<1>7. LikesWereSwiped'
  <2>1. ASSUME NEW e \in Device, NEW j \in DOMAIN likedMoments'[e]
        PROVE  likedMoments'[e][j].owner \in swiped'[e]
    <3>1. CASE /\ j \in DOMAIN likedMoments[e]
               /\ likedMoments'[e][j] = likedMoments[e][j]
      BY <1>4, <3>1 DEF MatchingInv, LikesWereSwiped, Owners
    <3>2. CASE e = d /\ likedMoments'[e][j] = card
      BY <1>4, <3>2
    <3> QED BY <1>1, <3>1, <3>2
  <2> QED BY <1>2, <1>4, <2>1 DEF MatchingInv, LikesWereSwiped, Owners
<1>8. NoInventedLikes'
  BY <1>2, <1>4 DEF MatchingInv, NoInventedLikes, chainVars, contractVars
<1> QED BY <1>5, <1>6, <1>7, <1>8 DEF MatchingInv

LEMMA SubmitKeepsInv ==
    ASSUME MatchingInv, NEW d \in Device, SubmitLikedMoments(d)
    PROVE  MatchingInv'
<1>1. /\ submissions' \in [Device -> Seq(Submission)]
      /\ \A e \in Device : \A j \in DOMAIN submissions'[e] :
            \/ j \in DOMAIN submissions[e]
                  /\ submissions'[e][j] = submissions[e][j]
            \/ /\ e = d
               /\ submissions'[e][j].user = userAddress[d]
               /\ submissions'[e][j].owners = Owners(likedMoments[d])
  BY SubmissionsWithNew DEF MatchingInv
<1>2. /\ UNCHANGED << chainVars, userAddress, globalTradingBlock,
                      likedMoments, queries, swiped >>
      /\ userAddress[d] # Nobody
      /\ prompt' = [prompt EXCEPT ![d] = "none"]
  BY DEF SubmitLikedMoments
<1>3. MatchingTypeOK'
  BY <1>1, <1>2
     DEF MatchingInv, MatchingTypeOK, ContractTypeOK, chainVars, contractVars
<1>4. UsersAtHome'
  BY <1>1, <1>2 DEF MatchingInv, UsersAtHome
<1>5. LikesWereSwiped'
  BY <1>1, <1>2 DEF MatchingInv, LikesWereSwiped, Owners
<1>6. NoInventedLikes'
  BY <1>2 DEF MatchingInv, NoInventedLikes, chainVars, contractVars
<1> QED BY <1>3, <1>4, <1>5, <1>6 DEF MatchingInv

\* A transaction that is sealed records what its user swiped.
LEMMA SubmissionEndKeepsInv ==
    ASSUME MatchingInv, NEW d \in Device, NEW i \in DOMAIN submissions[d],
           \/ SubmissionSealed(d, i) \/ SubmissionFailed(d, i)
           \/ SubmissionThrows(d, i) \/ StraySealed(d, i)
           \/ SubmissionDone(d, i)
    PROVE  MatchingInv'
<1>1. /\ submissions' \in [Device -> Seq(Submission)]
      /\ \A e \in Device : \A j \in DOMAIN submissions'[e] :
            \E k \in DOMAIN submissions[e] :
               /\ submissions'[e][j].user = submissions[e][k].user
               /\ submissions'[e][j].owners = submissions[e][k].owners
  BY SubmissionsAfter DEF MatchingInv
<1>2. /\ UNCHANGED << tradingBlock, userAddress, globalTradingBlock, prompt,
                      queries, swiped >>
      /\ likedMoments' \in { likedMoments,
                             [likedMoments EXCEPT ![d] = << >>] }
  BY DEF SubmissionSealed, SubmissionFailed, SubmissionThrows, StraySealed,
         SubmissionDone, LikesRecorded, AddLikedMoments, chainVars,
         contractVars
<1>3. /\ submissions[d][i].user \in User
      /\ submissions[d][i].owners \subseteq User
  <2>1. submissions[d] \in Seq(Submission)
    BY DEF MatchingInv, MatchingTypeOK
  <2>2. submissions[d][i] \in Submission
    BY <2>1, ElementOfSeq, LenProperties
  <2> QED BY <2>2 DEF Submission
<1>4. likedMomentsRelationship' \in
         { likedMomentsRelationship,
           [likedMomentsRelationship EXCEPT
               ![submissions[d][i].user] = @ \cup submissions[d][i].owners] }
  BY DEF SubmissionSealed, SubmissionFailed, SubmissionThrows, StraySealed,
         SubmissionDone, LikesRecorded, AddLikedMoments, chainVars,
         contractVars
<1>5. forgotten' \in
         { forgotten,
           [forgotten EXCEPT
               ![submissions[d][i].user] = @ \ submissions[d][i].owners] }
  BY DEF SubmissionSealed, SubmissionFailed, SubmissionThrows, StraySealed,
         SubmissionDone, LikesRecorded, chainVars
<1>6. MatchingTypeOK'
  <2>1. likedMomentsRelationship' \in [User -> SUBSET User]
    <3>1. likedMomentsRelationship \in [User -> SUBSET User]
      BY DEF MatchingInv, MatchingTypeOK, ContractTypeOK
    <3> QED BY <1>3, <1>4, <3>1
  <2>2. likedMoments' \in [Device -> Seq(Card)]
    <3>1. likedMoments \in [Device -> Seq(Card)]
      BY DEF MatchingInv, MatchingTypeOK
    <3> QED BY <1>2, <3>1, EmptySeq
  <2>3. forgotten' \in [User -> SUBSET User]
    <3>1. forgotten \in [User -> SUBSET User]
      BY DEF MatchingInv, MatchingTypeOK
    <3> QED BY <1>5, <3>1
  <2> QED BY <1>1, <1>2, <2>1, <2>2, <2>3
          DEF MatchingInv, MatchingTypeOK, ContractTypeOK
<1>7. UsersAtHome'
  BY <1>1, <1>2 DEF MatchingInv, UsersAtHome
<1>8. LikesWereSwiped'
  <2>1. Owners(<< >>) = {}
    BY DEF Owners
  <2>2. \A e \in Device : likedMoments'[e] \in {likedMoments[e], << >>}
    BY <1>2 DEF MatchingInv, MatchingTypeOK
  <2>3. \A e \in Device : Owners(likedMoments'[e]) \subseteq swiped'[e]
    BY <1>2, <2>1, <2>2 DEF MatchingInv, LikesWereSwiped
  <2>4. \A e \in Device : \A j \in DOMAIN submissions'[e] :
           submissions'[e][j].owners \subseteq swiped'[e]
    BY <1>1, <1>2 DEF MatchingInv, LikesWereSwiped
  <2>5. \A e \in Device : Owners(likedMoments[e])' = Owners(likedMoments'[e])
    BY DEF Owners
  <2> QED BY <2>3, <2>4, <2>5 DEF LikesWereSwiped
<1>9. NoInventedLikes'
  <2>1. /\ submissions[d][i].user \in Home[d]
        /\ submissions[d][i].owners \subseteq swiped[d]
    BY DEF MatchingInv, UsersAtHome, LikesWereSwiped
  <2>2. \A u \in User : \A owner \in likedMomentsRelationship'[u] :
           \/ owner \in likedMomentsRelationship[u]
           \/ u = submissions[d][i].user /\ owner \in submissions[d][i].owners
    BY <1>3, <1>4 DEF MatchingInv, MatchingTypeOK, ContractTypeOK
  <2> QED BY <1>2, <2>1, <2>2 DEF MatchingInv, NoInventedLikes
<1> QED BY <1>6, <1>7, <1>8, <1>9 DEF MatchingInv

\* Blocks are updated and traded Moments removed.
LEMMA BlockStepKeepsInv ==
    ASSUME MatchingInv,
           \/ \E u \in User : \E block \in Blocks[u] : BlockUpdated(u, block)
           \/ \E u \in User, moment \in Moment : MomentRemoved(u, moment)
    PROVE  MatchingInv'
<1>1. UNCHANGED << forgotten, deviceVars, likedMomentsRelationship >>
  BY DEF BlockUpdated, MomentRemoved, UpdateUserTradingBlock,
         RemoveMomentFromTradingBlock
<1>2. tradingBlock \in [User -> Seq(Moment)]
  BY DEF MatchingInv, MatchingTypeOK, ContractTypeOK
<1>3. tradingBlock' \in [User -> Seq(Moment)]
  <2>1. ASSUME NEW u \in User, NEW block \in Blocks[u], BlockUpdated(u, block)
        PROVE  tradingBlock' \in [User -> Seq(Moment)]
    BY <1>2, <2>1, DeviceAssumption DEF BlockUpdated, UpdateUserTradingBlock
  <2>2. ASSUME NEW u \in User, NEW moment \in Moment, MomentRemoved(u, moment)
        PROVE  tradingBlock' \in [User -> Seq(Moment)]
    <3>1. RemoveFirst(tradingBlock[u], moment) \in Seq(Moment)
      BY <1>2, RemoveFirstKeeps
    <3> QED BY <1>2, <2>2, <3>1
            DEF MomentRemoved, RemoveMomentFromTradingBlock, WithoutMoment
  <2> QED BY <2>1, <2>2
<1> QED BY <1>1, <1>3 DEF MatchingInv, MatchingTypeOK, ContractTypeOK,
        UsersAtHome, LikesWereSwiped, NoInventedLikes, deviceVars, Owners

\* After a reset there are no likes to ask about.
LEMMA ResetKeepsInv ==
    ASSUME MatchingInv, ContractReset
    PROVE  MatchingInv'
<1>1. /\ UNCHANGED deviceVars
      /\ tradingBlock' = [u \in User |-> << >>]
      /\ likedMomentsRelationship' = [u \in User |-> {}]
      /\ forgotten' = [u \in User |-> EverOnChain(u)]
  BY DEF ContractReset, Reset
<1>2. \A u \in User : EverOnChain(u) \in SUBSET User
  BY DEF MatchingInv, MatchingTypeOK, ContractTypeOK, EverOnChain
<1>3. MatchingTypeOK'
  BY <1>1, <1>2, EmptySeq
     DEF MatchingInv, MatchingTypeOK, ContractTypeOK, deviceVars
<1>4. UsersAtHome' /\ LikesWereSwiped' /\ NoInventedLikes'
  BY <1>1 DEF MatchingInv, UsersAtHome, LikesWereSwiped, NoInventedLikes,
     Owners, deviceVars
<1> QED BY <1>3, <1>4 DEF MatchingInv

LEMMA MatchingStepKeepsInv == MatchingInv /\ [Next]_vars => MatchingInv'
<1> SUFFICES ASSUME MatchingInv, [Next]_vars
             PROVE  MatchingInv'
  OBVIOUS
<1>1. ASSUME NEW d \in Device, OnDevice(d)
      PROVE  MatchingInv'
  BY <1>1, DeviceStepKeepsInv, QueryStepKeepsInv, SwipeKeepsInv,
     SubmitKeepsInv, SubmissionEndKeepsInv DEF OnDevice
<1>2. CASE \/ \E q \in queries : AnswerQuery(q)
           \/ \E q \in queries : FeedLoaded(q)
  BY <1>2, QueryStepKeepsInv
<1>3. CASE \/ \E u \in User : \E block \in Blocks[u] : BlockUpdated(u, block)
           \/ \E u \in User, moment \in Moment : MomentRemoved(u, moment)
  BY <1>3, BlockStepKeepsInv
<1>4. CASE ContractReset
  BY <1>4, ResetKeepsInv
<1>5. CASE UNCHANGED vars
  BY <1>5 DEF vars, chainVars, contractVars, deviceVars, MatchingInv, MatchingTypeOK,
     ContractTypeOK, UsersAtHome, LikesWereSwiped, NoInventedLikes, Owners
<1> QED BY <1>1, <1>2, <1>3, <1>4, <1>5 DEF Next

\* The inductive invariant of likes and submissions.
THEOREM MatchingInvariance == Spec => []MatchingInv
BY StartsWithoutLikes, MatchingStepKeepsInv, PTL DEF Spec

\* Type correctness, for any number of users and devices.
THEOREM MatchingTypeCorrect == Spec => []MatchingTypeOK
<1>1. MatchingInv => MatchingTypeOK
  BY DEF MatchingInv
<1> QED BY <1>1, MatchingInvariance, PTL

\* Every like on the chain was swiped to the right on a device of its user,
\* whoever shares devices (BlockchainViewModel.swift:57-72, 471-477).
THEOREM LikesAreNotInvented == Spec => []NoInventedLikes
<1>1. MatchingInv => NoInventedLikes
  BY DEF MatchingInv
<1> QED BY <1>1, MatchingInvariance, PTL
-----------------------------------------------------------------------------
(***************************************************************************)
(* The second invariant: cards are for the user whose feed they came with, *)
(* and what they say of the chain is true for good.                        *)
(***************************************************************************)

\* The chain forgets no like but by a reset.
LEMMA LikesStay ==
    ASSUME MatchingInv, [Next]_vars
    PROVE  \A u \in User : EverOnChain(u) \subseteq EverOnChain(u)'
<1>1. /\ likedMomentsRelationship \in [User -> SUBSET User]
      /\ forgotten \in [User -> SUBSET User]
  BY DEF MatchingInv, MatchingTypeOK, ContractTypeOK
<1>2. ASSUME NEW u, NEW owners,
             likedMomentsRelationship' =
                [likedMomentsRelationship EXCEPT ![u] = @ \cup owners],
             forgotten' = [forgotten EXCEPT ![u] = @ \ owners]
      PROVE  \A v \in User : EverOnChain(v) \subseteq EverOnChain(v)'
  <2>1. \A v \in User :
           /\ likedMomentsRelationship'[v] =
                 IF v = u THEN likedMomentsRelationship[v] \cup owners
                          ELSE likedMomentsRelationship[v]
           /\ forgotten'[v] = IF v = u THEN forgotten[v] \ owners
                                       ELSE forgotten[v]
    BY <1>1, <1>2
  <2> QED BY <2>1 DEF EverOnChain
<1>3. ASSUME UNCHANGED << likedMomentsRelationship, forgotten >>
      PROVE  \A v \in User : EverOnChain(v) \subseteq EverOnChain(v)'
  BY <1>3 DEF EverOnChain
<1>4. ASSUME ContractReset
      PROVE  \A v \in User : EverOnChain(v) \subseteq EverOnChain(v)'
  BY <1>4 DEF ContractReset, Reset, EverOnChain
<1>5. ASSUME NEW d \in Device, NEW i \in DOMAIN submissions[d],
             SubmissionSealed(d, i) \/ StraySealed(d, i)
      PROVE  \A v \in User : EverOnChain(v) \subseteq EverOnChain(v)'
  <2>1. /\ likedMomentsRelationship' =
              [likedMomentsRelationship EXCEPT ![submissions[d][i].user] =
                  @ \cup submissions[d][i].owners]
        /\ forgotten' = [forgotten EXCEPT ![submissions[d][i].user] =
                            @ \ submissions[d][i].owners]
    BY <1>5 DEF SubmissionSealed, StraySealed, LikesRecorded, AddLikedMoments
  <2> QED BY <1>2, <2>1
<1>6. \/ UNCHANGED << likedMomentsRelationship, forgotten >>
      \/ ContractReset
      \/ \E d \in Device : \E i \in DOMAIN submissions[d] :
            SubmissionSealed(d, i) \/ StraySealed(d, i)
  BY DEF Next, OnDevice, vars, chainVars, contractVars, Login, Logout,
     GetGlobalTradingBlock, AnswerQuery, FeedLoaded, UserLikedMoment,
     UserDislikedMoment, AskToSubmit, OpenTradeView, ClosePrompt,
     SubmitLikedMoments, SubmissionFailed, SubmissionThrows, SubmissionDone,
     BlockUpdated, MomentRemoved, UpdateUserTradingBlock,
     RemoveMomentFromTradingBlock
<1> QED BY <1>3, <1>4, <1>5, <1>6

LEMMA CardsStayFor ==
    ASSUME MatchingInv, [Next]_vars, NEW card \in Card, NEW viewers,
           CardFor(card, viewers)
    PROVE  CardFor(card, viewers)'
<1>1. card.owner \in User
  BY DEF Card
<1> QED BY <1>1, LikesStay DEF CardFor

\* The cards of each place are cards.
LEMMA CardsAreCards ==
    ASSUME MatchingInv
    PROVE  /\ \A q \in queries : q.feed # Unanswered => q.feed \subseteq Card
           /\ \A d \in Device : globalTradingBlock[d] # NotLoaded =>
                 globalTradingBlock[d] \subseteq Card
           /\ \A d \in Device : \A i \in DOMAIN likedMoments[d] :
                 likedMoments[d][i] \in Card
           /\ \A q \in queries : q.user \in User /\ q.device \in Device
<1>1. queries \subseteq Query
      /\ globalTradingBlock \in [Device -> (SUBSET Card) \cup {NotLoaded}]
  BY DEF MatchingInv, MatchingTypeOK
<1>2. ASSUME NEW d \in Device, NEW i \in DOMAIN likedMoments[d]
      PROVE  likedMoments[d][i] \in Card
  <2>1. likedMoments[d] \in Seq(Card)
    BY DEF MatchingInv, MatchingTypeOK
  <2> QED BY <2>1, ElementOfSeq, LenProperties
<1> QED BY <1>1, <1>2 DEF Query

\* Cards stay for their users when every card that is in a new place is for
\* the users of that place.
LEMMA CardsInPlace ==
    ASSUME MatchingInv, CardsForTheirUsers, [Next]_vars,
           \A q \in queries' : q.feed # Unanswered =>
              \/ q \in queries
              \/ \A card \in q.feed : card \in Card /\ CardFor(card, {q.user}),
           \A d \in Device : globalTradingBlock'[d] # NotLoaded =>
              \A card \in globalTradingBlock'[d] :
                 \/ /\ globalTradingBlock[d] # NotLoaded
                    /\ card \in globalTradingBlock[d]
                 \/ card \in Card /\ CardFor(card, Home[d]),
           \A d \in Device : \A i \in DOMAIN likedMoments'[d] :
              \/ /\ i \in DOMAIN likedMoments[d]
                 /\ likedMoments'[d][i] = likedMoments[d][i]
              \/ \E card \in Card : /\ likedMoments'[d][i] = card
                                    /\ CardFor(card, Home[d])
    PROVE  CardsForTheirUsers'
<1>1. ASSUME NEW q \in queries', q.feed # Unanswered, NEW card \in q.feed
      PROVE  CardFor(card, {q.user})'
  <2>1. card \in Card /\ CardFor(card, {q.user})
    BY <1>1, CardsAreCards DEF CardsForTheirUsers
  <2> QED BY <2>1, CardsStayFor
<1>2. ASSUME NEW d \in Device, globalTradingBlock'[d] # NotLoaded,
             NEW card \in globalTradingBlock'[d]
      PROVE  CardFor(card, Home[d])'
  <2>1. card \in Card /\ CardFor(card, Home[d])
    BY <1>2, CardsAreCards DEF CardsForTheirUsers
  <2> QED BY <2>1, CardsStayFor
<1>3. ASSUME NEW d \in Device, NEW i \in DOMAIN likedMoments'[d]
      PROVE  CardFor(likedMoments[d][i], Home[d])'
  <2>1. PICK card \in Card : /\ likedMoments'[d][i] = card
                             /\ CardFor(card, Home[d])
    <3>1. CASE /\ i \in DOMAIN likedMoments[d]
               /\ likedMoments'[d][i] = likedMoments[d][i]
      <4>1. /\ likedMoments[d][i] \in Card
            /\ CardFor(likedMoments[d][i], Home[d])
        BY <3>1, CardsAreCards DEF CardsForTheirUsers
      <4> QED BY <3>1, <4>1
    <3> QED BY <3>1
  <2>2. CardFor(card, Home[d])'
    BY <2>1, CardsStayFor
  <2> QED BY <2>1, <2>2 DEF CardFor
<1> QED BY <1>1, <1>2, <1>3 DEF CardsForTheirUsers

LEMMA CardsStayForTheirUsers ==
    ASSUME MatchingInv, CardsForTheirUsers, [Next]_vars
    PROVE  CardsForTheirUsers'
<1>1. ASSUME NEW q \in queries, AnswerQuery(q)
      PROVE  CardsForTheirUsers'
  <2>1. PICK feed \in Feeds(q.user) :
           queries' = (queries \ {q}) \cup {[q EXCEPT !.feed = feed]}
    BY <1>1 DEF AnswerQuery
  <2>2. \A card \in feed : card \in Card /\ CardFor(card, {q.user})
    <3>1. q.user \in User
      BY CardsAreCards
    <3> QED BY <2>1, <3>1, FeedsAreCards
  <2>3. [q EXCEPT !.feed = feed].feed = feed
        /\ [q EXCEPT !.feed = feed].user = q.user
    <3>1. q \in Query
      BY DEF MatchingInv, MatchingTypeOK
    <3> QED BY <3>1 DEF Query
  <2>4. UNCHANGED << globalTradingBlock, likedMoments >>
    BY <1>1 DEF AnswerQuery
  <2>5. \A p \in queries' : \/ p \in queries
                            \/ p.feed = feed /\ p.user = q.user
    BY <2>1, <2>3
  <2> QED BY <2>2, <2>4, <2>5, CardsInPlace
<1>2. ASSUME NEW q \in queries, FeedLoaded(q)
      PROVE  CardsForTheirUsers'
  <2>1. /\ q.feed # Unanswered /\ q.device \in Device /\ q.user \in Home[q.device]
        /\ q.feed \subseteq Card
        /\ \A card \in q.feed : CardFor(card, Home[q.device])
    BY <1>2, CardsAreCards
       DEF FeedLoaded, CardsForTheirUsers, MatchingInv, UsersAtHome, CardFor
  <2>2. /\ queries' \subseteq queries
        /\ globalTradingBlock' =
              [globalTradingBlock EXCEPT ![q.device] = q.feed]
        /\ UNCHANGED likedMoments
    BY <1>2 DEF FeedLoaded
  <2>3. \A d \in Device : \A card \in globalTradingBlock'[d] :
           \/ globalTradingBlock'[d] = globalTradingBlock[d]
           \/ card \in Card /\ CardFor(card, Home[d])
    BY <2>1, <2>2 DEF MatchingInv, MatchingTypeOK
  <2> QED BY <2>2, <2>3, CardsInPlace
<1>3. ASSUME NEW d \in Device, NEW card \in Card, UserLikedMoment(d, card)
      PROVE  CardsForTheirUsers'
  <2>1. CardFor(card, Home[d])
    BY <1>3 DEF UserLikedMoment, Swipeable, CardsForTheirUsers
  <2>2. \A e \in Device : \A j \in DOMAIN likedMoments'[e] :
           \/ j \in DOMAIN likedMoments[e]
                 /\ likedMoments'[e][j] = likedMoments[e][j]
           \/ e = d /\ likedMoments'[e][j] = card
    BY <1>3, LikesWithNew DEF MatchingInv
  <2>3. UNCHANGED queries
    BY <1>3 DEF UserLikedMoment
  <2>4. \A e \in Device : globalTradingBlock'[e] # NotLoaded =>
           /\ globalTradingBlock[e] # NotLoaded
           /\ globalTradingBlock'[e] \subseteq globalTradingBlock[e]
    BY <1>3 DEF UserLikedMoment, Swipeable, MatchingInv, MatchingTypeOK
  <2> QED BY <2>1, <2>2, <2>3, <2>4, CardsInPlace
<1>4. CASE /\ \A q \in queries' : q.feed # Unanswered => q \in queries
           /\ \A d \in Device : globalTradingBlock'[d] # NotLoaded =>
                 /\ globalTradingBlock[d] # NotLoaded
                 /\ globalTradingBlock'[d] \subseteq globalTradingBlock[d]
           /\ \A d \in Device : likedMoments'[d] \in {likedMoments[d], << >>}
  <2>1. \A d \in Device : \A i \in DOMAIN likedMoments'[d] :
           /\ i \in DOMAIN likedMoments[d]
           /\ likedMoments'[d][i] = likedMoments[d][i]
    BY <1>4
  <2> QED BY <1>4, <2>1, CardsInPlace
<1>5. ASSUME NEW d \in Device, GetGlobalTradingBlock(d)
      PROVE  CardsForTheirUsers'
  <2>1. queries' = queries \cup { [ device |-> d, user |-> userAddress[d],
                                    feed |-> Unanswered ] }
        /\ UNCHANGED << globalTradingBlock, likedMoments >>
    BY <1>5 DEF GetGlobalTradingBlock
  <2> QED BY <1>4, <2>1
<1>6. ASSUME NEW d \in Device,
             \/ \E u \in Home[d] : Login(d, u)
             \/ AskToSubmit(d) \/ OpenTradeView(d) \/ ClosePrompt(d)
             \/ SubmitLikedMoments(d)
             \/ \E i \in DOMAIN submissions[d] : SubmissionSealed(d, i)
             \/ \E i \in DOMAIN submissions[d] : SubmissionFailed(d, i)
             \/ \E i \in DOMAIN submissions[d] : SubmissionThrows(d, i)
             \/ \E i \in DOMAIN submissions[d] : StraySealed(d, i)
      PROVE  CardsForTheirUsers'
  <2>1. UNCHANGED << queries, globalTradingBlock, likedMoments >>
    BY <1>6 DEF Login, AskToSubmit, OpenTradeView, ClosePrompt,
       SubmitLikedMoments, SubmissionSealed, SubmissionFailed,
       SubmissionThrows, StraySealed
  <2> QED BY <1>4, <2>1
<1>7. ASSUME NEW d \in Device, Logout(d)
      PROVE  CardsForTheirUsers'
  <2>1. /\ UNCHANGED queries
        /\ globalTradingBlock' = [globalTradingBlock EXCEPT ![d] = NotLoaded]
        /\ likedMoments' = [likedMoments EXCEPT ![d] = << >>]
    BY <1>7 DEF Logout
  <2> QED BY <1>4, <2>1 DEF MatchingInv, MatchingTypeOK
<1>8. ASSUME NEW d \in Device, NEW card \in Card, UserDislikedMoment(d, card)
      PROVE  CardsForTheirUsers'
  <2>1. /\ UNCHANGED << queries, likedMoments >>
        /\ globalTradingBlock[d] # NotLoaded
        /\ globalTradingBlock' =
              [globalTradingBlock EXCEPT ![d] = @ \ {card}]
    BY <1>8 DEF UserDislikedMoment, Swipeable
  <2> QED BY <1>4, <2>1 DEF MatchingInv, MatchingTypeOK
<1>9. ASSUME NEW d \in Device, NEW i \in DOMAIN submissions[d],
             SubmissionDone(d, i)
      PROVE  CardsForTheirUsers'
  <2>1. /\ UNCHANGED << queries, globalTradingBlock >>
        /\ likedMoments' = [likedMoments EXCEPT ![d] = << >>]
    BY <1>9 DEF SubmissionDone
  <2> QED BY <1>4, <2>1 DEF MatchingInv, MatchingTypeOK
<1>10. CASE \/ \E u \in User : \E block \in Blocks[u] : BlockUpdated(u, block)
            \/ \E u \in User, moment \in Moment : MomentRemoved(u, moment)
            \/ ContractReset
            \/ UNCHANGED vars
  <2>1. UNCHANGED << queries, globalTradingBlock, likedMoments >>
    BY <1>10 DEF BlockUpdated, MomentRemoved, ContractReset, deviceVars, vars
  <2> QED BY <1>4, <2>1
<1> QED BY <1>1, <1>2, <1>3, <1>5, <1>6, <1>7, <1>8, <1>9, <1>10
        DEF Next, OnDevice

LEMMA PromptsStayForLastLikes ==
    ASSUME MatchingInv, PromptsAreForLastLikes, [Next]_vars
    PROVE  PromptsAreForLastLikes'
<1>1. ASSUME NEW d \in Device, NEW card \in Card, UserLikedMoment(d, card)
      PROVE  PromptsAreForLastLikes'
  <2>1. /\ Last(likedMoments'[d]) = card
        /\ \A e \in Device \ {d} : likedMoments'[e] = likedMoments[e]
    BY <1>1, LikesWithNew DEF MatchingInv
  <2>2. prompt'[d] = "propose" => card.userHasLiked
    BY <1>1
       DEF UserLikedMoment, PromptAfter, MatchingInv, MatchingTypeOK, Card
  <2>3. \A e \in Device \ {d} : prompt'[e] = prompt[e]
    BY <1>1 DEF UserLikedMoment, MatchingInv, MatchingTypeOK
  <2> QED BY <2>1, <2>2, <2>3 DEF PromptsAreForLastLikes, Last
<1>2. CASE \A d \in Device :
              /\ prompt'[d] = "propose" => prompt[d] = "propose"
              /\ likedMoments'[d] \in {likedMoments[d], << >>}
  BY <1>2 DEF PromptsAreForLastLikes, Last
<1>3. ASSUME NEW d \in Device,
             \/ \E u \in Home[d] : Login(d, u)
             \/ Logout(d)
             \/ GetGlobalTradingBlock(d)
             \/ \E card \in Card : UserDislikedMoment(d, card)
             \/ AskToSubmit(d) \/ OpenTradeView(d) \/ ClosePrompt(d)
             \/ SubmitLikedMoments(d)
             \/ \E i \in DOMAIN submissions[d] : SubmissionSealed(d, i)
             \/ \E i \in DOMAIN submissions[d] : SubmissionFailed(d, i)
             \/ \E i \in DOMAIN submissions[d] : SubmissionThrows(d, i)
             \/ \E i \in DOMAIN submissions[d] : StraySealed(d, i)
             \/ \E i \in DOMAIN submissions[d] : SubmissionDone(d, i)
      PROVE  PromptsAreForLastLikes'
  <2>1. /\ \/ UNCHANGED prompt
           \/ \E p \in {"none", "submit", "trade"} :
                 prompt' = [prompt EXCEPT ![d] = p]
        /\ \/ UNCHANGED likedMoments
           \/ likedMoments' = [likedMoments EXCEPT ![d] = << >>]
    BY <1>3 DEF Login, Logout, GetGlobalTradingBlock, UserDislikedMoment,
       AskToSubmit, OpenTradeView, ClosePrompt, SubmitLikedMoments,
       SubmissionSealed, SubmissionFailed, SubmissionThrows, StraySealed, SubmissionDone
  <2> QED BY <1>2, <2>1 DEF MatchingInv, MatchingTypeOK
<1>4. CASE \/ \E q \in queries : AnswerQuery(q)
           \/ \E q \in queries : FeedLoaded(q)
           \/ \E u \in User : \E block \in Blocks[u] : BlockUpdated(u, block)
           \/ \E u \in User, moment \in Moment : MomentRemoved(u, moment)
           \/ ContractReset
           \/ UNCHANGED vars
  <2>1. UNCHANGED << prompt, likedMoments >>
    BY <1>4 DEF AnswerQuery, FeedLoaded, BlockUpdated, MomentRemoved,
       ContractReset, deviceVars, vars
  <2> QED BY <1>2, <2>1
<1> QED BY <1>1, <1>3, <1>4 DEF Next, OnDevice

\* A user's own Moments are in no submission of his, so on the chain nobody
\* comes to like himself.
LEMMA OthersStayLiked ==
    ASSUME OneUserEach, MatchingInv, FeedInv, OwnDeviceInv, [Next]_vars
    PROVE  OthersLiked' /\ NobodyLikesThemselves'
<1>1. ASSUME NEW d \in Device, SubmitLikedMoments(d)
      PROVE  OthersLiked'
  <2>1. \A e \in Device : \A j \in DOMAIN submissions'[e] :
           \/ j \in DOMAIN submissions[e]
                 /\ submissions'[e][j] = submissions[e][j]
           \/ /\ e = d
              /\ submissions'[e][j].user = userAddress[d]
              /\ submissions'[e][j].owners = Owners(likedMoments[d])
    BY <1>1, SubmissionsWithNew DEF MatchingInv
  <2>2. userAddress[d] \notin Owners(likedMoments[d])
    <3>1. userAddress[d] \in Home[d]
      BY <1>1 DEF SubmitLikedMoments, MatchingInv, UsersAtHome
    <3>2. \A i \in DOMAIN likedMoments[d] :
             likedMoments[d][i].owner # userAddress[d]
      BY <3>1 DEF OneUserEach, FeedInv, CardsForTheirUsers, CardFor
    <3> QED BY <3>2 DEF Owners
  <2> QED BY <2>1, <2>2 DEF OwnDeviceInv, OthersLiked
<1>2. ASSUME NEW d \in Device, NEW i \in DOMAIN submissions[d],
             \/ SubmissionSealed(d, i) \/ SubmissionFailed(d, i)
             \/ SubmissionThrows(d, i) \/ StraySealed(d, i)
             \/ SubmissionDone(d, i)
      PROVE  OthersLiked' /\ NobodyLikesThemselves'
  <2>1. OthersLiked'
    <3>1. \A e \in Device : \A j \in DOMAIN submissions'[e] :
             \E k \in DOMAIN submissions[e] :
                /\ submissions'[e][j].user = submissions[e][k].user
                /\ submissions'[e][j].owners = submissions[e][k].owners
      BY <1>2, SubmissionsAfter DEF MatchingInv
    <3> QED BY <3>1 DEF OwnDeviceInv, OthersLiked
  <2>2. submissions[d][i].user \notin submissions[d][i].owners
    BY DEF OwnDeviceInv, OthersLiked
  <2>3. likedMomentsRelationship' \in
           { likedMomentsRelationship,
             [likedMomentsRelationship EXCEPT
                 ![submissions[d][i].user] = @ \cup submissions[d][i].owners] }
    BY <1>2 DEF SubmissionSealed, SubmissionFailed, SubmissionThrows, StraySealed,
       SubmissionDone, LikesRecorded, AddLikedMoments, chainVars,
     contractVars
  <2>4. NobodyLikesThemselves'
    <3>1. likedMomentsRelationship \in [User -> SUBSET User]
      BY DEF MatchingInv, MatchingTypeOK, ContractTypeOK
    <3>2. \A u \in User : \/ likedMomentsRelationship'[u] =
                               likedMomentsRelationship[u]
                         \/ /\ u = submissions[d][i].user
                            /\ likedMomentsRelationship'[u] =
                                  likedMomentsRelationship[u]
                                     \cup submissions[d][i].owners
      BY <2>3, <3>1
    <3> QED BY <2>2, <3>2 DEF OwnDeviceInv, NobodyLikesThemselves
  <2> QED BY <2>1, <2>4
<1>3. UNCHANGED submissions => OthersLiked'
  BY DEF OwnDeviceInv, OthersLiked
<1>4. UNCHANGED likedMomentsRelationship => NobodyLikesThemselves'
  BY DEF OwnDeviceInv, NobodyLikesThemselves
<1>5. ASSUME NEW d \in Device, SubmitLikedMoments(d)
      PROVE  NobodyLikesThemselves'
  <2>1. UNCHANGED likedMomentsRelationship
    BY <1>5 DEF SubmitLikedMoments, chainVars, contractVars
  <2> QED BY <1>4, <2>1
<1>6. ASSUME NEW d \in Device,
             \/ \E u \in Home[d] : Login(d, u)
             \/ Logout(d)
             \/ GetGlobalTradingBlock(d)
             \/ \E card \in Card : UserLikedMoment(d, card)
             \/ \E card \in Card : UserDislikedMoment(d, card)
             \/ AskToSubmit(d) \/ OpenTradeView(d) \/ ClosePrompt(d)
      PROVE  UNCHANGED << submissions, likedMomentsRelationship >>
  BY <1>6 DEF Login, Logout, GetGlobalTradingBlock, UserLikedMoment,
     UserDislikedMoment, AskToSubmit, OpenTradeView, ClosePrompt,
     chainVars, contractVars
<1>7. CASE \/ \E q \in queries : AnswerQuery(q)
           \/ \E q \in queries : FeedLoaded(q)
           \/ \E u \in User : \E block \in Blocks[u] : BlockUpdated(u, block)
           \/ \E u \in User, moment \in Moment : MomentRemoved(u, moment)
           \/ UNCHANGED vars
  <2>1. UNCHANGED << submissions, likedMomentsRelationship >>
    BY <1>7 DEF AnswerQuery, FeedLoaded, BlockUpdated, MomentRemoved,
       UpdateUserTradingBlock, RemoveMomentFromTradingBlock, deviceVars,
       chainVars, contractVars, vars
  <2> QED BY <1>3, <1>4, <2>1
<1>8. ASSUME ContractReset
      PROVE  OthersLiked' /\ NobodyLikesThemselves'
  <2>1. UNCHANGED submissions
        /\ likedMomentsRelationship' = [u \in User |-> {}]
    BY <1>8 DEF ContractReset, Reset, deviceVars
  <2> QED BY <1>3, <2>1 DEF NobodyLikesThemselves
<1> QED BY <1>1, <1>2, <1>3, <1>4, <1>5, <1>6, <1>7, <1>8 DEF Next, OnDevice
-----------------------------------------------------------------------------
LEMMA StartsWithoutCards == Init => FeedInv /\ OwnDeviceInv
<1> SUFFICES ASSUME Init PROVE FeedInv /\ OwnDeviceInv
  OBVIOUS
<1>1. CardsForTheirUsers /\ PromptsAreForLastLikes
  BY DEF Init, CardsForTheirUsers, PromptsAreForLastLikes
<1>2. OthersLiked /\ NobodyLikesThemselves
  BY DEF Init, ContractInit, OthersLiked, NobodyLikesThemselves
<1> QED BY <1>1, <1>2 DEF FeedInv, OwnDeviceInv

\* Every card in a query's answer, on the screen and among the likes is from
\* the feed of a user of that device, and the like it speaks of reached the
\* chain, where only a reset erases it: whoever shares devices, and however
\* late answers and likes are.
THEOREM FeedInvariance == Spec => []FeedInv
<1>1. MatchingInv /\ FeedInv /\ [Next]_vars => FeedInv'
  BY CardsStayForTheirUsers, PromptsStayForLastLikes DEF FeedInv
<1> QED BY <1>1, StartsWithoutCards, MatchingInvariance, PTL DEF Spec

\* On devices of one user each, no submission carries a like of the user's own
\* Moments, and none comes on the chain, by a submission nobody awaits either.
THEOREM OwnDeviceInvariance ==
    ASSUME OneUserEach
    PROVE  Spec => []OwnDeviceInv
<1>1. MatchingInv /\ FeedInv /\ OwnDeviceInv /\ [Next]_vars => OwnDeviceInv'
  BY OthersStayLiked DEF OwnDeviceInv
<1> QED BY <1>1, StartsWithoutCards, MatchingInvariance, FeedInvariance, PTL
        DEF Spec

\* A match the app announces rests on a like that was sealed and that only a
\* reset can have erased since, of the user the feed was loaded for, who is
\* the one that is told if nobody else uses the device
\* (ContentView.swift:219-231); for any users and devices.
THEOREM AnnouncedMatchesAreReal == Spec => []MatchesAreReal
<1>1. MatchingInv /\ FeedInv => MatchesAreReal
  <2> SUFFICES ASSUME MatchingInv, FeedInv, NEW d \in Device,
                      prompt[d] = "propose", likedMoments[d] # << >>
               PROVE  LET card == Last(likedMoments[d])
                      IN  /\ card.viewer \in EverOnChain(card.owner)
                          /\ \A u \in User : OnlyUserOf(d, u) =>
                                card.viewer = u
    BY DEF MatchesAreReal
  <2>1. likedMoments[d] \in Seq(Card)
    BY DEF MatchingInv, MatchingTypeOK
  <2>2. Len(likedMoments[d]) \in DOMAIN likedMoments[d]
    BY <2>1, EmptySeq, LenProperties
  <2>3. CardFor(Last(likedMoments[d]), Home[d])
    BY <2>2 DEF FeedInv, CardsForTheirUsers, Last
  <2>4. Last(likedMoments[d]).userHasLiked
    BY DEF FeedInv, PromptsAreForLastLikes
  <2> QED BY <2>3, <2>4 DEF CardFor, OnlyUserOf
<1> QED BY <1>1, MatchingInvariance, FeedInvariance, PTL

\* With a device of their own, nobody is recorded as liking a Moment of his
\* own (TopShotMatch.cdc:76-79), for any number of users.
THEOREM NobodyComesToLikeHimself ==
    ASSUME OneUserEach
    PROVE  Spec => []NobodyLikesThemselves
<1>1. OwnDeviceInv => NobodyLikesThemselves
  BY DEF OwnDeviceInv
<1> QED BY <1>1, OwnDeviceInvariance, PTL
=============================================================================
