----------------------------- MODULE TopShotMatch -----------------------------
(***************************************************************************)
(* The TopShotMatch contract: every user's trading block, who liked a      *)
(* Moment of whom, and the feed a user is shown.                           *)
(*                                                                         *)
(* A missing dictionary entry counts as an empty one everywhere            *)
(* (tradingBlock[...] ?? []), so both dictionaries are total functions.    *)
(* A Moment stands for its globalId and playId, which determine each       *)
(* other; the address that MomentIds also carries matters only when a      *)
(* Moment is liked.                                                        *)
(***************************************************************************)
EXTENDS Integers, FiniteSets, SequencesExt

CONSTANTS User, Moment

VARIABLES
    tradingBlock,             \* what each user has put up for trade, in order
    likedMomentsRelationship  \* the users of whom each user liked a Moment

contractVars == << tradingBlock, likedMomentsRelationship >>

ContractInit ==
    /\ tradingBlock = [u \in User |-> << >>]
    /\ likedMomentsRelationship = [u \in User |-> {}]

ContractTypeOK ==
    /\ tradingBlock \in [User -> Seq(Moment)]
    /\ likedMomentsRelationship \in [User -> SUBSET User]
-----------------------------------------------------------------------------
UpdateUserTradingBlock(user, newTradingBlock) ==
    /\ tradingBlock' = [tradingBlock EXCEPT ![user] = newTradingBlock]
    /\ UNCHANGED likedMomentsRelationship

\* The blocks once the first entry of owner's block that names the Moment is
\* gone; a block that does not list it stays as it is.
WithoutMoment(blocks, owner, moment) ==
    [blocks EXCEPT ![owner] = RemoveFirst(@, moment)]

RemoveMomentFromTradingBlock(owner, moment) ==
    /\ tradingBlock' = WithoutMoment(tradingBlock, owner, moment)
    /\ UNCHANGED likedMomentsRelationship

\* Only the owners of the liked Moments are kept, each once.
AddLikedMoments(user, owners) ==
    /\ likedMomentsRelationship' =
          [likedMomentsRelationship EXCEPT ![user] = @ \cup owners]
    /\ UNCHANGED tradingBlock

Reset ==
    /\ tradingBlock' = [u \in User |-> << >>]
    /\ likedMomentsRelationship' = [u \in User |-> {}]
-----------------------------------------------------------------------------
\* viewer is history and no field of the card: the user whose feed it is in.
Card == [ moment : Moment, owner : User, userHasLiked : BOOLEAN,
          viewer : User ]

\* Mutant: the relation is read the wrong way round.
CardOfSwapped(moment, owner, user) ==
    [ moment |-> moment, owner |-> owner,
      userHasLiked |-> owner \in likedMomentsRelationship[user],
      viewer |-> user ]

\* The card of owner's Moment in the feed of user.
CardOf(moment, owner, user) ==
    [ moment |-> moment, owner |-> owner,
      userHasLiked |-> user \in likedMomentsRelationship[owner],
      viewer |-> user ]

\* Mutant: the user's own block is not left out.
OthersListingAny(moment, user) ==
    { o \in User : Contains(tradingBlock[o], moment) }

OthersListing(moment, user) ==
    { o \in User \ {user} : Contains(tradingBlock[o], moment) }

\* getGlobalTradingBlockExcludingUser: one card for each Moment that others
\* list.  The result is a dictionary by Moment, so when two users list the
\* same Moment the one whose key comes last in the dictionary is shown; the
\* order of the keys is not specified.
Feeds(user) ==
    LET listed == { m \in Moment : OthersListing(m, user) # {} }
        choices == { f \in [listed -> User] :
                        \A m \in listed : f[m] \in OthersListing(m, user) }
    IN  { { CardOf(m, f[m], user) : m \in listed } : f \in choices }
=============================================================================
