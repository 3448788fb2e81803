------------------------------- MODULE Editions -------------------------------
(***************************************************************************)
(* TopShot's catalog: Plays, the Sets that group them, series, and the     *)
(* numbering of the Moments minted from an edition (a Set and a Play),     *)
(* with or without a subedition.                                           *)
(*                                                                         *)
(* The actions are the functions of the Admin, Set and SubeditionAdmin     *)
(* resources.  createAdminCollection hands an Admin to anybody, so no      *)
(* action has an owner.                                                    *)
(***************************************************************************)
EXTENDS Integers, Sequences, FiniteSets, TLC

CONSTANTS
    MaxPlays, MaxSets, MaxSeries, MaxSubeditions,  \* bounds
    MaxSupply,       \* bound: Moments minted in a behaviour
    Quantities,      \* how many Moments one minting call creates
    SubeditionIds,   \* subedition ids passed when minting
    Taglines         \* what a Play's metadata may say

ASSUME BoundsAssumption ==
    /\ MaxPlays \in Nat /\ MaxSets \in Nat /\ MaxSeries \in Nat
    /\ MaxSubeditions \in Nat /\ MaxSupply \in Nat
    /\ Quantities \subseteq Nat \ {0}

\* No id is checked: 0, which the SubeditionAdmin never gives out and which
\* MomentMinted says of a Moment without a subedition, can be passed as well.
ASSUME SubeditionAssumption == SubeditionIds \subseteq Nat

VARIABLES
    currentSeries,              \* the series new Sets belong to
    nextPlayID, playDatas,      \* playDatas[p]: the metadata of Play p
    nextSetID, setDatas,        \* setDatas[s]: the series of Set s
    sets,                       \* the Set resources
    subeditionAdmin,            \* is there a SubeditionAdmin in storage?
    nextSubeditionID,
    numberMintedPerSubedition,  \* by SubeditionKey
    momentsSubedition,          \* by Moment id
    totalSupply,                \* the last Moment id given out
    minted                      \* the MomentMinted events so far, with
                                \* Plain where mintMoment was called

playVars       == << nextPlayID, playDatas >>
setVars        == << nextSetID, setDatas, sets >>
subeditionVars == << subeditionAdmin, nextSubeditionID,
                     numberMintedPerSubedition, momentsSubedition >>
supplyVars     == << totalSupply, minted >>
vars == << currentSeries, playVars, setVars, subeditionVars, supplyVars >>

\* A Set: its plays are the domain of both functions.
SetOf(plays) == [ retired : [plays -> BOOLEAN], locked : BOOLEAN,
                  numberMintedPerPlay : [plays -> Nat] ]

SetsTypeOK ==
    /\ sets = [s \in 1 .. nextSetID - 1 |-> sets[s]]
    /\ \A s \in DOMAIN sets : \E plays \in SUBSET (1 .. nextPlayID - 1) :
          sets[s] \in SetOf(plays)

NoEntries == [k \in {} |-> 0]

\* The subedition of a Moment of mintMoment, which has none; MomentMinted and
\* the Moment say 0 of it.
Plain == -1
MomentSubeditionID(m) == IF m.subedition = Plain THEN 0 ELSE m.subedition

\* A dictionary to which the new keys S are added, all with the value v.
Extended(f, S, v) ==
    [k \in DOMAIN f \cup S |-> IF k \in DOMAIN f THEN f[k] ELSE v]

Init ==
    /\ currentSeries = 0
    /\ nextPlayID = 1 /\ playDatas = NoEntries
    /\ nextSetID = 1 /\ setDatas = NoEntries /\ sets = NoEntries
    /\ subeditionAdmin = FALSE /\ nextSubeditionID = 1
    /\ numberMintedPerSubedition = NoEntries
    /\ momentsSubedition = NoEntries
    /\ totalSupply = 0 /\ minted = {}
-----------------------------------------------------------------------------
(***************************************************************************)
(* The catalog.                                                            *)
(***************************************************************************)

CreatePlay(tagline) ==
    /\ nextPlayID <= MaxPlays
    /\ nextPlayID' = nextPlayID + 1
    /\ playDatas' = Extended(playDatas, {nextPlayID}, tagline)
    /\ UNCHANGED << currentSeries, setVars, subeditionVars, supplyVars >>

\* updatePlayTagline works on a copy of the Play and stores it back.
UpdatePlayTagline(playID, tagline) ==
    /\ playID \in DOMAIN playDatas
    /\ playDatas' = [playDatas EXCEPT ![playID] = tagline]
    /\ UNCHANGED << currentSeries, nextPlayID, setVars, subeditionVars,
                    supplyVars >>

CreateSet ==
    /\ nextSetID <= MaxSets
    /\ nextSetID' = nextSetID + 1
    /\ setDatas' = Extended(setDatas, {nextSetID}, currentSeries)
    /\ sets' = Extended(sets, {nextSetID},
                        [ retired |-> NoEntries, locked |-> FALSE,
                          numberMintedPerPlay |-> NoEntries ])
    /\ UNCHANGED << currentSeries, playVars, subeditionVars, supplyVars >>

StartNewSeries ==
    /\ currentSeries < MaxSeries
    /\ currentSeries' = currentSeries + 1
    /\ UNCHANGED << playVars, setVars, subeditionVars, supplyVars >>

\* Mutant: the count is left to the first minting to set up.
AddPlaysUncounted(setID, playIDs) ==
    /\ setID \in DOMAIN sets
    /\ ~ sets[setID].locked
    /\ playIDs # {} /\ playIDs \subseteq DOMAIN playDatas
    /\ playIDs \cap DOMAIN sets[setID].numberMintedPerPlay = {}
    /\ sets' = [sets EXCEPT
          ![setID].retired = Extended(@, playIDs, FALSE)]
    /\ UNCHANGED << currentSeries, playVars, nextSetID, setDatas,
                    subeditionVars, supplyVars >>

\* Mutant: a locked Set still takes Plays.
AddPlaysToLocked(setID, playIDs) ==
    /\ setID \in DOMAIN sets
    /\ playIDs # {} /\ playIDs \subseteq DOMAIN playDatas
    /\ playIDs \cap DOMAIN sets[setID].numberMintedPerPlay = {}
    /\ sets' = [sets EXCEPT
          ![setID].retired = Extended(@, playIDs, FALSE),
          ![setID].numberMintedPerPlay = Extended(@, playIDs, 0)]
    /\ UNCHANGED << currentSeries, playVars, nextSetID, setDatas,
                    subeditionVars, supplyVars >>

\* Set.addPlays: each Play exists and is new to the Set.
AddPlays(setID, playIDs) ==
    /\ setID \in DOMAIN sets
    /\ ~ sets[setID].locked
    /\ playIDs # {} /\ playIDs \subseteq DOMAIN playDatas
    /\ playIDs \cap DOMAIN sets[setID].numberMintedPerPlay = {}
    /\ sets' = [sets EXCEPT
          ![setID].retired = Extended(@, playIDs, FALSE),
          ![setID].numberMintedPerPlay = Extended(@, playIDs, 0)]
    /\ UNCHANGED << currentSeries, playVars, nextSetID, setDatas,
                    subeditionVars, supplyVars >>

\* Set.retirePlay for one Play; retireAll does it for all Plays of the Set.
Retire(setID, playIDs) ==
    /\ setID \in DOMAIN sets
    /\ playIDs \subseteq DOMAIN sets[setID].retired
    /\ sets' = [sets EXCEPT ![setID].retired =
                   [p \in DOMAIN @ |-> @[p] \/ p \in playIDs]]
    /\ UNCHANGED << currentSeries, playVars, nextSetID, setDatas,
                    subeditionVars, supplyVars >>

RetirePlay(setID, playID) == Retire(setID, {playID})
RetireAll(setID)          == Retire(setID, DOMAIN sets[setID].retired)

LockSet(setID) ==
    /\ setID \in DOMAIN sets
    /\ sets' = [sets EXCEPT ![setID].locked = TRUE]
    /\ UNCHANGED << currentSeries, playVars, nextSetID, setDatas,
                    subeditionVars, supplyVars >>
-----------------------------------------------------------------------------
(***************************************************************************)
(* Minting.                                                                *)
(***************************************************************************)

\* Mutant: a retired edition can still be minted.
MintableRetired(setID, playID, quantity) ==
    /\ setID \in DOMAIN sets
    /\ playID \in DOMAIN sets[setID].retired
    /\ totalSupply + quantity <= MaxSupply

\* The preconditions of mintMoment and mintMomentWithSubedition.
Mintable(setID, playID, quantity) ==
    /\ setID \in DOMAIN sets
    /\ playID \in DOMAIN sets[setID].retired
    /\ ~ sets[setID].retired[playID]
    /\ totalSupply + quantity <= MaxSupply

\* Mutant: the count is read once for the whole batch.
NewMomentsSameSerial(setID, playID, subeditionID, numMinted, quantity) ==
    { [ momentID |-> totalSupply + i, setID |-> setID, playID |-> playID,
        serialNumber |-> numMinted + 1, subedition |-> subeditionID ] :
      i \in 1 .. quantity }

\* The NFTs a batch creates, numbered on from numMinted.
NewMoments(setID, playID, subeditionID, numMinted, quantity) ==
    { [ momentID |-> totalSupply + i, setID |-> setID, playID |-> playID,
        serialNumber |-> numMinted + i, subedition |-> subeditionID ] :
      i \in 1 .. quantity }

\* Set.batchMintMoment: mintMoment, quantity times.
BatchMintMoment(setID, playID, quantity) ==
    /\ Mintable(setID, playID, quantity)
    /\ minted' = minted \cup
          NewMoments(setID, playID, Plain,
                     sets[setID].numberMintedPerPlay[playID], quantity)
    /\ totalSupply' = totalSupply + quantity
    /\ sets' = [sets EXCEPT
                   ![setID].numberMintedPerPlay[playID] = @ + quantity]
    /\ UNCHANGED << currentSeries, playVars, nextSetID, setDatas,
                    subeditionVars >>

\* The key under which Moments of a subedition are counted: the three ids,
\* in decimal, one after the other.
SubeditionKey(setID, playID, subeditionID) ==
    ToString(setID) \o ToString(playID) \o ToString(subeditionID)

\* getNumberMintedPerSubedition
NumberMinted(key) ==
    IF key \in DOMAIN numberMintedPerSubedition
    THEN numberMintedPerSubedition[key] ELSE 0

\* Mutant: addToNumberMintedPerSubedition is not called.
AddedToSubedition(key, quantity) ==
    Extended(numberMintedPerSubedition, {key}, 0)

\* addToNumberMintedPerSubedition, quantity times, on a key that
\* getNumberMintedPerSubedition has inserted if need be.
AddToSubedition(key, quantity) ==
    [Extended(numberMintedPerSubedition, {key}, 0) EXCEPT
        ![key] = @ + quantity]

\* Mutant: the Moments are counted in their subedition only.
BatchMintUncounted(setID, playID, quantity, subeditionID) ==
    LET key == SubeditionKey(setID, playID, subeditionID)
        new == NewMoments(setID, playID, subeditionID,
                          NumberMinted(key), quantity)
        ids == { m.momentID : m \in new }
    IN  /\ Mintable(setID, playID, quantity)
        /\ subeditionAdmin
        /\ ids \cap DOMAIN momentsSubedition = {}
        /\ minted' = minted \cup new
        /\ totalSupply' = totalSupply + quantity
        /\ numberMintedPerSubedition' = AddToSubedition(key, quantity)
        /\ momentsSubedition' = Extended(momentsSubedition, ids,
                                         subeditionID)
        /\ UNCHANGED << currentSeries, playVars, setVars,
                        subeditionAdmin, nextSubeditionID >>

\* Set.batchMintMomentWithSubedition: mintMomentWithSubedition, quantity
\* times.  Nothing asks whether the subedition was created.
BatchMintMomentWithSubedition(setID, playID, quantity, subeditionID) ==
    LET key == SubeditionKey(setID, playID, subeditionID)
        new == NewMoments(setID, playID, subeditionID,
                          NumberMinted(key), quantity)
        ids == { m.momentID : m \in new }
    IN  /\ Mintable(setID, playID, quantity)
        /\ subeditionAdmin
        /\ ids \cap DOMAIN momentsSubedition = {}
        /\ minted' = minted \cup new
        /\ totalSupply' = totalSupply + quantity
        /\ numberMintedPerSubedition' = AddToSubedition(key, quantity)
        /\ momentsSubedition' = Extended(momentsSubedition, ids,
                                         subeditionID)
        /\ sets' = [sets EXCEPT
                       ![setID].numberMintedPerPlay[playID] = @ + quantity]
        /\ UNCHANGED << currentSeries, playVars, nextSetID, setDatas,
                        subeditionAdmin, nextSubeditionID >>
-----------------------------------------------------------------------------
(***************************************************************************)
(* Subeditions.                                                            *)
(***************************************************************************)

CreateSubeditionAdminResource ==
    /\ ~ subeditionAdmin
    /\ subeditionAdmin' = TRUE
    /\ UNCHANGED << currentSeries, playVars, setVars, nextSubeditionID,
                    numberMintedPerSubedition, momentsSubedition,
                    supplyVars >>

CreateSubedition ==
    /\ subeditionAdmin
    /\ nextSubeditionID <= MaxSubeditions
    /\ nextSubeditionID' = nextSubeditionID + 1
    /\ UNCHANGED << currentSeries, playVars, setVars, subeditionAdmin,
                    numberMintedPerSubedition, momentsSubedition,
                    supplyVars >>

\* Mutant: the precondition of SubeditionAdmin.setMomentsSubedition is gone.
SetMomentsSubeditionAgain(nftID, subeditionID) ==
    /\ subeditionAdmin
    /\ momentsSubedition' = [Extended(momentsSubedition, {nftID}, 0)
                               EXCEPT ![nftID] = subeditionID]
    /\ UNCHANGED << currentSeries, playVars, setVars, subeditionAdmin,
                    nextSubeditionID, numberMintedPerSubedition,
                    supplyVars >>

\* Admin.setMomentsSubedition: for any id, that of a Moment to come included.
SetMomentsSubedition(nftID, subeditionID) ==
    /\ subeditionAdmin
    /\ nftID \notin DOMAIN momentsSubedition
    /\ momentsSubedition' = Extended(momentsSubedition, {nftID},
                                     subeditionID)
    /\ UNCHANGED << currentSeries, playVars, setVars, subeditionAdmin,
                    nextSubeditionID, numberMintedPerSubedition,
                    supplyVars >>
-----------------------------------------------------------------------------
Next ==
    \/ \E tagline \in Taglines : CreatePlay(tagline)
    \/ \E playID \in 1 .. MaxPlays, tagline \in Taglines :
          UpdatePlayTagline(playID, tagline)
    \/ CreateSet
    \/ StartNewSeries
    \/ \E setID \in 1 .. MaxSets, playIDs \in SUBSET (1 .. MaxPlays) :
          AddPlays(setID, playIDs)
    \/ \E setID \in DOMAIN sets, playID \in 1 .. MaxPlays :
          RetirePlay(setID, playID)
    \/ \E setID \in DOMAIN sets : RetireAll(setID)
    \/ \E setID \in DOMAIN sets : LockSet(setID)
    \/ \E setID \in 1 .. MaxSets, playID \in 1 .. MaxPlays,
          quantity \in Quantities : BatchMintMoment(setID, playID, quantity)
    \/ \E setID \in 1 .. MaxSets, playID \in 1 .. MaxPlays,
          quantity \in Quantities, subeditionID \in SubeditionIds :
          BatchMintMomentWithSubedition(setID, playID, quantity,
                                        subeditionID)
    \/ CreateSubeditionAdminResource
    \/ CreateSubedition
    \/ \E nftID \in 1 .. MaxSupply, subeditionID \in SubeditionIds :
          SetMomentsSubedition(nftID, subeditionID)

Spec == Init /\ [][Next]_vars
-----------------------------------------------------------------------------
(***************************************************************************)
(* Properties.                                                             *)
(***************************************************************************)

\* The types of all variables; a Set has a count for exactly the Plays that
\* it can retire, all of them known (TopShot.cdc:243-272).
EditionsTypeOK ==
    /\ currentSeries \in Nat
    /\ nextPlayID \in Nat \ {0}
    /\ playDatas \in [1 .. nextPlayID - 1 -> Taglines]
    /\ nextSetID \in Nat \ {0}
    /\ setDatas \in [1 .. nextSetID - 1 -> 0 .. currentSeries]
    /\ SetsTypeOK
    /\ subeditionAdmin \in BOOLEAN
    /\ nextSubeditionID \in Nat \ {0}
    /\ \A k \in DOMAIN numberMintedPerSubedition :
          numberMintedPerSubedition[k] \in Nat
    /\ DOMAIN momentsSubedition \subseteq Nat
    /\ \A m \in DOMAIN momentsSubedition :
          momentsSubedition[m] \in SubeditionIds
    /\ totalSupply \in Nat
    /\ minted \subseteq [ momentID : 1 .. totalSupply,
                          setID : 1 .. nextSetID - 1,
                          playID : 1 .. nextPlayID - 1,
                          serialNumber : Nat \ {0},
                          subedition : SubeditionIds \cup {Plain} ]

OfEdition(setID, playID) ==
    { m \in minted : m.setID = setID /\ m.playID = playID }

OfSubedition(m) ==
    { n \in OfEdition(m.setID, m.playID) : n.subedition = m.subedition }

\* getNumMomentsInEdition tells how many Moments were minted from an edition,
\* however plain mintings and subeditions are mixed (TopShot.cdc:268-272).
EditionCounts ==
    \A s \in DOMAIN sets : \A p \in DOMAIN sets[s].numberMintedPerPlay :
       sets[s].numberMintedPerPlay[p] = Cardinality(OfEdition(s, p))

\* A Moment can be told from its edition, subedition and serial number: no
\* sequence of mintings, mixed or interleaved, hands out a number twice - with
\* one exception, since plain mintings and those with subedition 0 count apart
\* and both say 0: a Moment of each may bear the same number
\* (TopShot.cdc:380-389, 434-449).
SerialsUnique ==
    \A m \in minted : \A n \in OfEdition(m.setID, m.playID) :
       /\ MomentSubeditionID(m) = MomentSubeditionID(n)
       /\ m.serialNumber = n.serialNumber
       => m = n \/ {m.subedition, n.subedition} = {Plain, 0}

\* The serial number of a plainly minted Moment is its place among all the
\* Moments minted from its edition, "eg. 13 of 60", however mintings with
\* subeditions are mixed in (TopShot.cdc:268-271, 380-389, 547-548).
PlainSerialsArePlaces ==
    \A m \in minted :
       m.subedition = Plain =>
          m.serialNumber = Cardinality({ n \in OfEdition(m.setID, m.playID) :
                                            n.momentID <= m.momentID })

\* A Moment minted with a subedition, be it 0, is recorded as belonging to it
\* for good, whatever setMomentsSubedition is called with (TopShot.cdc:1661-1669).
SubeditionsAreRecorded ==
    \A m \in minted :
       m.subedition # Plain =>
          /\ m.momentID \in DOMAIN momentsSubedition
          /\ momentsSubedition[m.momentID] = m.subedition

\* Retirement is final: no Moment is minted from a retired edition any more,
\* and it is never un-retired (TopShot.cdc:252-255).
RetiredEditionsAreFinal ==
    [][\A s \in DOMAIN sets : \A p \in DOMAIN sets[s].retired :
          sets[s].retired[p] =>
             /\ sets'[s].retired[p]
             /\ OfEdition(s, p)' = OfEdition(s, p)]_vars

\* A Set that is locked and entirely retired is closed off forever
\* (TopShot.cdc:239-240).
ClosedSetsStayClosed ==
    [][\A s \in DOMAIN sets :
          sets[s].locked /\ (\A p \in DOMAIN sets[s].retired :
                                sets[s].retired[p]) =>
             sets'[s] = sets[s]]_vars

\* What getNumberMintedPerSubedition says it counts: the Moments minted for
\* this subedition, to use as the serial number (TopShot.cdc:1617-1619).
SerialsCountSubedition ==
    \A m \in minted :
       m.subedition # Plain =>
          m.serialNumber <= Cardinality(OfSubedition(m))
=============================================================================
