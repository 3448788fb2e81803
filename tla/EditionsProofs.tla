---------------------------- MODULE EditionsProofs ----------------------------
(***************************************************************************)
(* Proofs about the catalog, for any number of Plays, Sets, subeditions    *)
(* and Moments: retirement and closing are final, and no counter gives out *)
(* a serial number twice.                                                  *)
(***************************************************************************)
EXTENDS Editions, FiniteSetTheorems, TLAPS

\* The counters never fall behind the serial numbers they produced.
CountersAhead ==
    \A m \in minted :
       /\ m.playID \in DOMAIN sets[m.setID].retired
       /\ IF m.subedition = Plain
          THEN m.serialNumber <= sets[m.setID].numberMintedPerPlay[m.playID]
          ELSE LET key == SubeditionKey(m.setID, m.playID, m.subedition)
               IN  /\ key \in DOMAIN numberMintedPerSubedition
                   /\ m.serialNumber <= numberMintedPerSubedition[key]

\* No counter gives out a number twice; plain Moments have one of their own.
NumberedApart ==
    \A m \in minted : \A n \in OfSubedition(m) :
       m.serialNumber = n.serialNumber => m = n

EditionInv == EditionsTypeOK /\ CountersAhead /\ NumberedApart

-----------------------------------------------------------------------------
(***************************************************************************)
(* Dictionaries and Sets.                                                  *)
(***************************************************************************)

\* Adding keys to a dictionary leaves the old ones alone.
LEMMA ExtendedValue ==
    ASSUME NEW D, NEW V, NEW f \in [D -> V], NEW S, NEW v \in V
    PROVE  /\ Extended(f, S, v) \in [D \cup S -> V]
           /\ DOMAIN Extended(f, S, v) = D \cup S
           /\ \A k \in D : Extended(f, S, v)[k] = f[k]
           /\ \A k \in S \ D : Extended(f, S, v)[k] = v
BY DEF Extended

\* Every resource a stored Set can be.
SetResource ==
    UNION { SetOf(plays) : plays \in SUBSET (1 .. nextPlayID - 1) }

\* The type of sets, as a set of functions; before and after a step.
LEMMA SetsTyped ==
    SetsTypeOK <=> sets \in [1 .. nextSetID - 1 -> SetResource]
BY DEF SetsTypeOK, SetResource

LEMMA SetsTypedNext ==
    SetsTypeOK' <=> sets' \in [1 .. nextSetID' - 1 -> SetResource']
BY DEF SetsTypeOK, SetResource

\* The fields of a stored Set.
LEMMA SetFields ==
    ASSUME EditionsTypeOK, NEW s \in DOMAIN sets
    PROVE  /\ s \in 1 .. nextSetID - 1
           /\ DOMAIN sets[s].retired \in SUBSET (1 .. nextPlayID - 1)
           /\ DOMAIN sets[s].numberMintedPerPlay = DOMAIN sets[s].retired
           /\ sets[s] \in SetOf(DOMAIN sets[s].retired)
           /\ sets[s].retired \in [DOMAIN sets[s].retired -> BOOLEAN]
           /\ sets[s].locked \in BOOLEAN
           /\ sets[s].numberMintedPerPlay \in [DOMAIN sets[s].retired -> Nat]
<1>1. PICK plays \in SUBSET (1 .. nextPlayID - 1) : sets[s] \in SetOf(plays)
  BY SetsTyped DEF EditionsTypeOK, SetResource
<1>2. DOMAIN sets[s].retired = plays
  BY <1>1 DEF SetOf
<1> QED BY SetsTyped, <1>1, <1>2 DEF EditionsTypeOK, SetOf

\* Replacing one Set resource by another one of known Plays.
LEMMA SetReplaced ==
    ASSUME EditionsTypeOK, NEW s \in DOMAIN sets,
           NEW plays \in SUBSET (1 .. nextPlayID - 1),
           NEW new \in SetOf(plays)
    PROVE  /\ [sets EXCEPT ![s] = new] \in [1 .. nextSetID - 1 -> SetResource]
           /\ [sets EXCEPT ![s] = new][s] = new
           /\ \A t \in DOMAIN sets \ {s} :
                 [sets EXCEPT ![s] = new][t] = sets[t]
<1>1. new \in SetResource
  BY DEF SetResource
<1> QED BY SetsTyped, <1>1 DEF EditionsTypeOK
-----------------------------------------------------------------------------
(***************************************************************************)
(* The new contents of a Set.                                              *)
(***************************************************************************)

LEMMA AddPlaysEffect ==
    ASSUME EditionsTypeOK, NEW s \in DOMAIN sets,
           NEW plays \in SUBSET (1 .. MaxPlays), AddPlays(s, plays)
    PROVE  /\ sets' \in [1 .. nextSetID - 1 -> SetResource]
           /\ ~ sets[s].locked
           /\ \A p \in DOMAIN sets[s].retired :
                 /\ p \in DOMAIN sets'[s].retired
                 /\ sets'[s].retired[p] = sets[s].retired[p]
                 /\ sets'[s].numberMintedPerPlay[p] =
                       sets[s].numberMintedPerPlay[p]
           /\ \A p \in DOMAIN sets'[s].retired \ DOMAIN sets[s].retired :
                 sets'[s].numberMintedPerPlay[p] = 0
           /\ \A t \in DOMAIN sets \ {s} : sets'[t] = sets[t]
<1> DEFINE old == DOMAIN sets[s].retired
           retired == Extended(sets[s].retired, plays, FALSE)
           counts == Extended(sets[s].numberMintedPerPlay, plays, 0)
           new == [sets[s] EXCEPT !.retired = retired,
                                  !.numberMintedPerPlay = counts]
<1>1. /\ old \cup plays \in SUBSET (1 .. nextPlayID - 1)
      /\ sets[s] \in SetOf(old)
      /\ sets[s].retired \in [old -> BOOLEAN]
      /\ sets[s].numberMintedPerPlay \in [old -> Nat]
  BY SetFields DEF AddPlays, EditionsTypeOK
<1>2. /\ retired \in [old \cup plays -> BOOLEAN]
      /\ \A p \in old : retired[p] = sets[s].retired[p]
  BY <1>1 DEF Extended
<1>3. /\ counts \in [old \cup plays -> Nat]
      /\ \A p \in old : counts[p] = sets[s].numberMintedPerPlay[p]
      /\ \A p \in plays \ old : counts[p] = 0
  BY <1>1 DEF Extended
<1>4. sets' = [sets EXCEPT ![s] = new]
  BY DEF AddPlays
<1> HIDE DEF retired, counts, old
<1>5. /\ new \in SetOf(old \cup plays)
      /\ new.retired = retired /\ new.numberMintedPerPlay = counts
  BY <1>1, <1>2, <1>3 DEF SetOf
<1> HIDE DEF new
<1>6. /\ sets' \in [1 .. nextSetID - 1 -> SetResource]
      /\ sets'[s] = new
      /\ \A t \in DOMAIN sets \ {s} : sets'[t] = sets[t]
  BY <1>1, <1>4, <1>5, SetReplaced
<1>7. DOMAIN retired = old \cup plays
  BY <1>2
<1> QED BY <1>2, <1>3, <1>5, <1>6, <1>7 DEF AddPlays, old

LEMMA RetireEffect ==
    ASSUME EditionsTypeOK, NEW s \in DOMAIN sets,
           NEW plays \in SUBSET DOMAIN sets[s].retired, Retire(s, plays)
    PROVE  /\ sets' \in [1 .. nextSetID - 1 -> SetResource]
           /\ DOMAIN sets'[s].retired = DOMAIN sets[s].retired
           /\ \A p \in DOMAIN sets[s].retired :
                 sets'[s].retired[p] = (sets[s].retired[p] \/ p \in plays)
           /\ sets'[s].numberMintedPerPlay = sets[s].numberMintedPerPlay
           /\ sets'[s].locked = sets[s].locked
           /\ \A t \in DOMAIN sets \ {s} : sets'[t] = sets[t]
<1> DEFINE old == DOMAIN sets[s].retired
           retired == [p \in old |-> sets[s].retired[p] \/ p \in plays]
           new == [sets[s] EXCEPT !.retired = retired]
<1>1. /\ old \in SUBSET (1 .. nextPlayID - 1)
      /\ sets[s] \in SetOf(old)
      /\ sets[s].retired \in [old -> BOOLEAN]
  BY SetFields
<1>2. sets' = [sets EXCEPT ![s] = new]
  BY DEF Retire
<1>3. new \in SetOf(old)
  BY <1>1 DEF SetOf
<1>4. /\ new.retired = retired
      /\ new.numberMintedPerPlay = sets[s].numberMintedPerPlay
      /\ new.locked = sets[s].locked
  BY <1>1 DEF SetOf
<1> HIDE DEF new
<1>5. /\ sets' \in [1 .. nextSetID - 1 -> SetResource]
      /\ sets'[s] = new
      /\ \A t \in DOMAIN sets \ {s} : sets'[t] = sets[t]
  BY <1>1, <1>2, <1>3, SetReplaced
<1> QED BY <1>4, <1>5

LEMMA LockSetEffect ==
    ASSUME EditionsTypeOK, NEW s \in DOMAIN sets, LockSet(s)
    PROVE  /\ sets' \in [1 .. nextSetID - 1 -> SetResource]
           /\ sets'[s].retired = sets[s].retired
           /\ sets'[s].numberMintedPerPlay = sets[s].numberMintedPerPlay
           /\ sets[s].locked => sets'[s] = sets[s]
           /\ \A t \in DOMAIN sets \ {s} : sets'[t] = sets[t]
<1> DEFINE old == DOMAIN sets[s].retired
           new == [sets[s] EXCEPT !.locked = TRUE]
<1>1. /\ old \in SUBSET (1 .. nextPlayID - 1)
      /\ sets[s] \in SetOf(old)
  BY SetFields
<1>2. sets' = [sets EXCEPT ![s] = new]
  BY DEF LockSet
<1>3. /\ new \in SetOf(old)
      /\ new.retired = sets[s].retired
      /\ new.numberMintedPerPlay = sets[s].numberMintedPerPlay
      /\ sets[s].locked => new = sets[s]
  BY <1>1 DEF SetOf
<1> HIDE DEF new
<1>4. /\ sets' \in [1 .. nextSetID - 1 -> SetResource]
      /\ sets'[s] = new
      /\ \A t \in DOMAIN sets \ {s} : sets'[t] = sets[t]
  BY <1>1, <1>2, <1>3, SetReplaced
<1> QED BY <1>3, <1>4

LEMMA CountEffect ==
    ASSUME EditionsTypeOK, NEW s \in DOMAIN sets,
           NEW p \in DOMAIN sets[s].retired, NEW q \in Nat,
           sets' = [sets EXCEPT ![s].numberMintedPerPlay[p] = @ + q]
    PROVE  /\ sets' \in [1 .. nextSetID - 1 -> SetResource]
           /\ sets'[s].retired = sets[s].retired
           /\ sets'[s].numberMintedPerPlay[p] =
                 sets[s].numberMintedPerPlay[p] + q
           /\ \A r \in DOMAIN sets[s].retired \ {p} :
                 sets'[s].numberMintedPerPlay[r] =
                    sets[s].numberMintedPerPlay[r]
           /\ \A t \in DOMAIN sets \ {s} : sets'[t] = sets[t]
<1> DEFINE old == DOMAIN sets[s].retired
           counts == [sets[s].numberMintedPerPlay EXCEPT ![p] = @ + q]
           new == [sets[s] EXCEPT !.numberMintedPerPlay = counts]
<1>1. /\ old \in SUBSET (1 .. nextPlayID - 1)
      /\ sets[s] \in SetOf(old)
      /\ sets[s].numberMintedPerPlay \in [old -> Nat]
  BY SetFields
<1>2. sets' = [sets EXCEPT ![s] = new]
  OBVIOUS
<1>3. counts \in [old -> Nat]
  BY <1>1
<1>4. /\ counts[p] = sets[s].numberMintedPerPlay[p] + q
      /\ \A r \in old \ {p} : counts[r] = sets[s].numberMintedPerPlay[r]
  BY <1>1
<1> HIDE DEF counts
<1>5. /\ new \in SetOf(old)
      /\ new.retired = sets[s].retired
      /\ new.numberMintedPerPlay = counts
  BY <1>1, <1>3 DEF SetOf
<1> HIDE DEF new
<1>6. /\ [sets EXCEPT ![s] = new] \in [1 .. nextSetID - 1 -> SetResource]
      /\ [sets EXCEPT ![s] = new][s] = new
      /\ \A t \in DOMAIN sets \ {s} :
            [sets EXCEPT ![s] = new][t] = sets[t]
  <2>1. old \in SUBSET (1 .. nextPlayID - 1) /\ new \in SetOf(old)
    BY <1>1, <1>5
  <2> HIDE DEF old
  <2> QED BY <2>1, SetReplaced
<1> QED BY <1>2, <1>4, <1>5, <1>6

LEMMA CreateSetEffect ==
    ASSUME EditionsTypeOK, CreateSet
    PROVE  /\ sets' \in [1 .. nextSetID' - 1 -> SetResource]
           /\ setDatas' \in [1 .. nextSetID' - 1 -> 0 .. currentSeries]
           /\ \A t \in DOMAIN sets : t \in DOMAIN sets' /\ sets'[t] = sets[t]
           /\ \A t \in DOMAIN sets' \ DOMAIN sets :
                 DOMAIN sets'[t].retired = {}
<1> DEFINE new == [ retired |-> NoEntries, locked |-> FALSE,
                    numberMintedPerPlay |-> NoEntries ]
<1>1. new \in SetOf({})
  BY DEF SetOf, NoEntries
<1>2. new \in SetResource
  BY <1>1 DEF SetResource
<1> HIDE DEF new
<1>3. sets' = Extended(sets, {nextSetID}, new)
  BY DEF CreateSet, new
<1>4. 1 .. nextSetID' - 1 = (1 .. nextSetID - 1) \cup {nextSetID}
  BY DEF EditionsTypeOK, CreateSet
<1>5. /\ sets' \in [1 .. nextSetID' - 1 -> SetResource]
      /\ \A t \in DOMAIN sets : t \in DOMAIN sets' /\ sets'[t] = sets[t]
      /\ \A t \in DOMAIN sets' \ DOMAIN sets : sets'[t] = new
  BY SetsTyped, <1>2, <1>3, <1>4 DEF EditionsTypeOK, Extended
<1>6. setDatas' \in [1 .. nextSetID' - 1 -> 0 .. currentSeries]
  BY <1>4 DEF EditionsTypeOK, CreateSet, Extended
<1>7. DOMAIN new.retired = {}
  BY DEF new, NoEntries
<1> QED BY <1>5, <1>6, <1>7

\* What the new Moments of a batch are.
LEMMA NewMomentsValue ==
    ASSUME NEW s, NEW p, NEW sub, NEW n \in Nat, NEW q \in Nat,
           totalSupply \in Nat,
           NEW m \in NewMoments(s, p, sub, n, q)
    PROVE  /\ m = [ momentID |-> m.momentID, setID |-> s, playID |-> p,
                    serialNumber |-> m.serialNumber, subedition |-> sub ]
           /\ m.setID = s /\ m.playID = p /\ m.subedition = sub
           /\ m.momentID \in totalSupply + 1 .. totalSupply + q
           /\ m.serialNumber \in n + 1 .. n + q
           /\ m.momentID - totalSupply = m.serialNumber - n
<1>1. PICK i \in 1 .. q :
         m = [ momentID |-> totalSupply + i, setID |-> s, playID |-> p,
               serialNumber |-> n + i, subedition |-> sub ]
  BY DEF NewMoments
<1> QED BY <1>1
-----------------------------------------------------------------------------
(***************************************************************************)
(* Every call keeps the invariant.                                         *)
(***************************************************************************)

\* The uniqueness of serial numbers, spelled out.
LEMMA NumberedApartMeans ==
    NumberedApart <=>
       \A m, n \in minted :
          m.setID = n.setID /\ m.playID = n.playID
             /\ m.subedition = n.subedition
             /\ m.serialNumber = n.serialNumber => m = n
BY DEF NumberedApart, OfSubedition, OfEdition

LEMMA InitEditionInv == Init => EditionInv
<1> SUFFICES ASSUME Init PROVE EditionInv
  OBVIOUS
<1>1. CountersAhead /\ NumberedApart
  BY DEF Init, CountersAhead, NumberedApart
<1>2. /\ 1 .. nextPlayID - 1 = {} /\ 1 .. nextSetID - 1 = {}
  BY DEF Init
<1>3. /\ playDatas \in [{} -> Taglines]
      /\ setDatas \in [{} -> 0 .. currentSeries]
      /\ sets \in [{} -> SetResource]
      /\ DOMAIN numberMintedPerSubedition = {}
      /\ DOMAIN momentsSubedition = {}
  BY DEF Init, NoEntries
<1>4. /\ playDatas \in [1 .. nextPlayID - 1 -> Taglines]
      /\ setDatas \in [1 .. nextSetID - 1 -> 0 .. currentSeries]
      /\ sets \in [1 .. nextSetID - 1 -> SetResource]
  BY <1>2, <1>3
<1>5. /\ currentSeries \in Nat /\ totalSupply \in Nat
      /\ nextPlayID \in Nat \ {0} /\ nextSetID \in Nat \ {0}
      /\ nextSubeditionID \in Nat \ {0} /\ minted = {}
  BY DEF Init
<1>6. subeditionAdmin \in BOOLEAN
  BY Zenon DEF Init
<1>7. EditionsTypeOK
  BY SetsTyped, <1>3, <1>4, <1>5, <1>6 DEF EditionsTypeOK
<1> QED BY <1>1, <1>7 DEF EditionInv

\* Calls that mint nothing keep the numbering, if they keep the counts.
LEMMA NumberingKept ==
    ASSUME EditionInv, UNCHANGED << supplyVars, numberMintedPerSubedition >>,
           \A s \in DOMAIN sets :
              /\ s \in DOMAIN sets'
              /\ \A p \in DOMAIN sets[s].retired :
                    /\ p \in DOMAIN sets'[s].retired
                    /\ sets'[s].numberMintedPerPlay[p] =
                          sets[s].numberMintedPerPlay[p]
    PROVE  CountersAhead' /\ NumberedApart'
<1>1. NumberedApart'
  BY DEF EditionInv, NumberedApart, OfSubedition, OfEdition, supplyVars
<1>2. ASSUME NEW m \in minted' PROVE m \in minted /\ m.setID \in DOMAIN sets
  BY SetsTyped, <1>2 DEF EditionInv, EditionsTypeOK, supplyVars
<1>3. CountersAhead'
  BY <1>2 DEF EditionInv, CountersAhead, supplyVars
<1> QED BY <1>1, <1>3

\* A plain minting gives out numbers above those given out before.
LEMMA BatchMintKeepsInv ==
    ASSUME EditionInv, NEW s \in 1 .. MaxSets, NEW p \in 1 .. MaxPlays,
           NEW q \in Quantities, BatchMintMoment(s, p, q)
    PROVE  EditionInv'
<1> DEFINE n == sets[s].numberMintedPerPlay[p]
           new == NewMoments(s, p, Plain, n, q)
<1>1. /\ EditionsTypeOK
      /\ s \in DOMAIN sets /\ p \in DOMAIN sets[s].retired
      /\ q \in Nat /\ totalSupply \in Nat
  BY BoundsAssumption DEF EditionInv, EditionsTypeOK, BatchMintMoment, Mintable
<1>2. /\ s \in 1 .. nextSetID - 1 /\ p \in 1 .. nextPlayID - 1 /\ n \in Nat
  BY <1>1, SetFields
<1>3. /\ minted' = minted \cup new
      /\ totalSupply' = totalSupply + q
      /\ sets' = [sets EXCEPT ![s].numberMintedPerPlay[p] = @ + q]
      /\ UNCHANGED << currentSeries, playVars, nextSetID, setDatas,
                      subeditionVars >>
  BY DEF BatchMintMoment
<1>4. /\ sets' \in [1 .. nextSetID - 1 -> SetResource]
      /\ sets'[s].retired = sets[s].retired
      /\ sets'[s].numberMintedPerPlay[p] = n + q
      /\ \A r \in DOMAIN sets[s].retired \ {p} :
            sets'[s].numberMintedPerPlay[r] = sets[s].numberMintedPerPlay[r]
      /\ \A t \in DOMAIN sets \ {s} : sets'[t] = sets[t]
  BY <1>1, <1>3, CountEffect
<1> HIDE DEF n
<1>5. \A m \in new :
         /\ m = [ momentID |-> m.momentID, setID |-> s, playID |-> p,
                  serialNumber |-> m.serialNumber, subedition |-> Plain ]
         /\ m.setID = s /\ m.playID = p /\ m.subedition = Plain
         /\ m.momentID \in totalSupply + 1 .. totalSupply + q
         /\ m.serialNumber \in n + 1 .. n + q
         /\ m.momentID - totalSupply = m.serialNumber - n
  BY <1>1, <1>2, NewMomentsValue
<1> HIDE DEF new
<1>6. \A m \in minted :
         /\ m.setID \in DOMAIN sets
         /\ m.serialNumber \in Nat
         /\ m.playID \in DOMAIN sets[m.setID].retired
         /\ m.subedition = Plain =>
               m.serialNumber <= sets[m.setID].numberMintedPerPlay[m.playID]
  BY SetsTyped DEF EditionInv, EditionsTypeOK, CountersAhead
<1>7. EditionsTypeOK'
  <2>1. minted' \subseteq [ momentID : 1 .. totalSupply',
                            setID : 1 .. nextSetID - 1,
                            playID : 1 .. nextPlayID - 1,
                            serialNumber : Nat \ {0},
                            subedition : SubeditionIds \cup {Plain} ]
    <3>1. ASSUME NEW m \in minted
          PROVE  m \in [ momentID : 1 .. totalSupply + q,
                         setID : 1 .. nextSetID - 1,
                         playID : 1 .. nextPlayID - 1,
                         serialNumber : Nat \ {0},
                         subedition : SubeditionIds \cup {Plain} ]
      BY <1>1, <3>1 DEF EditionsTypeOK
    <3>2. ASSUME NEW m \in new
          PROVE  m \in [ momentID : 1 .. totalSupply + q,
                         setID : 1 .. nextSetID - 1,
                         playID : 1 .. nextPlayID - 1,
                         serialNumber : Nat \ {0},
                         subedition : SubeditionIds \cup {Plain} ]
      <4>1. /\ m.momentID \in 1 .. totalSupply + q
            /\ m.serialNumber \in Nat \ {0}
        BY <1>1, <1>2, <1>5, <3>2
      <4> QED BY <1>2, <1>5, <4>1
    <3> QED BY <1>3, <3>1, <3>2
  <2>2. sets' \in [1 .. nextSetID' - 1 -> SetResource']
    BY <1>3, <1>4 DEF playVars, SetResource
  <2>3. totalSupply' \in Nat
    BY <1>1, <1>3
  <2> HIDE DEF new
  <2> QED BY SetsTypedNext, <1>1, <1>3, <2>1, <2>2, <2>3
          DEF EditionsTypeOK, playVars, subeditionVars
<1>8. CountersAhead'
  <2>1. ASSUME NEW m \in minted
        PROVE  /\ m.playID \in DOMAIN sets'[m.setID].retired
               /\ m.subedition = Plain => m.serialNumber <=
                     sets'[m.setID].numberMintedPerPlay[m.playID]
    <3>1. CASE m.setID # s
      BY <1>4, <1>6, <3>1
    <3>2. CASE m.setID = s /\ m.playID # p
      BY <1>4, <1>6, <3>2
    <3>3. CASE m.setID = s /\ m.playID = p
      <4>1. m.subedition = Plain => m.serialNumber <= n
        BY <1>6, <3>3 DEF n
      <4> QED BY <1>1, <1>2, <1>4, <1>6, <3>3, <4>1
    <3> QED BY <3>1, <3>2, <3>3
  <2>2. ASSUME NEW m \in new
        PROVE  /\ m.playID \in DOMAIN sets'[m.setID].retired
               /\ m.subedition = Plain
               /\ m.serialNumber <=
                     sets'[m.setID].numberMintedPerPlay[m.playID]
    BY <1>1, <1>2, <1>4, <1>5, <2>2
  <2> QED BY <1>3, <2>1, <2>2 DEF CountersAhead, EditionInv, subeditionVars
<1>9. NumberedApart'
  <2>1. ASSUME NEW m \in minted, NEW k \in new
        PROVE  ~ ( /\ m.setID = k.setID /\ m.playID = k.playID
                   /\ m.subedition = k.subedition
                   /\ m.serialNumber = k.serialNumber )
    BY <1>1, <1>2, <1>5, <1>6, <2>1 DEF n
  <2>2. ASSUME NEW m \in new, NEW k \in new, m.serialNumber = k.serialNumber
        PROVE  m = k
    <3>1. m.momentID = k.momentID
      BY <1>1, <1>2, <1>5, <2>2
    <3> QED BY <1>5, <2>2, <3>1
  <2>3. ASSUME NEW m \in minted', NEW k \in minted',
               m.setID = k.setID, m.playID = k.playID,
               m.subedition = k.subedition,
               m.serialNumber = k.serialNumber
        PROVE  m = k
    BY <1>3, <2>1, <2>2, <2>3, NumberedApartMeans DEF EditionInv
  <2> QED BY <2>3 DEF NumberedApart, OfSubedition, OfEdition
<1> QED BY <1>7, <1>8, <1>9 DEF EditionInv

\* So does one with a subedition, even where two subeditions share a key.
LEMMA BatchMintWithSubeditionKeepsInv ==
    ASSUME EditionInv, NEW s \in 1 .. MaxSets, NEW p \in 1 .. MaxPlays,
           NEW q \in Quantities, NEW sub \in SubeditionIds,
           BatchMintMomentWithSubedition(s, p, q, sub)
    PROVE  EditionInv'
<1> DEFINE key == SubeditionKey(s, p, sub)
           n == NumberMinted(key)
           new == NewMoments(s, p, sub, n, q)
           ids == { m.momentID : m \in new }
<1>1. /\ EditionsTypeOK
      /\ s \in DOMAIN sets /\ p \in DOMAIN sets[s].retired
      /\ q \in Nat /\ totalSupply \in Nat /\ sub # Plain
  <2>1. sub # Plain
    BY SubeditionAssumption DEF Plain
  <2>2. q \in Nat
    BY BoundsAssumption
  <2>3. EditionsTypeOK /\ totalSupply \in Nat
    BY DEF EditionInv, EditionsTypeOK
  <2> QED BY <2>1, <2>2, <2>3 DEF BatchMintMomentWithSubedition, Mintable
<1>2. s \in 1 .. nextSetID - 1 /\ p \in 1 .. nextPlayID - 1
  BY <1>1, SetFields
<1>3. n \in Nat
  BY <1>1 DEF EditionsTypeOK, NumberMinted
<1>4. /\ minted' = minted \cup new
      /\ totalSupply' = totalSupply + q
      /\ numberMintedPerSubedition' = AddToSubedition(key, q)
      /\ momentsSubedition' = Extended(momentsSubedition, ids, sub)
      /\ sets' = [sets EXCEPT ![s].numberMintedPerPlay[p] = @ + q]
      /\ UNCHANGED << currentSeries, playVars, nextSetID, setDatas,
                      subeditionAdmin, nextSubeditionID >>
  BY DEF BatchMintMomentWithSubedition
<1>5. /\ sets' \in [1 .. nextSetID - 1 -> SetResource]
      /\ sets'[s].retired = sets[s].retired
      /\ sets'[s].numberMintedPerPlay[p] = sets[s].numberMintedPerPlay[p] + q
      /\ \A r \in DOMAIN sets[s].retired \ {p} :
            sets'[s].numberMintedPerPlay[r] = sets[s].numberMintedPerPlay[r]
      /\ \A t \in DOMAIN sets \ {s} : sets'[t] = sets[t]
  BY <1>1, <1>4, CountEffect
<1>6. /\ DOMAIN numberMintedPerSubedition' =
            DOMAIN numberMintedPerSubedition \cup {key}
      /\ numberMintedPerSubedition'[key] = n + q
      /\ \A k \in DOMAIN numberMintedPerSubedition \ {key} :
            numberMintedPerSubedition'[k] = numberMintedPerSubedition[k]
  <2> HIDE DEF key
  <2> QED BY <1>4 DEF AddToSubedition, Extended, NumberMinted
<1>7. key \in DOMAIN numberMintedPerSubedition =>
         numberMintedPerSubedition[key] = n
  BY DEF NumberMinted
<1> HIDE DEF n
<1>8. \A m \in new :
         /\ m = [ momentID |-> m.momentID, setID |-> s, playID |-> p,
                  serialNumber |-> m.serialNumber, subedition |-> sub ]
         /\ m.setID = s /\ m.playID = p /\ m.subedition = sub
         /\ m.momentID \in totalSupply + 1 .. totalSupply + q
         /\ m.serialNumber \in n + 1 .. n + q
         /\ m.momentID - totalSupply = m.serialNumber - n
  <2> HIDE DEF key
  <2> QED BY <1>1, <1>2, <1>3, NewMomentsValue
<1> HIDE DEF new
<1>9. \A m \in minted :
         /\ m.setID \in DOMAIN sets
         /\ m.serialNumber \in Nat
         /\ m.playID \in DOMAIN sets[m.setID].retired
         /\ sets[m.setID].numberMintedPerPlay[m.playID] \in Nat
  <2> SUFFICES ASSUME NEW m \in minted
               PROVE  /\ m.setID \in DOMAIN sets
                      /\ m.serialNumber \in Nat
                      /\ m.playID \in DOMAIN sets[m.setID].retired
                      /\ sets[m.setID].numberMintedPerPlay[m.playID] \in Nat
    OBVIOUS
  <2>1. /\ m.setID \in DOMAIN sets
        /\ m.serialNumber \in Nat
        /\ m.playID \in DOMAIN sets[m.setID].retired
    BY SetsTyped DEF EditionInv, EditionsTypeOK, CountersAhead
  <2> QED BY <1>1, <2>1, SetFields
<1>10. EditionsTypeOK'
  <2>1. minted' \subseteq [ momentID : 1 .. totalSupply',
                            setID : 1 .. nextSetID - 1,
                            playID : 1 .. nextPlayID - 1,
                            serialNumber : Nat \ {0},
                            subedition : SubeditionIds \cup {Plain} ]
    <3>1. ASSUME NEW m \in minted
          PROVE  m \in [ momentID : 1 .. totalSupply + q,
                         setID : 1 .. nextSetID - 1,
                         playID : 1 .. nextPlayID - 1,
                         serialNumber : Nat \ {0},
                         subedition : SubeditionIds \cup {Plain} ]
      BY <1>1, <3>1 DEF EditionsTypeOK
    <3>2. ASSUME NEW m \in new
          PROVE  m \in [ momentID : 1 .. totalSupply + q,
                         setID : 1 .. nextSetID - 1,
                         playID : 1 .. nextPlayID - 1,
                         serialNumber : Nat \ {0},
                         subedition : SubeditionIds \cup {Plain} ]
      <4>1. /\ m.momentID \in 1 .. totalSupply + q
            /\ m.serialNumber \in Nat \ {0}
        BY <1>1, <1>3, <1>8, <3>2
      <4> QED BY <1>2, <1>8, <4>1
    <3> QED BY <1>4, <3>1, <3>2
  <2>2. sets' \in [1 .. nextSetID' - 1 -> SetResource']
    BY <1>4, <1>5 DEF playVars, SetResource
  <2>3. totalSupply' \in Nat
    BY <1>1, <1>4
  <2>4. \A k \in DOMAIN numberMintedPerSubedition' :
           numberMintedPerSubedition'[k] \in Nat
    <3> HIDE DEF key
    <3> QED BY <1>1, <1>3, <1>6 DEF EditionsTypeOK
  <2>5. ids \subseteq Nat
    BY <1>1, <1>8
  <2> HIDE DEF ids
  <2>6. /\ DOMAIN momentsSubedition' \subseteq Nat
        /\ \A m \in DOMAIN momentsSubedition' :
              momentsSubedition'[m] \in SubeditionIds
    BY <1>1, <1>4, <2>5 DEF EditionsTypeOK, Extended
  <2> QED BY SetsTypedNext, <1>1, <1>4, <2>1, <2>2, <2>3, <2>4, <2>6
          DEF EditionsTypeOK, playVars
<1>11. CountersAhead'
  <2>1. ASSUME NEW m \in minted
        PROVE  /\ m.playID \in DOMAIN sets'[m.setID].retired
               /\ sets'[m.setID].numberMintedPerPlay[m.playID] >=
                     sets[m.setID].numberMintedPerPlay[m.playID]
               /\ sets'[m.setID].numberMintedPerPlay[m.playID] \in Nat
    <3>1. CASE m.setID # s
      BY <1>5, <1>9, <3>1
    <3>2. CASE m.setID = s /\ m.playID # p
      BY <1>5, <1>9, <3>2
    <3>3. CASE m.setID = s /\ m.playID = p
      <4>1. /\ sets[s].numberMintedPerPlay[p] \in Nat
            /\ q \in Nat /\ p \in DOMAIN sets'[s].retired
        BY <1>1, <1>5, SetFields
      <4>2. sets'[s].numberMintedPerPlay[p] =
               sets[s].numberMintedPerPlay[p] + q
        BY <1>5
      <4> QED BY <3>3, <4>1, <4>2
    <3> QED BY <3>1, <3>2, <3>3
  <2>2. ASSUME NEW m \in minted, m.subedition = Plain
        PROVE  m.serialNumber <=
                  sets'[m.setID].numberMintedPerPlay[m.playID]
    <3>1. m.serialNumber <= sets[m.setID].numberMintedPerPlay[m.playID]
      BY <2>2 DEF EditionInv, CountersAhead
    <3> QED BY <1>9, <2>1, <3>1
  <2>3. ASSUME NEW m \in minted, m.subedition # Plain,
               NEW k, k = SubeditionKey(m.setID, m.playID, m.subedition)
        PROVE  /\ k \in DOMAIN numberMintedPerSubedition'
               /\ m.serialNumber <= numberMintedPerSubedition'[k]
    <3>1. /\ k \in DOMAIN numberMintedPerSubedition
          /\ m.serialNumber <= numberMintedPerSubedition[k]
      BY <2>3 DEF EditionInv, CountersAhead
    <3> HIDE DEF key
    <3>2. CASE k # key
      BY <1>6, <3>1, <3>2
    <3>3. CASE k = key
      BY <1>1, <1>3, <1>6, <1>7, <1>9, <3>1, <3>3
    <3> QED BY <3>2, <3>3
  <2>4. ASSUME NEW m \in new
        PROVE  /\ m.playID \in DOMAIN sets'[m.setID].retired
               /\ m.subedition # Plain
               /\ SubeditionKey(m.setID, m.playID, m.subedition) = key
               /\ key \in DOMAIN numberMintedPerSubedition'
               /\ m.serialNumber <= numberMintedPerSubedition'[key]
    <3>1. /\ m.playID \in DOMAIN sets'[m.setID].retired
          /\ m.subedition # Plain
          /\ SubeditionKey(m.setID, m.playID, m.subedition) = key
      BY <1>1, <1>5, <1>8, <2>4
    <3> HIDE DEF key
    <3> QED BY <1>1, <1>3, <1>6, <1>8, <2>4, <3>1
  <2> HIDE DEF key
  <2> QED BY <1>4, <2>1, <2>2, <2>3, <2>4 DEF CountersAhead
<1>12. NumberedApart'
  <2>1. ASSUME NEW m \in minted, NEW k \in new,
               m.setID = k.setID, m.playID = k.playID,
               m.subedition = k.subedition
        PROVE  m.serialNumber # k.serialNumber
    <3>1. m.subedition # Plain /\
             key = SubeditionKey(m.setID, m.playID, m.subedition)
      BY <1>1, <1>8, <2>1
    <3>2. m.serialNumber <= n
      BY <1>7, <3>1 DEF EditionInv, CountersAhead
    <3> QED BY <1>1, <1>3, <1>8, <1>9, <2>1, <3>2
  <2>2. ASSUME NEW m \in new, NEW k \in new, m.serialNumber = k.serialNumber
        PROVE  m = k
    <3>1. m.momentID = k.momentID
      BY <1>1, <1>3, <1>8, <2>2
    <3> QED BY <1>8, <2>2, <3>1
  <2>3. ASSUME NEW m \in minted', NEW k \in minted',
               m.setID = k.setID, m.playID = k.playID,
               m.subedition = k.subedition,
               m.serialNumber = k.serialNumber
        PROVE  m = k
    BY <1>4, <2>1, <2>2, <2>3, NumberedApartMeans DEF EditionInv
  <2> QED BY <2>3 DEF NumberedApart, OfSubedition, OfEdition
<1> QED BY <1>10, <1>11, <1>12 DEF EditionInv

\* The calls that change no Set.
LEMMA SetsUntouchedKeepInv ==
    ASSUME EditionInv,
           \/ \E tagline \in Taglines : CreatePlay(tagline)
           \/ \E playID \in 1 .. MaxPlays, tagline \in Taglines :
                 UpdatePlayTagline(playID, tagline)
           \/ StartNewSeries
           \/ CreateSubeditionAdminResource
           \/ CreateSubedition
           \/ \E nftID \in 1 .. MaxSupply, subeditionID \in SubeditionIds :
                 SetMomentsSubedition(nftID, subeditionID)
           \/ UNCHANGED vars
    PROVE  EditionInv'
<1>1. EditionsTypeOK
  BY DEF EditionInv
<1>2. UNCHANGED << setVars, numberMintedPerSubedition, supplyVars >>
  BY DEF CreatePlay, UpdatePlayTagline, StartNewSeries,
         CreateSubeditionAdminResource, CreateSubedition,
         SetMomentsSubedition, vars, setVars, subeditionVars
<1>3. CountersAhead' /\ NumberedApart'
  BY <1>2, NumberingKept DEF setVars
<1>4. CASE \E tagline \in Taglines : CreatePlay(tagline)
  <2>1. PICK tagline \in Taglines : CreatePlay(tagline)
    BY <1>4
  <2>2. /\ nextPlayID' \in Nat \ {0}
        /\ 1 .. nextPlayID' - 1 = (1 .. nextPlayID - 1) \cup {nextPlayID}
    BY <1>1, <2>1 DEF CreatePlay, EditionsTypeOK
  <2>3. playDatas' \in [1 .. nextPlayID' - 1 -> Taglines]
    BY <1>1, <2>1, <2>2 DEF CreatePlay, EditionsTypeOK, Extended
  <2>4. SetResource \subseteq SetResource'
    BY <2>2 DEF SetResource, SetOf
  <2>5. sets' \in [1 .. nextSetID' - 1 -> SetResource']
    BY SetsTyped, <1>1, <1>2, <2>4 DEF EditionsTypeOK, setVars
  <2>6. minted' \subseteq [ momentID : 1 .. totalSupply',
                            setID : 1 .. nextSetID' - 1,
                            playID : 1 .. nextPlayID' - 1,
                            serialNumber : Nat \ {0},
                            subedition : SubeditionIds \cup {Plain} ]
    BY <1>1, <1>2, <2>2 DEF EditionsTypeOK, setVars, supplyVars
  <2>7. EditionsTypeOK'
    BY SetsTypedNext, <1>1, <1>2, <2>1, <2>2, <2>3, <2>5, <2>6
       DEF EditionsTypeOK, CreatePlay, setVars, supplyVars, subeditionVars
  <2> QED BY <1>3, <2>7 DEF EditionInv
<1>5. ASSUME UNCHANGED nextPlayID,
             playDatas' \in [1 .. nextPlayID - 1 -> Taglines],
             currentSeries' \in Nat, currentSeries <= currentSeries',
             subeditionAdmin' \in BOOLEAN,
             nextSubeditionID' \in Nat \ {0},
             DOMAIN momentsSubedition' \subseteq Nat,
             \A m \in DOMAIN momentsSubedition' :
                momentsSubedition'[m] \in SubeditionIds
      PROVE  EditionInv'
  <2>1. sets' \in [1 .. nextSetID' - 1 -> SetResource']
    BY SetsTyped, <1>1, <1>2, <1>5 DEF EditionsTypeOK, setVars, SetResource
  <2>2. setDatas' \in [1 .. nextSetID' - 1 -> 0 .. currentSeries']
    BY <1>1, <1>2, <1>5 DEF EditionsTypeOK, setVars
  <2>3. EditionsTypeOK'
    BY SetsTypedNext, <1>1, <1>2, <1>5, <2>1, <2>2
    DEF EditionsTypeOK, setVars, supplyVars
  <2> QED BY <1>3, <2>3 DEF EditionInv
<1>6. CASE \E playID \in 1 .. MaxPlays, tagline \in Taglines :
              UpdatePlayTagline(playID, tagline)
  BY <1>1, <1>5, <1>6 DEF UpdatePlayTagline, EditionsTypeOK, subeditionVars
<1>7. CASE StartNewSeries
  BY <1>1, <1>5, <1>7
     DEF StartNewSeries, EditionsTypeOK, playVars, subeditionVars
<1>8. CASE CreateSubeditionAdminResource
  <2>1. subeditionAdmin' \in BOOLEAN
    BY <1>8, Zenon DEF CreateSubeditionAdminResource
  <2> QED BY <1>1, <1>5, <1>8, <2>1
          DEF CreateSubeditionAdminResource, EditionsTypeOK, playVars
<1>9. CASE CreateSubedition
  BY <1>1, <1>5, <1>9 DEF CreateSubedition, EditionsTypeOK, playVars
<1>10. CASE \E nftID \in 1 .. MaxSupply, subeditionID \in SubeditionIds :
               SetMomentsSubedition(nftID, subeditionID)
  <2>1. PICK nftID \in 1 .. MaxSupply, subeditionID \in SubeditionIds :
           SetMomentsSubedition(nftID, subeditionID)
    BY <1>10
  <2>2. /\ DOMAIN momentsSubedition' \subseteq Nat
        /\ \A m \in DOMAIN momentsSubedition' :
              momentsSubedition'[m] \in SubeditionIds
    BY <1>1, <2>1, BoundsAssumption
       DEF SetMomentsSubedition, EditionsTypeOK, Extended
  <2>3. UNCHANGED << currentSeries, playVars, subeditionAdmin,
                     nextSubeditionID >>
    BY <2>1 DEF SetMomentsSubedition
  <2> QED BY <1>1, <1>5, <2>2, <2>3 DEF EditionsTypeOK, playVars
<1>11. CASE UNCHANGED vars
  BY <1>1, <1>5, <1>11 DEF vars, EditionsTypeOK, playVars, subeditionVars
<1> QED BY <1>4, <1>6, <1>7, <1>8, <1>9, <1>10, <1>11

\* The calls that change or create a Set without minting.
LEMMA SetsChangedKeepInv ==
    ASSUME EditionInv,
           sets' \in [1 .. nextSetID' - 1 -> SetResource],
           setDatas' \in [1 .. nextSetID' - 1 -> 0 .. currentSeries],
           nextSetID' \in Nat, nextSetID' >= nextSetID,
           UNCHANGED << currentSeries, playVars, subeditionVars, supplyVars >>,
           \A s \in DOMAIN sets :
              /\ s \in DOMAIN sets'
              /\ \A p \in DOMAIN sets[s].retired :
                    /\ p \in DOMAIN sets'[s].retired
                    /\ sets'[s].numberMintedPerPlay[p] =
                          sets[s].numberMintedPerPlay[p]
    PROVE  EditionInv'
<1>1. CountersAhead' /\ NumberedApart'
  BY NumberingKept DEF subeditionVars
<1>2. EditionsTypeOK /\ SetResource' = SetResource
  BY DEF EditionInv, SetResource, playVars
<1>3. minted' \subseteq [ momentID : 1 .. totalSupply',
                          setID : 1 .. nextSetID' - 1,
                          playID : 1 .. nextPlayID' - 1,
                          serialNumber : Nat \ {0},
                          subedition : SubeditionIds \cup {Plain} ]
  BY <1>2 DEF EditionsTypeOK, playVars, supplyVars
<1>4. nextSetID' \in Nat \ {0}
  BY <1>2 DEF EditionsTypeOK
<1>5. EditionsTypeOK'
  BY SetsTypedNext, <1>2, <1>3, <1>4
     DEF EditionsTypeOK, playVars, subeditionVars, supplyVars
<1> QED BY <1>1, <1>5 DEF EditionInv
-----------------------------------------------------------------------------
(***************************************************************************)
(* The theorems.                                                           *)
(***************************************************************************)

\* The inductive invariant of the catalog.
THEOREM EditionInvariance == Spec => []EditionInv
<1>1. Init => EditionInv
  BY InitEditionInv
<1>2. EditionInv /\ [Next]_vars => EditionInv'
  <2> SUFFICES ASSUME EditionInv, [Next]_vars
               PROVE  EditionInv'
    OBVIOUS
  <2>0. EditionsTypeOK
    BY DEF EditionInv
  <2>1. CASE CreateSet
    <3>1. /\ sets' \in [1 .. nextSetID' - 1 -> SetResource]
          /\ setDatas' \in [1 .. nextSetID' - 1 -> 0 .. currentSeries]
          /\ \A t \in DOMAIN sets : t \in DOMAIN sets' /\ sets'[t] = sets[t]
      BY <2>0, <2>1, CreateSetEffect
    <3>2. /\ nextSetID' \in Nat /\ nextSetID' >= nextSetID
          /\ UNCHANGED << currentSeries, playVars, subeditionVars,
                          supplyVars >>
      BY <2>0, <2>1 DEF CreateSet, EditionsTypeOK
    <3> QED BY <3>1, <3>2, SetsChangedKeepInv
  <2>2. ASSUME NEW s \in DOMAIN sets,
               sets' \in [1 .. nextSetID - 1 -> SetResource],
               UNCHANGED << currentSeries, playVars, nextSetID, setDatas,
                            subeditionVars, supplyVars >>,
               \A t \in DOMAIN sets \ {s} : sets'[t] = sets[t],
               \A p \in DOMAIN sets[s].retired :
                    /\ p \in DOMAIN sets'[s].retired
                    /\ sets'[s].numberMintedPerPlay[p] =
                          sets[s].numberMintedPerPlay[p]
        PROVE  EditionInv'
    <3>1. /\ sets' \in [1 .. nextSetID' - 1 -> SetResource]
          /\ setDatas' \in [1 .. nextSetID' - 1 -> 0 .. currentSeries]
          /\ nextSetID' \in Nat /\ nextSetID' >= nextSetID
      BY <2>0, <2>2 DEF EditionsTypeOK
    <3>2. \A t \in DOMAIN sets :
             /\ t \in DOMAIN sets'
             /\ \A p \in DOMAIN sets[t].retired :
                   /\ p \in DOMAIN sets'[t].retired
                   /\ sets'[t].numberMintedPerPlay[p] =
                         sets[t].numberMintedPerPlay[p]
      BY SetsTyped, <2>0, <2>2 DEF EditionsTypeOK
    <3> QED BY <2>2, <3>1, <3>2, SetsChangedKeepInv
  <2>3. ASSUME NEW s \in 1 .. MaxSets, NEW plays \in SUBSET (1 .. MaxPlays),
               AddPlays(s, plays)
        PROVE  EditionInv'
    <3>1. s \in DOMAIN sets
      BY <2>3 DEF AddPlays
    <3>2. UNCHANGED << currentSeries, playVars, nextSetID, setDatas,
                       subeditionVars, supplyVars >>
      BY <2>3 DEF AddPlays
    <3>3. /\ sets' \in [1 .. nextSetID - 1 -> SetResource]
          /\ \A t \in DOMAIN sets \ {s} : sets'[t] = sets[t]
          /\ \A p \in DOMAIN sets[s].retired :
                /\ p \in DOMAIN sets'[s].retired
                /\ sets'[s].numberMintedPerPlay[p] =
                      sets[s].numberMintedPerPlay[p]
      BY <2>0, <2>3, <3>1, AddPlaysEffect
    <3> QED BY <2>2, <3>1, <3>2, <3>3
  <2>4. ASSUME NEW s \in DOMAIN sets,
               NEW plays \in SUBSET DOMAIN sets[s].retired, Retire(s, plays)
        PROVE  EditionInv'
    <3>1. UNCHANGED << currentSeries, playVars, nextSetID, setDatas,
                       subeditionVars, supplyVars >>
      BY <2>4 DEF Retire
    <3>2. /\ sets' \in [1 .. nextSetID - 1 -> SetResource]
          /\ \A t \in DOMAIN sets \ {s} : sets'[t] = sets[t]
          /\ DOMAIN sets'[s].retired = DOMAIN sets[s].retired
          /\ sets'[s].numberMintedPerPlay = sets[s].numberMintedPerPlay
      BY <2>0, <2>4, RetireEffect
    <3> QED BY <2>2, <3>1, <3>2
  <2>5. ASSUME NEW s \in DOMAIN sets, LockSet(s)
        PROVE  EditionInv'
    BY <2>0, <2>2, <2>5, LockSetEffect DEF LockSet
  <2>6. ASSUME NEW s \in DOMAIN sets, NEW p \in 1 .. MaxPlays,
               RetirePlay(s, p)
        PROVE  EditionInv'
    <3>1. Retire(s, {p}) /\ {p} \in SUBSET DOMAIN sets[s].retired
      BY <2>6 DEF RetirePlay, Retire
    <3> QED BY <2>4, <3>1
  <2>7. ASSUME NEW s \in DOMAIN sets, RetireAll(s)
        PROVE  EditionInv'
    BY <2>4, <2>7 DEF RetireAll
  <2> QED BY <2>1, <2>3, <2>5, <2>6, <2>7, SetsUntouchedKeepInv,
             BatchMintKeepsInv, BatchMintWithSubeditionKeepsInv DEF Next
<1> QED BY <1>1, <1>2, PTL DEF Spec

\* Type correctness of the catalog.
THEOREM EditionsTypeCorrect == Spec => []EditionsTypeOK
<1>1. EditionInv => EditionsTypeOK
  BY DEF EditionInv
<1> QED BY <1>1, EditionInvariance, PTL

\* No serial number is given out twice within an edition and subedition,
\* whatever keys the subeditions are counted under, but for a plain Moment and
\* one of subedition 0: those are the two counters whose Moments say 0.
THEOREM SerialNumbersUnique == Spec => []SerialsUnique
<1>1. EditionInv => SerialsUnique
  <2> SUFFICES ASSUME EditionInv, NEW m \in minted,
                      NEW n \in OfEdition(m.setID, m.playID),
                      MomentSubeditionID(m) = MomentSubeditionID(n),
                      m.serialNumber = n.serialNumber,
                      {m.subedition, n.subedition} # {Plain, 0}
               PROVE  m = n
    BY DEF SerialsUnique
  <2>1. /\ n \in minted /\ n.setID = m.setID /\ n.playID = m.playID
    BY DEF OfEdition
  <2>2. /\ m.subedition \in SubeditionIds \cup {Plain}
        /\ n.subedition \in SubeditionIds \cup {Plain}
    BY <2>1 DEF EditionInv, EditionsTypeOK
  <2>3. m.subedition = n.subedition
    BY <2>2 DEF MomentSubeditionID, Plain
  <2> QED BY <2>1, <2>3, NumberedApartMeans DEF EditionInv
<1> QED BY <1>1, EditionInvariance, PTL

\* What a step leaves of a Set: the retired Plays stay retired, and a Set
\* that is locked and all retired stays as it is.
LEMMA SetsOnlyClose ==
    ASSUME EditionInv, [Next]_vars, NEW s \in DOMAIN sets
    PROVE  /\ \A p \in DOMAIN sets[s].retired :
                 sets[s].retired[p] => sets'[s].retired[p]
           /\ sets[s].locked /\ (\A p \in DOMAIN sets[s].retired :
                                    sets[s].retired[p])
                 => sets'[s] = sets[s]
<1> DEFINE Kept == /\ \A p \in DOMAIN sets[s].retired :
                         sets[s].retired[p] => sets'[s].retired[p]
                   /\ sets[s].locked /\ (\A p \in DOMAIN sets[s].retired :
                                            sets[s].retired[p])
                         => sets'[s] = sets[s]
<1> SUFFICES Kept
  OBVIOUS
<1>0. EditionsTypeOK
  BY DEF EditionInv
<1>1. CASE sets' = sets
  BY <1>1
<1>2. CASE CreateSet
  BY <1>0, <1>2, CreateSetEffect
<1>3. ASSUME NEW t \in DOMAIN sets, \A u \in DOMAIN sets \ {t} : sets'[u] = sets[u],
             t = s => Kept
      PROVE  Kept
  BY <1>3
<1>4. ASSUME NEW t \in 1 .. MaxSets, NEW plays \in SUBSET (1 .. MaxPlays),
             AddPlays(t, plays)
      PROVE  Kept
  <2>1. t \in DOMAIN sets
    BY <1>4 DEF AddPlays
  <2>2. /\ ~ sets[t].locked
        /\ \A p \in DOMAIN sets[t].retired :
              sets'[t].retired[p] = sets[t].retired[p]
        /\ \A u \in DOMAIN sets \ {t} : sets'[u] = sets[u]
    BY <1>0, <1>4, <2>1, AddPlaysEffect
  <2> QED BY <1>3, <2>1, <2>2
<1>5. ASSUME NEW t \in DOMAIN sets,
             NEW plays \in SUBSET DOMAIN sets[t].retired, Retire(t, plays)
      PROVE  Kept
  <2>1. /\ \A p \in DOMAIN sets[t].retired :
              sets[t].retired[p] => sets'[t].retired[p]
        /\ \A u \in DOMAIN sets \ {t} : sets'[u] = sets[u]
    BY <1>0, <1>5, RetireEffect
  <2>2. ASSUME \A p \in DOMAIN sets[t].retired : sets[t].retired[p]
        PROVE  sets'[t] = sets[t]
    <3> DEFINE old == DOMAIN sets[t].retired
               new == [sets[t] EXCEPT !.retired =
                          [p \in old |-> sets[t].retired[p] \/ p \in plays]]
    <3>1. sets'[t] = new
      BY <1>0, <1>5 DEF Retire, EditionsTypeOK
    <3>2. sets[t] \in SetOf(old) /\ sets[t].retired \in [old -> BOOLEAN]
      BY <1>0, SetFields
    <3>3. [p \in old |-> sets[t].retired[p] \/ p \in plays]
             = [p \in old |-> TRUE]
      BY <2>2
    <3>4. sets[t].retired = [p \in old |-> TRUE]
      BY <2>2, <3>2
    <3> HIDE DEF old
    <3>5. new = sets[t]
      BY <3>2, <3>3, <3>4 DEF SetOf
    <3> QED BY <3>1, <3>5
  <2> QED BY <1>3, <2>1, <2>2
<1>6. ASSUME NEW t \in DOMAIN sets, LockSet(t)
      PROVE  Kept
  BY <1>0, <1>3, <1>6, LockSetEffect
<1>7. ASSUME NEW t \in DOMAIN sets, NEW p \in DOMAIN sets[t].retired,
             NEW q \in Nat, ~ sets[t].retired[p],
             sets' = [sets EXCEPT ![t].numberMintedPerPlay[p] = @ + q]
      PROVE  Kept
  <2>1. /\ sets'[t].retired = sets[t].retired
        /\ \A u \in DOMAIN sets \ {t} : sets'[u] = sets[u]
    BY <1>0, <1>7, CountEffect
  <2> QED BY <1>3, <1>7, <2>1
<1>8. ASSUME NEW t \in 1 .. MaxSets, NEW p \in 1 .. MaxPlays,
             NEW q \in Quantities,
             \/ BatchMintMoment(t, p, q)
             \/ \E sub \in SubeditionIds :
                   BatchMintMomentWithSubedition(t, p, q, sub)
      PROVE  Kept
  <2>1. /\ t \in DOMAIN sets /\ p \in DOMAIN sets[t].retired
        /\ ~ sets[t].retired[p] /\ q \in Nat
        /\ sets' = [sets EXCEPT ![t].numberMintedPerPlay[p] = @ + q]
    BY <1>8, BoundsAssumption
       DEF BatchMintMoment, BatchMintMomentWithSubedition, Mintable
  <2> QED BY <1>7, <2>1
<1>9. ASSUME NEW t \in DOMAIN sets, NEW p \in 1 .. MaxPlays, RetirePlay(t, p)
      PROVE  Kept
  <2>1. Retire(t, {p}) /\ {p} \in SUBSET DOMAIN sets[t].retired
    BY <1>9 DEF RetirePlay, Retire
  <2> QED BY <1>5, <2>1
<1>10. ASSUME NEW t \in DOMAIN sets, RetireAll(t)
       PROVE  Kept
  BY <1>5, <1>10 DEF RetireAll
<1> HIDE DEF Kept
<1> QED BY <1>1, <1>2, <1>4, <1>6, <1>8, <1>9, <1>10
        DEF Next, vars, setVars, CreatePlay, UpdatePlayTagline,
            StartNewSeries, CreateSubeditionAdminResource, CreateSubedition,
            SetMomentsSubedition

\* Nothing is minted from a retired edition.
LEMMA NothingMintedRetired ==
    ASSUME EditionInv, [Next]_vars, NEW s \in DOMAIN sets,
           NEW p \in DOMAIN sets[s].retired, sets[s].retired[p]
    PROVE  OfEdition(s, p)' = OfEdition(s, p)
<1>1. CASE UNCHANGED minted
  BY <1>1 DEF OfEdition
<1>2. ASSUME NEW t \in 1 .. MaxSets, NEW r \in 1 .. MaxPlays,
             NEW q \in Quantities, NEW sub, NEW n \in Nat,
             Mintable(t, r, q),
             minted' = minted \cup NewMoments(t, r, sub, n, q)
      PROVE  OfEdition(s, p)' = OfEdition(s, p)
  <2>1. ~ (s = t /\ p = r)
    BY <1>2 DEF Mintable
  <2>2. q \in Nat /\ totalSupply \in Nat
    BY BoundsAssumption DEF EditionInv, EditionsTypeOK
  <2>3. \A m \in NewMoments(t, r, sub, n, q) : m.setID = t /\ m.playID = r
    BY <1>2, <2>2, NewMomentsValue
  <2> QED BY <1>2, <2>1, <2>3 DEF OfEdition
<1>3. ASSUME NEW t \in 1 .. MaxSets, NEW r \in 1 .. MaxPlays,
             NEW q \in Quantities, BatchMintMoment(t, r, q)
      PROVE  OfEdition(s, p)' = OfEdition(s, p)
  <2>1. sets[t].numberMintedPerPlay[r] \in Nat
    <3>1. t \in DOMAIN sets /\ r \in DOMAIN sets[t].retired
      BY <1>3 DEF BatchMintMoment, Mintable
    <3> QED BY <3>1, SetFields DEF EditionInv
  <2> QED BY <1>2, <1>3, <2>1 DEF BatchMintMoment
<1>4. ASSUME NEW t \in 1 .. MaxSets, NEW r \in 1 .. MaxPlays,
             NEW q \in Quantities, NEW sub \in SubeditionIds,
             BatchMintMomentWithSubedition(t, r, q, sub)
      PROVE  OfEdition(s, p)' = OfEdition(s, p)
  <2>1. \A key : NumberMinted(key) \in Nat
    BY DEF NumberMinted, EditionInv, EditionsTypeOK
  <2> QED BY <1>2, <1>4, <2>1 DEF BatchMintMomentWithSubedition
<1> QED BY <1>1, <1>3, <1>4
        DEF Next, vars, supplyVars, CreatePlay, UpdatePlayTagline, CreateSet,
            StartNewSeries, AddPlays, RetirePlay, RetireAll, Retire, LockSet,
            CreateSubeditionAdminResource, CreateSubedition,
            SetMomentsSubedition

\* Retirement is final.
THEOREM RetirementIsFinal == Spec => RetiredEditionsAreFinal
<1>1. EditionInv /\ [Next]_vars =>
        \A s \in DOMAIN sets : \A p \in DOMAIN sets[s].retired :
           sets[s].retired[p] => /\ sets'[s].retired[p]
                                 /\ OfEdition(s, p)' = OfEdition(s, p)
  BY SetsOnlyClose, NothingMintedRetired
<1> QED BY <1>1, EditionInvariance, PTL DEF Spec, RetiredEditionsAreFinal

\* A Set that is locked and entirely retired is closed forever.
THEOREM ClosingIsFinal == Spec => ClosedSetsStayClosed
<1>1. EditionInv /\ [Next]_vars =>
        \A s \in DOMAIN sets :
           sets[s].locked /\ (\A p \in DOMAIN sets[s].retired :
                                 sets[s].retired[p]) => sets'[s] = sets[s]
  BY SetsOnlyClose
<1> QED BY <1>1, EditionInvariance, PTL DEF Spec, ClosedSetsStayClosed
-----------------------------------------------------------------------------
(***************************************************************************)
(* What is counted and recorded of the Moments minted.                     *)
(***************************************************************************)

\* The counts of a Set are those of the Plays it can retire.
LEMMA ResourceDomains ==
    ASSUME NEW r \in SetResource
    PROVE  DOMAIN r.numberMintedPerPlay = DOMAIN r.retired
<1>1. PICK plays \in SUBSET (1 .. nextPlayID - 1) : r \in SetOf(plays)
  BY DEF SetResource
<1> QED BY <1>1 DEF SetOf

\* The Moments of a batch up to the i-th are i Moments.
LEMMA NewMomentsCount ==
    ASSUME NEW s, NEW p, NEW sub, NEW n \in Nat, NEW q \in Nat,
           totalSupply \in Nat, NEW i \in 0 .. q
    PROVE  LET first == { m \in NewMoments(s, p, sub, n, q) :
                             m.momentID <= totalSupply + i }
           IN  IsFiniteSet(first) /\ Cardinality(first) = i
<1> DEFINE moment(j) == [ momentID |-> totalSupply + j, setID |-> s,
                          playID |-> p, serialNumber |-> n + j,
                          subedition |-> sub ]
           first == { m \in NewMoments(s, p, sub, n, q) :
                         m.momentID <= totalSupply + i }
           f == [j \in 1 .. i |-> moment(j)]
<1>1. first = { moment(j) : j \in 1 .. i }
  <2>1. ASSUME NEW m \in first PROVE m \in { moment(j) : j \in 1 .. i }
    <3>1. PICK j \in 1 .. q : m = moment(j)
      BY <2>1 DEF NewMoments
    <3>2. totalSupply + j <= totalSupply + i
      BY <2>1, <3>1
    <3>3. j \in 1 .. i
      BY <3>1, <3>2
    <3> QED BY <3>1, <3>3
  <2>2. ASSUME NEW j \in 1 .. i PROVE moment(j) \in first
    <3>1. j \in 1 .. q /\ totalSupply + j <= totalSupply + i
      BY <2>2
    <3> QED BY <3>1 DEF NewMoments
  <2> QED BY <2>1, <2>2
<1> HIDE DEF first
<1>2. f \in [1 .. i -> first]
  BY <1>1
<1>3. ASSUME NEW j \in 1 .. i, NEW k \in 1 .. i, f[j] = f[k] PROVE j = k
  <2>1. totalSupply + j = totalSupply + k
    BY <1>3
  <2> QED BY <2>1
<1>4. \A m \in first : \E j \in 1 .. i : f[j] = m
  BY <1>1
<1>5. f \in Bijection(1 .. i, first)
  <2> HIDE DEF f
  <2> QED BY <1>2, <1>3, <1>4 DEF Bijection, Injection, Surjection,
                                  IsInjective
<1>6. ExistsBijection(1 .. i, first)
  BY <1>5 DEF ExistsBijection
<1>7. i \in Nat
  OBVIOUS
<1>8. Cardinality(first) = i
  BY <1>6, <1>7, FS_CountingElements
<1>9. IsFiniteSet(first)
  BY <1>6, <1>7, FS_NatBijection
<1> QED BY <1>8, <1>9 DEF first

\* The whole batch.
LEMMA BatchCount ==
    ASSUME NEW s, NEW p, NEW sub, NEW n \in Nat, NEW q \in Nat,
           totalSupply \in Nat
    PROVE  /\ IsFiniteSet(NewMoments(s, p, sub, n, q))
           /\ Cardinality(NewMoments(s, p, sub, n, q)) = q
<1> DEFINE new == NewMoments(s, p, sub, n, q)
<1>1. \A m \in new : m.momentID <= totalSupply + q
  <2>1. \A m \in new : m.momentID \in totalSupply + 1 .. totalSupply + q
    BY NewMomentsValue
  <2> QED BY <2>1
<1>2. { m \in new : m.momentID <= totalSupply + q } = new
  BY <1>1
<1>3. q \in 0 .. q
  OBVIOUS
<1> QED BY <1>2, <1>3, NewMomentsCount

\* A step that mints a batch, and one that mints nothing: it counts no
\* Moment either, and what it adds is counted from zero.
Mints(s, p, sub, n, q) ==
    /\ s \in DOMAIN sets /\ p \in DOMAIN sets[s].retired
    /\ n \in Nat /\ q \in Nat \ {0}
    /\ sub = Plain => n = sets[s].numberMintedPerPlay[p]
    /\ minted' = minted \cup NewMoments(s, p, sub, n, q)
    /\ sets' = [sets EXCEPT ![s].numberMintedPerPlay[p] = @ + q]

MintsNothing ==
    /\ minted' = minted
    /\ \A s \in DOMAIN sets' : \A p \in DOMAIN sets'[s].numberMintedPerPlay :
          IF s \in DOMAIN sets /\ p \in DOMAIN sets[s].numberMintedPerPlay
          THEN sets'[s].numberMintedPerPlay[p] =
                  sets[s].numberMintedPerPlay[p]
          ELSE sets'[s].numberMintedPerPlay[p] = 0

\* Replacing the resource of one Set.
LEMMA OneSetMintsNothing ==
    ASSUME EditionsTypeOK, NEW s \in DOMAIN sets, minted' = minted,
           sets' \in [1 .. nextSetID - 1 -> SetResource],
           \A t \in DOMAIN sets \ {s} : sets'[t] = sets[t],
           \A p \in DOMAIN sets[s].retired :
              sets'[s].numberMintedPerPlay[p] = sets[s].numberMintedPerPlay[p],
           \A p \in DOMAIN sets'[s].retired \ DOMAIN sets[s].retired :
              sets'[s].numberMintedPerPlay[p] = 0
    PROVE  MintsNothing
<1>1. sets \in [1 .. nextSetID - 1 -> SetResource]
  BY SetsTyped DEF EditionsTypeOK
<1>2. /\ DOMAIN sets' = DOMAIN sets
      /\ DOMAIN sets[s].numberMintedPerPlay = DOMAIN sets[s].retired
      /\ DOMAIN sets'[s].numberMintedPerPlay = DOMAIN sets'[s].retired
  BY <1>1, ResourceDomains
<1> QED BY <1>2 DEF MintsNothing

\* Every step mints a batch or nothing.
LEMMA StepMints ==
    ASSUME EditionInv, [Next]_vars
    PROVE  \/ MintsNothing
           \/ \E s, p, sub, n, q : Mints(s, p, sub, n, q)
<1> DEFINE Goal == \/ MintsNothing
                   \/ \E s, p, sub, n, q : Mints(s, p, sub, n, q)
<1>0. EditionsTypeOK
  BY DEF EditionInv
<1>1. CASE UNCHANGED << minted, sets >>
  BY <1>1 DEF MintsNothing
<1>2. CASE CreateSet
  <2>1. /\ sets' \in [1 .. nextSetID' - 1 -> SetResource]
        /\ \A t \in DOMAIN sets : t \in DOMAIN sets' /\ sets'[t] = sets[t]
        /\ \A t \in DOMAIN sets' \ DOMAIN sets : DOMAIN sets'[t].retired = {}
    BY <1>0, <1>2, CreateSetEffect
  <2>2. \A t \in DOMAIN sets' \ DOMAIN sets :
           DOMAIN sets'[t].numberMintedPerPlay = {}
    BY <2>1, ResourceDomains
  <2> QED BY <1>2, <2>1, <2>2 DEF MintsNothing, CreateSet, supplyVars
<1>3. ASSUME NEW s \in 1 .. MaxSets, NEW plays \in SUBSET (1 .. MaxPlays),
             AddPlays(s, plays)
      PROVE  MintsNothing
  <2>1. s \in DOMAIN sets /\ minted' = minted
    BY <1>3 DEF AddPlays, supplyVars
  <2> QED BY <1>0, <1>3, <2>1, AddPlaysEffect, OneSetMintsNothing
<1>4. ASSUME NEW s \in DOMAIN sets,
             NEW plays \in SUBSET DOMAIN sets[s].retired, Retire(s, plays)
      PROVE  MintsNothing
  <2>1. minted' = minted
    BY <1>4 DEF Retire, supplyVars
  <2>2. /\ sets' \in [1 .. nextSetID - 1 -> SetResource]
        /\ \A t \in DOMAIN sets \ {s} : sets'[t] = sets[t]
        /\ DOMAIN sets'[s].retired = DOMAIN sets[s].retired
        /\ sets'[s].numberMintedPerPlay = sets[s].numberMintedPerPlay
    BY <1>0, <1>4, RetireEffect
  <2> QED BY <1>0, <2>1, <2>2, OneSetMintsNothing
<1>5. ASSUME NEW s \in DOMAIN sets, LockSet(s)
      PROVE  MintsNothing
  <2>1. minted' = minted
    BY <1>5 DEF LockSet, supplyVars
  <2>2. /\ sets' \in [1 .. nextSetID - 1 -> SetResource]
        /\ \A t \in DOMAIN sets \ {s} : sets'[t] = sets[t]
        /\ sets'[s].retired = sets[s].retired
        /\ sets'[s].numberMintedPerPlay = sets[s].numberMintedPerPlay
    BY <1>0, <1>5, LockSetEffect
  <2> QED BY <1>0, <2>1, <2>2, OneSetMintsNothing
<1>6. ASSUME NEW s \in DOMAIN sets, NEW p \in 1 .. MaxPlays, RetirePlay(s, p)
      PROVE  MintsNothing
  <2>1. Retire(s, {p}) /\ {p} \in SUBSET DOMAIN sets[s].retired
    BY <1>6 DEF RetirePlay, Retire
  <2> QED BY <1>4, <2>1
<1>7. ASSUME NEW s \in DOMAIN sets, RetireAll(s)
      PROVE  MintsNothing
  BY <1>4, <1>7 DEF RetireAll
<1>8. ASSUME NEW s \in 1 .. MaxSets, NEW p \in 1 .. MaxPlays,
             NEW q \in Quantities, BatchMintMoment(s, p, q)
      PROVE  Goal
  <2> DEFINE n == sets[s].numberMintedPerPlay[p]
  <2>1. s \in DOMAIN sets /\ p \in DOMAIN sets[s].retired /\ q \in Nat \ {0}
    BY <1>8, BoundsAssumption DEF BatchMintMoment, Mintable
  <2>2. n \in Nat
    BY <1>0, <2>1, SetFields
  <2>3. Mints(s, p, Plain, n, q)
    BY <1>8, <2>1, <2>2 DEF Mints, BatchMintMoment
  <2> QED BY <2>3
<1>9. ASSUME NEW s \in 1 .. MaxSets, NEW p \in 1 .. MaxPlays,
             NEW q \in Quantities, NEW sub \in SubeditionIds,
             BatchMintMomentWithSubedition(s, p, q, sub)
      PROVE  Goal
  <2> DEFINE n == NumberMinted(SubeditionKey(s, p, sub))
  <2>1. /\ s \in DOMAIN sets /\ p \in DOMAIN sets[s].retired
        /\ q \in Nat \ {0} /\ sub # Plain
    BY <1>9, BoundsAssumption, SubeditionAssumption
       DEF Plain, BatchMintMomentWithSubedition, Mintable
  <2>2. n \in Nat
    BY <1>0 DEF EditionsTypeOK, NumberMinted
  <2>3. Mints(s, p, sub, n, q)
    BY <1>9, <2>1, <2>2 DEF Mints, BatchMintMomentWithSubedition
  <2> QED BY <2>3
<1> HIDE DEF Goal
<1>10. MintsNothing => Goal
  BY DEF Goal
<1>11. Goal
  BY <1>1, <1>2, <1>3, <1>5, <1>6, <1>7, <1>8, <1>9, <1>10
     DEF Next, vars, setVars, supplyVars, CreatePlay, UpdatePlayTagline,
         StartNewSeries, CreateSubeditionAdminResource, CreateSubedition,
         SetMomentsSubedition, Goal
<1> QED BY <1>11 DEF Goal

\* What a minting does to the editions: the one minted from grows by the
\* batch, the others are left alone.
LEMMA MintsEffect ==
    ASSUME EditionInv, NEW s, NEW p, NEW sub, NEW n, NEW q,
           Mints(s, p, sub, n, q)
    PROVE  /\ OfEdition(s, p)' = OfEdition(s, p) \cup NewMoments(s, p, sub, n, q)
           /\ \A t, r : ~ (t = s /\ r = p) => OfEdition(t, r)' = OfEdition(t, r)
           /\ \A m \in minted : m.momentID \in 1 .. totalSupply
           /\ \A m \in NewMoments(s, p, sub, n, q) :
                 /\ m.setID = s /\ m.playID = p /\ m.subedition = sub
                 /\ m.momentID \in totalSupply + 1 .. totalSupply + q
                 /\ m.serialNumber \in n + 1 .. n + q
                 /\ m.serialNumber - n = m.momentID - totalSupply
<1>1. totalSupply \in Nat /\ n \in Nat /\ q \in Nat
  BY DEF Mints, EditionInv, EditionsTypeOK
<1>2. \A m \in minted : m.momentID \in 1 .. totalSupply
  BY DEF EditionInv, EditionsTypeOK
<1> DEFINE new == NewMoments(s, p, sub, n, q)
<1>3. \A m \in new :
         /\ m.setID = s /\ m.playID = p /\ m.subedition = sub
         /\ m.momentID \in totalSupply + 1 .. totalSupply + q
         /\ m.serialNumber \in n + 1 .. n + q
         /\ m.serialNumber - n = m.momentID - totalSupply
  BY <1>1, NewMomentsValue
<1>4. minted' = minted \cup new
  BY DEF Mints
<1> HIDE DEF new
<1>5. OfEdition(s, p)' = OfEdition(s, p) \cup new
  BY <1>3, <1>4 DEF OfEdition
<1>6. ASSUME NEW t, NEW r, ~ (t = s /\ r = p)
      PROVE  OfEdition(t, r)' = OfEdition(t, r)
  BY <1>3, <1>4, <1>6 DEF OfEdition
<1> QED BY <1>2, <1>3, <1>5, <1>6 DEF new

\* The Moments minted are finitely many, and the counts are right.
CountsInv == EditionInv /\ IsFiniteSet(minted) /\ EditionCounts

LEMMA OfEditionFinite ==
    ASSUME IsFiniteSet(minted), NEW s, NEW p
    PROVE  IsFiniteSet(OfEdition(s, p))
BY FS_Subset DEF OfEdition

\* Every step keeps the counts.
LEMMA StepKeepsCounts ==
    ASSUME CountsInv, [Next]_vars
    PROVE  IsFiniteSet(minted)' /\ EditionCounts'
<1>0. EditionInv /\ EditionsTypeOK /\ IsFiniteSet(minted)
  BY DEF CountsInv, EditionInv
<1>1. CASE MintsNothing
  <2>1. \A s, p : OfEdition(s, p)' = OfEdition(s, p)
    BY <1>1 DEF MintsNothing, OfEdition
  <2>2. ASSUME NEW s \in DOMAIN sets',
               NEW p \in DOMAIN sets'[s].numberMintedPerPlay,
               ~ (s \in DOMAIN sets
                    /\ p \in DOMAIN sets[s].numberMintedPerPlay)
        PROVE  OfEdition(s, p) = {}
    <3>1. ASSUME NEW m \in minted
          PROVE  /\ m.setID \in DOMAIN sets
                 /\ m.playID \in DOMAIN sets[m.setID].numberMintedPerPlay
      <4>1. m.setID \in DOMAIN sets
        BY SetsTyped, <1>0 DEF EditionsTypeOK
      <4>2. m.playID \in DOMAIN sets[m.setID].retired
        BY <1>0 DEF EditionInv, CountersAhead
      <4> QED BY <1>0, <4>1, <4>2, SetFields
    <3> QED BY <2>2, <3>1 DEF OfEdition
  <2>3. Cardinality({}) = 0
    BY FS_EmptySet
  <2>4. ASSUME NEW s \in DOMAIN sets',
               NEW p \in DOMAIN sets'[s].numberMintedPerPlay
        PROVE  sets'[s].numberMintedPerPlay[p] = Cardinality(OfEdition(s, p))
    <3>1. CASE s \in DOMAIN sets /\ p \in DOMAIN sets[s].numberMintedPerPlay
      BY <1>1, <3>1 DEF MintsNothing, CountsInv, EditionCounts
    <3>2. CASE ~ (s \in DOMAIN sets
                    /\ p \in DOMAIN sets[s].numberMintedPerPlay)
      <4>1. sets'[s].numberMintedPerPlay[p] = 0
        BY <1>1, <2>4, <3>2 DEF MintsNothing
      <4>2. OfEdition(s, p) = {}
        BY <2>2, <2>4, <3>2
      <4> QED BY <2>3, <4>1, <4>2
    <3> QED BY <3>1, <3>2
  <2>5. EditionCounts'
    BY <2>1, <2>4 DEF EditionCounts
  <2> QED BY <1>0, <1>1, <2>5 DEF MintsNothing
<1>2. ASSUME NEW s, NEW p, NEW sub, NEW n, NEW q, Mints(s, p, sub, n, q)
      PROVE  IsFiniteSet(minted)' /\ EditionCounts'
  <2> DEFINE new == NewMoments(s, p, sub, n, q)
             old == OfEdition(s, p)
             c == sets[s].numberMintedPerPlay[p]
  <2>1. /\ s \in DOMAIN sets /\ p \in DOMAIN sets[s].retired
        /\ n \in Nat /\ q \in Nat /\ totalSupply \in Nat
        /\ minted' = minted \cup new
        /\ sets' = [sets EXCEPT ![s].numberMintedPerPlay[p] = @ + q]
    BY <1>0, <1>2 DEF Mints, EditionsTypeOK
  <2>2. IsFiniteSet(new) /\ Cardinality(new) = q
    BY <2>1, BatchCount
  <2>3. /\ OfEdition(s, p)' = old \cup new
        /\ \A t, r : ~ (t = s /\ r = p) => OfEdition(t, r)' = OfEdition(t, r)
        /\ \A m \in minted : m.momentID \in 1 .. totalSupply
        /\ \A m \in new : m.momentID \in totalSupply + 1 .. totalSupply + q
    BY <1>0, <1>2, MintsEffect
  <2>4. /\ DOMAIN sets[s].numberMintedPerPlay = DOMAIN sets[s].retired
        /\ c \in Nat
    BY <1>0, <2>1, SetFields
  <2>5. c = Cardinality(old)
    BY <2>1, <2>4 DEF CountsInv, EditionCounts
  <2>6. /\ sets' \in [1 .. nextSetID - 1 -> SetResource]
        /\ sets'[s].retired = sets[s].retired
        /\ sets'[s].numberMintedPerPlay[p] = c + q
        /\ \A r \in DOMAIN sets[s].retired \ {p} :
              sets'[s].numberMintedPerPlay[r] = sets[s].numberMintedPerPlay[r]
        /\ \A t \in DOMAIN sets \ {s} : sets'[t] = sets[t]
    BY <1>0, <2>1, CountEffect
  <2>7. /\ DOMAIN sets' = DOMAIN sets
        /\ DOMAIN sets'[s].numberMintedPerPlay = DOMAIN sets[s].retired
    <3>1. sets \in [1 .. nextSetID - 1 -> SetResource]
      BY <1>0, SetsTyped DEF EditionsTypeOK
    <3>2. s \in 1 .. nextSetID - 1 /\ sets'[s] \in SetResource
      BY <2>1, <2>6, <3>1
    <3> QED BY <2>6, <3>1, <3>2, ResourceDomains
  <2> HIDE DEF new
  <2>8. old \cap new = {}
    <3>1. ASSUME NEW m \in old, m \in new PROVE FALSE
      <4>1. m \in minted
        BY DEF OfEdition
      <4> QED BY <2>1, <2>3, <3>1, <4>1
    <3> QED BY <3>1
  <2>9. IsFiniteSet(old)
    BY <1>0, OfEditionFinite
  <2> HIDE DEF old, c
  <2>10. Cardinality(old \cup new) = c + q
    <3>1. /\ Cardinality(old \cup new) =
                Cardinality(old) + Cardinality(new) - Cardinality(old \cap new)
      BY <2>2, <2>9, FS_Union
    <3>2. Cardinality(old \cap new) = 0
      BY <2>8, FS_EmptySet
    <3> QED BY <2>1, <2>2, <2>4, <2>5, <3>1, <3>2
  <2>11. IsFiniteSet(minted')
    BY <1>0, <2>1, <2>2, FS_Union
  <2>12. ASSUME NEW t \in DOMAIN sets',
                NEW r \in DOMAIN sets'[t].numberMintedPerPlay
         PROVE  sets'[t].numberMintedPerPlay[r] = Cardinality(OfEdition(t, r)')
    <3>1. CASE t = s /\ r = p
      BY <2>3, <2>6, <2>10, <3>1
    <3>2. CASE t = s /\ r # p
      <4>1. sets'[t].numberMintedPerPlay[r] = sets[t].numberMintedPerPlay[r]
        BY <2>6, <2>7, <2>12, <3>2
      <4>2. t \in DOMAIN sets /\ r \in DOMAIN sets[t].numberMintedPerPlay
        BY <2>1, <2>4, <2>7, <2>12, <3>2
      <4>3. OfEdition(t, r)' = OfEdition(t, r)
        BY <2>3, <3>2
      <4> QED BY <4>1, <4>2, <4>3 DEF CountsInv, EditionCounts
    <3>3. CASE t # s
      <4>1. t \in DOMAIN sets /\ sets'[t] = sets[t]
        BY <2>6, <2>7, <2>12, <3>3
      <4>2. OfEdition(t, r)' = OfEdition(t, r)
        BY <2>3, <3>3
      <4> QED BY <2>12, <4>1, <4>2 DEF CountsInv, EditionCounts
    <3> QED BY <3>1, <3>2, <3>3
  <2>13. EditionCounts'
    BY <2>12 DEF EditionCounts
  <2> QED BY <2>11, <2>13
<1> QED BY <1>0, <1>1, <1>2, StepMints

\* A minting keeps the places of the earlier plain Moments of an edition, and
\* gives new ones the next places.
LEMMA MintsKeepsPlaces ==
    ASSUME CountsInv, PlainSerialsArePlaces,
           NEW s, NEW p, NEW sub, NEW n, NEW q, Mints(s, p, sub, n, q),
           NEW m \in minted', m.subedition = Plain
    PROVE  m.serialNumber =
              Cardinality({ k \in OfEdition(m.setID, m.playID)' :
                               k.momentID <= m.momentID })
<1> DEFINE new == NewMoments(s, p, sub, n, q)
           old == OfEdition(s, p)
           c == sets[s].numberMintedPerPlay[p]
<1>0. EditionInv /\ EditionsTypeOK /\ IsFiniteSet(minted)
  BY DEF CountsInv, EditionInv
<1>1. /\ s \in DOMAIN sets /\ p \in DOMAIN sets[s].retired
      /\ n \in Nat /\ q \in Nat \ {0} /\ totalSupply \in Nat
      /\ minted' = minted \cup new
      /\ sub = Plain => n = c
  BY <1>0 DEF Mints, EditionsTypeOK
<1>2. /\ OfEdition(s, p)' = old \cup new
      /\ \A t, r : ~ (t = s /\ r = p) => OfEdition(t, r)' = OfEdition(t, r)
      /\ \A k \in minted : k.momentID \in 1 .. totalSupply
      /\ \A k \in new :
            /\ k.setID = s /\ k.playID = p /\ k.subedition = sub
            /\ k.momentID \in totalSupply + 1 .. totalSupply + q
            /\ k.serialNumber \in n + 1 .. n + q
            /\ k.serialNumber - n = k.momentID - totalSupply
  BY <1>0, MintsEffect
<1>3. c = Cardinality(old)
  <2>1. p \in DOMAIN sets[s].numberMintedPerPlay
    BY <1>0, <1>1, SetFields
  <2> QED BY <1>1, <2>1 DEF CountsInv, EditionCounts
<1>4. c \in Nat
  BY <1>0, <1>1, SetFields
<1>5. IsFiniteSet(new) /\ Cardinality(new) = q
  BY <1>1, BatchCount
<1>6. ASSUME NEW i \in 0 .. q
      PROVE  LET first == { k \in new : k.momentID <= totalSupply + i }
             IN  IsFiniteSet(first) /\ Cardinality(first) = i
  BY <1>1, NewMomentsCount
<1>7. IsFiniteSet(old)
  BY <1>0, OfEditionFinite
<1>8. \A k \in old : k \in minted /\ k.setID = s /\ k.playID = p
  BY DEF OfEdition
<1>9. ASSUME NEW t, NEW r, NEW k \in minted, k.setID = t, k.playID = r,
             k.subedition = Plain
      PROVE  k.serialNumber = Cardinality({ x \in OfEdition(t, r) :
                                               x.momentID <= k.momentID })
  BY <1>9 DEF PlainSerialsArePlaces
<1> HIDE DEF new, old, c
<1>10. CASE ~ (m.setID = s /\ m.playID = p)
  <2>1. m \in minted
    BY <1>1, <1>2, <1>10
  <2>2. OfEdition(m.setID, m.playID)' = OfEdition(m.setID, m.playID)
    BY <1>2, <1>10
  <2> QED BY <1>9, <2>1, <2>2
<1>11. CASE m.setID = s /\ m.playID = p
  <2>2. CASE m \in minted
    <3>1. m.serialNumber =
             Cardinality({ x \in OfEdition(s, p) : x.momentID <= m.momentID })
      BY <1>9, <1>11, <2>2 DEF old
    <3>2. \A k \in new : ~ (k.momentID <= m.momentID)
      BY <1>1, <1>2, <2>2
    <3>3. { x \in old \cup new : x.momentID <= m.momentID } =
             { x \in old : x.momentID <= m.momentID }
      BY <3>2
    <3> QED BY <1>2, <1>11, <3>1, <3>3 DEF old
  <2>3. CASE m \in new
    <3>1. n = c
      BY <1>1, <1>2, <2>3
    <3> DEFINE i == m.momentID - totalSupply
               first == { k \in new : k.momentID <= totalSupply + i }
    <3>2. i \in 0 .. q /\ totalSupply + i = m.momentID
      BY <1>1, <1>2, <2>3
    <3>3. IsFiniteSet(first) /\ Cardinality(first) = i
      BY <1>6, <3>2
    <3>4. m.serialNumber = n + i
      BY <1>1, <1>2, <2>3
    <3>5. \A k \in old : k.momentID <= m.momentID
      BY <1>1, <1>2, <1>8, <2>3
    <3>6. { x \in old \cup new : x.momentID <= m.momentID } = old \cup first
      BY <3>2, <3>5
    <3>7. old \cap first = {}
      <4>1. ASSUME NEW k \in old, k \in new PROVE FALSE
        BY <1>1, <1>2, <1>8, <4>1
      <4> QED BY <4>1
    <3> HIDE DEF first
    <3>8. Cardinality(old \cup first) =
             Cardinality(old) + Cardinality(first) - Cardinality(old \cap first)
      BY <1>7, <3>3, FS_Union
    <3>9. Cardinality(old \cap first) = 0
      BY <3>7, FS_EmptySet
    <3>10. Cardinality(old \cup first) = c + i
      <4> HIDE DEF i
      <4>1. i \in Nat
        BY <3>2
      <4> QED BY <1>3, <1>4, <3>3, <3>8, <3>9, <4>1
    <3> QED BY <1>2, <1>11, <3>1, <3>4, <3>6, <3>10
  <2> QED BY <1>1, <2>2, <2>3
<1> QED BY <1>10, <1>11

LEMMA StepKeepsPlaces ==
    ASSUME CountsInv, PlainSerialsArePlaces, [Next]_vars
    PROVE  PlainSerialsArePlaces'
<1>0. EditionInv
  BY DEF CountsInv
<1>1. CASE MintsNothing
  BY <1>1 DEF MintsNothing, PlainSerialsArePlaces, OfEdition
<1>2. ASSUME NEW s, NEW p, NEW sub, NEW n, NEW q, Mints(s, p, sub, n, q)
      PROVE  PlainSerialsArePlaces'
  BY <1>2, MintsKeepsPlaces DEF PlainSerialsArePlaces
<1> QED BY <1>0, <1>1, <1>2, StepMints

\* What is recorded of a Moment stays recorded, and a batch is recorded.
LEMMA StepKeepsRecords ==
    ASSUME EditionInv, SubeditionsAreRecorded, [Next]_vars
    PROVE  SubeditionsAreRecorded'
<1>0. EditionsTypeOK
  BY DEF EditionInv
<1>1. ASSUME NEW S, NEW v, momentsSubedition' = Extended(momentsSubedition, S, v)
      PROVE  /\ DOMAIN momentsSubedition' = DOMAIN momentsSubedition \cup S
             /\ \A id \in DOMAIN momentsSubedition :
                   momentsSubedition'[id] = momentsSubedition[id]
             /\ \A id \in S \ DOMAIN momentsSubedition :
                   momentsSubedition'[id] = v
  BY <1>1 DEF Extended
<1>2. CASE UNCHANGED << minted, momentsSubedition >>
  BY <1>2 DEF SubeditionsAreRecorded
<1>3. ASSUME NEW id, NEW sub \in SubeditionIds, SetMomentsSubedition(id, sub)
      PROVE  SubeditionsAreRecorded'
  <2>1. /\ minted' = minted
        /\ momentsSubedition' = Extended(momentsSubedition, {id}, sub)
    BY <1>3 DEF SetMomentsSubedition, supplyVars
  <2>2. /\ DOMAIN momentsSubedition' = DOMAIN momentsSubedition \cup {id}
        /\ \A k \in DOMAIN momentsSubedition :
              momentsSubedition'[k] = momentsSubedition[k]
    BY <1>1, <2>1
  <2> QED BY <2>1, <2>2 DEF SubeditionsAreRecorded
<1>4. ASSUME NEW s \in 1 .. MaxSets, NEW p \in 1 .. MaxPlays,
             NEW q \in Quantities, NEW sub \in SubeditionIds,
             BatchMintMomentWithSubedition(s, p, q, sub)
      PROVE  SubeditionsAreRecorded'
  <2> DEFINE n == NumberMinted(SubeditionKey(s, p, sub))
             new == NewMoments(s, p, sub, n, q)
             ids == { m.momentID : m \in new }
  <2>1. /\ ids \cap DOMAIN momentsSubedition = {}
        /\ minted' = minted \cup new
        /\ momentsSubedition' = Extended(momentsSubedition, ids, sub)
    BY <1>4 DEF BatchMintMomentWithSubedition
  <2>2. n \in Nat /\ q \in Nat /\ totalSupply \in Nat
    BY <1>0, BoundsAssumption DEF EditionsTypeOK, NumberMinted
  <2>3. \A m \in new : m.subedition = sub
    <3> HIDE DEF n
    <3> QED BY <2>2, NewMomentsValue
  <2>4. \A m \in new : m.momentID \in ids
    OBVIOUS
  <2> HIDE DEF new, ids
  <2>5. /\ DOMAIN momentsSubedition' = DOMAIN momentsSubedition \cup ids
        /\ \A id \in DOMAIN momentsSubedition :
              momentsSubedition'[id] = momentsSubedition[id]
        /\ \A id \in ids \ DOMAIN momentsSubedition :
              momentsSubedition'[id] = sub
    BY <1>1, <2>1
  <2>6. ASSUME NEW m \in new
        PROVE  /\ m.momentID \in DOMAIN momentsSubedition'
               /\ momentsSubedition'[m.momentID] = m.subedition
    BY <2>1, <2>3, <2>4, <2>5
  <2>7. ASSUME NEW m \in minted, m.subedition # Plain
        PROVE  /\ m.momentID \in DOMAIN momentsSubedition'
               /\ momentsSubedition'[m.momentID] = m.subedition
    BY <2>5, <2>7 DEF SubeditionsAreRecorded
  <2> QED BY <2>1, <2>6, <2>7 DEF SubeditionsAreRecorded
<1>5. ASSUME NEW s \in 1 .. MaxSets, NEW p \in 1 .. MaxPlays,
             NEW q \in Quantities, BatchMintMoment(s, p, q)
      PROVE  SubeditionsAreRecorded'
  <2> DEFINE n == sets[s].numberMintedPerPlay[p]
             new == NewMoments(s, p, Plain, n, q)
  <2>1. minted' = minted \cup new /\ momentsSubedition' = momentsSubedition
    BY <1>5 DEF BatchMintMoment, subeditionVars
  <2>2. n \in Nat /\ q \in Nat /\ totalSupply \in Nat
    <3>1. s \in DOMAIN sets /\ p \in DOMAIN sets[s].retired
      BY <1>5 DEF BatchMintMoment, Mintable
    <3> QED BY <1>0, <3>1, BoundsAssumption, SetFields DEF EditionsTypeOK
  <2>3. \A m \in new : m.subedition = Plain
    <3> HIDE DEF n
    <3> QED BY <2>2, NewMomentsValue
  <2> HIDE DEF new
  <2> QED BY <2>1, <2>3 DEF SubeditionsAreRecorded
<1> QED BY <1>2, <1>3, <1>4, <1>5
        DEF Next, vars, supplyVars, subeditionVars, CreatePlay,
            UpdatePlayTagline, CreateSet, StartNewSeries, AddPlays,
            RetirePlay, RetireAll, Retire, LockSet,
            CreateSubeditionAdminResource, CreateSubedition

\* The inductive invariant of what is counted and recorded: the counts need
\* the Plays of a Moment's Set, the places need the counts.
CatalogInv == CountsInv /\ PlainSerialsArePlaces /\ SubeditionsAreRecorded

THEOREM CatalogInvariance == Spec => []CatalogInv
<1>1. Init => CatalogInv
  <2> SUFFICES ASSUME Init PROVE CatalogInv
    OBVIOUS
  <2>1. EditionInv
    BY InitEditionInv
  <2>2. minted = {} /\ DOMAIN sets = {}
    BY DEF Init, NoEntries
  <2>3. IsFiniteSet(minted)
    BY <2>2, FS_EmptySet
  <2>4. EditionCounts /\ PlainSerialsArePlaces /\ SubeditionsAreRecorded
    BY <2>2 DEF EditionCounts, PlainSerialsArePlaces,
                SubeditionsAreRecorded
  <2> QED BY <2>1, <2>3, <2>4 DEF CatalogInv, CountsInv
<1>2. EditionInv' /\ CatalogInv /\ [Next]_vars => CatalogInv'
  <2> SUFFICES ASSUME EditionInv', CatalogInv, [Next]_vars
               PROVE  CatalogInv'
    OBVIOUS
  <2>1. /\ CountsInv /\ EditionInv
        /\ PlainSerialsArePlaces /\ SubeditionsAreRecorded
    BY DEF CatalogInv, CountsInv
  <2>2. CountsInv'
    BY <2>1, StepKeepsCounts DEF CountsInv
  <2>3. PlainSerialsArePlaces'
    BY <2>1, StepKeepsPlaces
  <2>4. SubeditionsAreRecorded'
    BY <2>1, StepKeepsRecords
  <2> QED BY <2>2, <2>3, <2>4 DEF CatalogInv
<1> QED BY <1>1, <1>2, EditionInvariance, PTL DEF Spec

\* An edition's count is the number of Moments minted from it, whatever
\* plain mintings and subeditions are mixed.
THEOREM EditionsAreCounted == Spec => []EditionCounts
<1>1. CatalogInv => EditionCounts
  BY DEF CatalogInv, CountsInv
<1> QED BY <1>1, CatalogInvariance, PTL

\* The serial number of a plain Moment is its place in the edition, however
\* plain mintings and subeditions are mixed.
THEOREM SerialsArePlaces == Spec => []PlainSerialsArePlaces
<1>1. CatalogInv => PlainSerialsArePlaces
  BY DEF CatalogInv
<1> QED BY <1>1, CatalogInvariance, PTL

\* A Moment minted with a subedition is recorded as belonging to it for good.
THEOREM SubeditionsStay == Spec => []SubeditionsAreRecorded
<1>1. CatalogInv => SubeditionsAreRecorded
  BY DEF CatalogInv
<1> QED BY <1>1, CatalogInvariance, PTL
=============================================================================
