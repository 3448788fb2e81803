------------------------------ MODULE MCEditions ------------------------------
\* Editions for TLC.
EXTENDS Editions

CONSTANTS t1, t2

\* The catalog after MaxPlays times createPlay, one createSet, addPlays of
\* them all and createSubeditionAdminResource: enough Plays for ids of two
\* digits.
LargeCatalog ==
    LET plays == 1 .. MaxPlays
    IN  /\ currentSeries = 0
        /\ nextPlayID = MaxPlays + 1
        /\ playDatas = [p \in plays |-> t1]
        /\ nextSetID = 2
        /\ setDatas = (1 :> 0)
        /\ sets = (1 :> [ retired |-> [p \in plays |-> FALSE],
                          locked |-> FALSE,
                          numberMintedPerPlay |-> [p \in plays |-> 0] ])
        /\ subeditionAdmin = TRUE
        /\ nextSubeditionID = 1
        /\ numberMintedPerSubedition = NoEntries
        /\ momentsSubedition = NoEntries
        /\ totalSupply = 0 /\ minted = {}

LargeCatalogSpec == LargeCatalog /\ [][Next]_vars
=============================================================================
