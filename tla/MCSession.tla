------------------------------- MODULE MCSession -------------------------------
\* Session for TLC: two users of one device, two calls of login at a time.
EXTENDS Session

CONSTANTS alice, bob, login1, login2

TwoUsers  == {alice, bob}
TwoLogins == {login1, login2}

\* Only alice has a wallet besides the app.  A collection is destroyed, and a
\* transaction left alone, which one is at a time, only while nothing
\* irregular has happened.  The second call is one of bob's that starts while
\* the first is under way and no transaction is left alone.
OneWallet ==
    /\ publicLink'[bob] # WalletLink
    /\ \A a \in collectionStored \ collectionStored' :
          a = alice /\ "irregular" \notin mishaps
    /\ LET alone  == { t \in sent : t.by = NoHandler }
           alone2 == { t \in sent' : t.by = NoHandler }
       IN  /\ Cardinality(alone2) <= 1
           /\ "irregular" \in mishaps =>
                 Cardinality(alone2) <= Cardinality(alone)
    /\ login2 \in Underway' \ Underway =>
          login1 \in Underway /\ \A t \in sent : t.by # NoHandler
    /\ logins'[login2].user # alice

HouseholdSpec ==
    /\ SessionInit
    /\ [][SessionNext /\ OneWallet]_sessionVars
    /\ SessionFairness
=============================================================================
