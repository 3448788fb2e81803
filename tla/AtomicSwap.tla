------------------------------ MODULE AtomicSwap ------------------------------
(***************************************************************************)
(* What a swap market promises, without collections, links or locks: every *)
(* Moment has at most one holder, and changes hands only when its holder   *)
(* gives it away or when a deal on the table is settled, in full and all   *)
(* at once.  Every settlement is announced (settled), so that half a       *)
(* settlement cannot pass for a gift.                                      *)
(***************************************************************************)
CONSTANTS
    Party, Moment, DealId,
    Nobody     \* no Party; the module that instantiates this one says so

VARIABLES
    issued,   \* the Moments that were ever brought into being
    holder,   \* who holds each Moment, or Nobody
    deals,    \* the deals that are on the table
    settled   \* the deal that was settled last, if nothing happened since

marketVars == << issued, holder, deals, settled >>

Deal == [ id : DealId, left : Party, give : SUBSET Moment,
          right : Party, take : SUBSET Moment ]

MarketTypeOK ==
    /\ issued \subseteq Moment
    /\ holder \in [Moment -> Party \cup {Nobody}]
    /\ deals \subseteq Deal
    /\ settled \subseteq Deal

\* Both sides of the deal hold what they are to part with.
Covered(d) ==
    /\ \A m \in d.give : holder[m] = d.left
    /\ \A m \in d.take : holder[m] = d.right

MarketInit ==
    /\ issued = {}
    /\ holder = [m \in Moment |-> Nobody]
    /\ deals = {}
    /\ settled = {}

Issue(a, S) ==
    /\ S \cap issued = {}
    /\ issued' = issued \cup S
    /\ holder' = [m \in Moment |-> IF m \in S THEN a ELSE holder[m]]
    /\ settled' = {}
    /\ UNCHANGED deals

Give(a, b, m) ==
    /\ holder[m] = a
    /\ holder' = [holder EXCEPT ![m] = b]
    /\ settled' = {}
    /\ UNCHANGED << issued, deals >>

\* a gives up all its Moments for good: an issued Moment is not issued again.
Burn(a) ==
    /\ holder' = [m \in Moment |-> IF holder[m] = a THEN Nobody
                                                    ELSE holder[m]]
    /\ settled' = {}
    /\ UNCHANGED << issued, deals >>

\* A deal is put on the table only while it is covered, under a name its
\* proposer has not in use.
Propose(d) ==
    /\ Covered(d)
    /\ \A e \in deals : e.left = d.left => e.id # d.id
    /\ deals' = deals \cup {d}
    /\ settled' = {}
    /\ UNCHANGED << issued, holder >>

Retract(d) ==
    /\ deals' = deals \ {d}
    /\ settled' = {}
    /\ UNCHANGED << issued, holder >>

\* A settled deal stays on the table, and may be settled again if covered.
Settle(d) ==
    /\ Covered(d)
    /\ holder' = [m \in Moment |-> CASE m \in d.take -> d.left
                                     [] m \in d.give \ d.take -> d.right
                                     [] OTHER -> holder[m]]
    /\ settled' = {d}
    /\ UNCHANGED << issued, deals >>

\* Something happened that is none of the market's business.
Elsewhere == settled' = {} /\ UNCHANGED << issued, holder, deals >>

MarketNext ==
    \/ Elsewhere
    \/ \E a \in Party, S \in SUBSET Moment : Issue(a, S)
    \/ \E a, b \in Party, m \in Moment : Give(a, b, m)
    \/ \E a \in Party : Burn(a)
    \/ \E d \in deals : Retract(d) \/ Settle(d)
    \/ \E d \in Deal : Propose(d)

MarketSpec == MarketInit /\ [][MarketNext]_marketVars
=============================================================================
