------------------------------- MODULE MCMatching -------------------------------
\* Matching for TLC: two users, each with a device and a Moment to trade.
EXTENDS Matching, TLC

CONSTANTS u1, u2, m1, m2, d1, d2

OwnDevice     == (d1 :> {u1} @@ d2 :> {u2})
\* Users change places together with their devices and Moments.
UserSymmetry == {(u1 :> u2 @@ u2 :> u1) @@ (m1 :> m2 @@ m2 :> m1)
                    @@ (d1 :> d2 @@ d2 :> d1)}
OneMomentEach == (u1 :> {<< m1 >>} @@ u2 :> {<< m2 >>})
=============================================================================
