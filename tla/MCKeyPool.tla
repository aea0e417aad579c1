----------------------------- MODULE MCKeyPool -----------------------------
(* Small instances of KeyPool.  m1 is offered by k1 only; k2 offers another *)
(* model, or is unrestricted.  r2 asks for m1 too, or lists the models.    *)
EXTENDS KeyPool, TLC

CONSTANTS k1, k2, e1, e2, r1, r2, m1, m2

K1First   == k1 :> 1
K1BeforeK2 == k1 :> 1 @@ k2 :> 2
AtE1 == k1 :> e1
AtE1AndE2 == k1 :> e1 @@ k2 :> e2
K1Offers    == k1 :> {m1}
K1OffersK2Other == k1 :> {m1} @@ k2 :> {m2}
K2Unrestricted == k1 :> {m1} @@ k2 :> {}
R1AsksM1   == r1 :> m1
BothAskM1  == r1 :> m1 @@ r2 :> m1
R2AsksNone == r1 :> m1 @@ r2 :> NoModel
LimitTwo    == k1 :> 2
K1NoLimit   == k1 :> 0
NoLimit     == k1 :> 0 @@ k2 :> 0

=============================================================================
