---------------------------- MODULE MCPaymentFlow ----------------------------
(* Two payments of one player, with requests that meet on the first of them; *)
(* and one payment, with a request of another session and a join request.    *)
EXTENDS PaymentFlow, TLC

CONSTANTS u1, s1, s2, r1, r2, c1, c2, c3

MCUserOf  == (s1 :> u1) @@ (s2 :> u1)

TwoPayer   == (r1 :> s1) @@ (r2 :> s1)
TwoCallRef == (c1 :> r1) @@ (c2 :> r1) @@ (c3 :> r2)
TwoCallBy  == (c1 :> s1) @@ (c2 :> s1) @@ (c3 :> s1)

OnePayer   == r1 :> s1
OneCallRef == (c1 :> r1) @@ (c2 :> r1)
OneCallBy  == (c1 :> s1) @@ (c2 :> s2)
=============================================================================
