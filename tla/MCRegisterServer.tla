-------------------------- MODULE MCRegisterServer --------------------------
(***************************************************************************)
(* Instances of RegisterServer for TLC.                                    *)
(***************************************************************************)
EXTENDS RegisterServer, TLC

CONSTANTS linux, h1, h2, w1, w2, w3, m1

\* Sessions are alike; so are the two workers of OneHost and of the first host
\* of TwoAndOne, where both may do the same.
SessionsAlike == Permutations(Sessions)
Alike == SessionsAlike \cup Permutations({w1, w2})

OneOs == h1 :> linux
TwoHosts == h1 :> linux @@ h2 :> linux

OneWorker == w1 :> h1
OneHost == w1 :> h1 @@ w2 :> h1
TwoAndOne == w1 :> h1 @@ w2 :> h1 @@ w3 :> h2

AllOrOne == {-1, 1}
OnlyOne == {1}
=============================================================================
