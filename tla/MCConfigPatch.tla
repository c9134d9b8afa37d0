--------------------------- MODULE MCConfigPatch ---------------------------
(* ConfigPatch for TLC: f1 gives every key the user's value u1, any other  *)
(* file is absent.  Either one journal writes two values, or two journals  *)
(* write one each.                                                         *)
EXTENDS ConfigPatch, TLC

CONSTANTS f1, u1, j1, j2, g1, g2

MCOriginal == [f \in Files |-> IF f = f1 THEN [k \in Keys |-> u1] ELSE Absent]

OneGateway == (j1 :> {g1, g2})
TwoGateways == (j1 :> {g1} @@ j2 :> {g2})

(* Values of one journal are alike; with two journals, exchanging the      *)
(* journals exchanges their values.                                        *)
OneSymmetry == {p @@ q : p \in Permutations(Keys), q \in Permutations({g1, g2})}
TwoSymmetry ==
    {p @@ q : p \in Permutations(Keys),
              q \in {j1 :> j1 @@ j2 :> j2 @@ g1 :> g1 @@ g2 :> g2,
                     j1 :> j2 @@ j2 :> j1 @@ g1 :> g2 @@ g2 :> g1}}

=============================================================================
