--------------------------- MODULE MCPathManager ---------------------------
(* Instances of PathManager for TLC.                                       *)
EXTENDS PathManager, TLC

CONSTANTS a, b, c1, i1, i2, i3

Entry(kind, version) == [kind |-> kind, version |-> version]

(* Entries that come and go, change hot, change cold, and change places    *)
(* with the regular expression.                                            *)
RegistryConfigs ==
  { (a :> Entry("publisher", 2)) @@ (b :> Entry("publisher", 1)),
    (Pattern :> Entry("publisher", 1)),
    (a :> Entry("primary", 1)) @@ (b :> Entry("secondary", 1)) }

(* A path of its own entry, or of the regular expression. *)
MovingConfigs ==
  { (a :> Entry("publisher", 1)), (Pattern :> Entry("publisher", 1)),
    (a :> Entry("primary", 1)) }

InstanceSymmetry == Permutations(Instances)
=============================================================================
