---- MODULE MCAdmission ----
(* Small instances of Admission for TLC. *)
EXTENDS Admission, TLC

(* A host whose limit, 1399.1 MB before it is truncated, is one MB short of *)
(* the databases of four tenants.                                           *)
JustBelowFour == 2176 * 1024

K(b, t, d) == [broker |-> b, tier |-> t, direction |-> d]

(* Both brokers, and keys that some check must refuse. *)
MixedKeys == {K("mosquitto", "low", "uni"), K("emqx", "mid", "bi"),
              K("mosquitto", "mid", "uni"), K("other", "low", "uni")}

SmallKeys == {K("emqx", "mid", "uni")}

IdSymmetry == Permutations(Tenants) \cup Permutations(Sites) \cup Permutations(Requests)
====
