------------------------------ MODULE MCConfig ------------------------------
(* Config for TLC: which settings an instance has.                         *)
EXTENDS Config

\* One setting of each kind of setter; two addresses.
SomeKeys == <<"ip4", "use_ntp", "ntp_server">>
TwoAddresses == <<"ip4", "ip4_nm", "use_ntp", "ntp_server">>

\* Of the two strings one is too long for any field.
CutLong == [k \in CutKeys |-> [s \in Strings |-> "a"]]

\* The callers are alike.
CallerSymmetry == Permutations(Callers)

=============================================================================
