------------------- MODULE MCTargetGroupBindingController -------------------
(* TargetGroupBindingController for TLC. *)
EXTENDS TargetGroupBindingController, TLC

\* The missing rules are added one by one.
OneByOne == {{rule} : rule \in Needed}

SomeService == CHOOSE s \in Services : TRUE
SliceOwner == [e \in Slices |-> SomeService]

Symmetry == Permutations(Workers)
=============================================================================
