-------------------------- MODULE MCImplicitQueue ---------------------------
(***************************************************************************)
(* ImplicitQueue for TLC. The index wraps only in long behaviours, and     *)
(* races need several consumers at a time; a behaviour that is long has    *)
(* one call of a consumer at a time. The consumers are alike, and so are   *)
(* the blocks.                                                             *)
(***************************************************************************)
EXTENDS ImplicitQueue, TLC

CONSTANT ShortElements      \* bound: elements enqueued in a short behaviour

ASSUME ShortAssumption == ShortElements \in 0 .. MaxElements

VARIABLE long

Calls == {c \in Consumers : cpc[c] # "idle"}

MCInit == Init /\ long \in BOOLEAN

MCNext ==
    /\ Next
    /\ IF long THEN Cardinality(Calls') <= 1
               ELSE enqueued' + call'.count <= ShortElements
    /\ UNCHANGED long

MCSpec == MCInit /\ [][MCNext]_<<vars, long>>

Symmetry == Permutations(Consumers) \union Permutations(Blocks)
=============================================================================
