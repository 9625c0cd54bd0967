------------------------------ MODULE Mapping ------------------------------
(* What a Lua table is to a program: a value for every key, none at first, *)
(* and assignments that change the value of one key.                       *)
CONSTANTS Keys, Values, Empty
VARIABLE contents

MappingInit == contents = [k \in Keys |-> Empty]
Assign(k) == /\ \A j \in Keys \ {k} : contents'[j] = contents[j]
             /\ contents'[k] \in Values \cup {Empty}
MappingNext == \E k \in Keys : Assign(k)
MappingSpec == MappingInit /\ [][MappingNext]_contents
=============================================================================
