------------------------------ MODULE Transfer ------------------------------
(***************************************************************************)
(* What a binary chunk is for: the tree of functions the compiler sends is *)
(* received, whole, unchanged and once.  If none is sent none is received. *)
(***************************************************************************)
CONSTANT Nothing
VARIABLES sent, received

Init == sent = Nothing /\ received = Nothing

Send == sent = Nothing /\ sent' # Nothing /\ UNCHANGED received

Receive == /\ sent # Nothing /\ received = Nothing
           /\ received' = sent
           /\ UNCHANGED sent

(* What is sent arrives: said directly, for sent may be an expression of    *)
(* the state that implements this, of which no next value can be chosen.   *)
Arrives == sent # Nothing ~> received = sent

Safety == Init /\ [][Send \/ Receive]_<<sent, received>>
Spec == Safety /\ Arrives
=============================================================================
