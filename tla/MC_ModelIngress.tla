-------------------------- MODULE MC_ModelIngress --------------------------
\* Model values of the runs of ModelIngress, and what they check together.
EXTENDS ModelIngress
CONSTANTS c1, c2, c3

ThreeCallers == {c1, c2, c3}
OneRequest == {c3}

(* Nobody overtakes in its lane, and whoever waits gets a slot, gives up or *)
(* is refused, unless somebody keeps one for ever: a request whose client   *)
(* stays while the model does not answer, or the conversation.  So a        *)
(* talkative user does not starve the workers (model_admission.py 115-145,  *)
(* 377).                                                                    *)
NobodyStarves ==
  /\ FirstComeFirstServed
  /\ WaitersAreServed \/ \E c \in Callers : <>[](Owns(c) /\ (c \in Requests => ~gone[c]))

(* A client that is gone gives its slot back, and so does everybody when   *)
(* the service closes, however unresponsive the model is                   *)
(* (model_admission.py 377-390, 91-101).                                   *)
SlotsComeFree == DisconnectFrees /\ CloseFrees

=============================================================================
