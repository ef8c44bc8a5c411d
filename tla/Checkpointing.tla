--------------------------- MODULE Checkpointing ---------------------------
(***************************************************************************)
(* What checkpoint and resume promise: however often a match dies, it      *)
(* comes back as it was at the last boundary that was saved, and saving a  *)
(* boundary is the only thing that changes what it comes back as.          *)
(***************************************************************************)
CONSTANTS Nothing  \* no boundary has been saved

VARIABLES
  now,    \* the match
  saved,  \* what a resume brings back
  leg     \* "down", or how the process that runs was started

vars == <<now, saved, leg>>

Init == leg = "begun" /\ saved = Nothing

Work == leg # "down" /\ UNCHANGED <<saved, leg>>

Save == leg # "down" /\ saved' = now /\ UNCHANGED <<now, leg>>

Stop == leg # "down" /\ leg' = "down" /\ UNCHANGED saved

Begin == leg = "down" /\ leg' = "begun" /\ UNCHANGED saved

Resume ==
  /\ leg = "down" /\ saved # Nothing
  /\ leg' = "resumed" /\ now' = saved /\ UNCHANGED saved

Next == Work \/ Save \/ Stop \/ Begin \/ Resume

Spec == Init /\ [][Next]_vars
=============================================================================
