------------------------------- MODULE MCKeys -------------------------------
(* The keyboards of the runs: a letter, left shift, caps lock and the right arrow. *)
EXTENDS TLC

MCCodes == {28, 18, 88}
MCBytes == MCCodes \cup {116, 240, 224}

MCNormalKeys ==
  [b \in MCBytes |-> CASE b = 28 -> "A" [] b = 18 -> "LSHIFT" [] b = 88 -> "CAPSLOCK"
                       [] b = 116 -> "NP6" [] OTHER -> "KEY_UNKNOWN"]

MCExtendedKeys ==
  [b \in MCBytes |-> IF b = 116 THEN "RIGHT" ELSE "KEY_UNKNOWN"]
=============================================================================
