-------------------------------- MODULE MCDisplay -------------------------------
(* Instance of Display for model checking: a string that is cut off. *)
EXTENDS Display

MCStrings == {<<"#", "#">>}
================================================================================
