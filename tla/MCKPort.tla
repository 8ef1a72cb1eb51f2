------------------------------ MODULE MCKPort ------------------------------
(* Two button states of which no two halves fit together; other code that  *)
(* leaves the port alone, reads its data, triggers it, turns it around or  *)
(* writes its data.                                                        *)
EXTENDS KPort

WordsOfTwo == {<<TRUE, FALSE>>, <<FALSE, TRUE>>}

OneAtATime == {{}, {"READ"}, {"TRIGGER"}, {"TURN"}, {"WRITE"}}
=============================================================================
