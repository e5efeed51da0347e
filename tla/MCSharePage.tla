---------------------------- MODULE MCSharePage ----------------------------
(* SharePage with an archive of two files of one name in different folders  *)
(* and one of another.                                                      *)
EXTENDS SharePage

CONSTANTS e1, e2, e3, all, readme, notes, zip

MCBaseName == [e \in {e1, e2, e3, all} |->
                 IF e = e3 THEN notes ELSE IF e = all THEN zip ELSE readme]
=============================================================================
