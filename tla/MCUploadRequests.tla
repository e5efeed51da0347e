-------------------------- MODULE MCUploadRequests --------------------------
(* UploadRequests with the limits of the code, and hours of one second.     *)
EXTENDS UploadRequests

CONSTANTS photo, notes, typed

MCKeyBytes  == [k \in {"", "key", "limit", "beyond"} |->
                  CASE k = "" -> 0 [] k = "key" -> 16 [] k = "limit" -> 65536 [] OTHER -> 65537]
MCNameBytes == [f \in {photo, notes, typed} |-> IF f = photo THEN 600 ELSE 20]
=============================================================================
