------------------------------ MODULE MCWindow ------------------------------
(* Window for every kind of start: the constants of its TLC run.           *)
EXTENDS Window

AllOrigins == {"direct", "link", "remind"}
=============================================================================
