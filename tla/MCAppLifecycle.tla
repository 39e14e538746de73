--------------------------- MODULE MCAppLifecycle ---------------------------
(* Three spaces, two notifications and three blocks at a time.             *)
EXTENDS AppLifecycle

MCSpaces == 1 .. 3
=============================================================================
