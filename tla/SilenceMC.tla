----------------------------- MODULE SilenceMC -----------------------------
(* The deployed ratios: an emission interval of 60 s, a hot state of 120 s, a
   silence timeout of 180 s; faults are shorter.                             *)
EXTENDS Silence
=============================================================================
