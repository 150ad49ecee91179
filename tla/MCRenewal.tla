----------------------------- MODULE MCRenewal ------------------------------
(* Renewal on a clock of few ticks.  With Day = 2 and Late = 1 the windows of
   two runs may meet or overlap; a gap between them takes Day = 3, Late = 2. *)
EXTENDS Renewal

=============================================================================
