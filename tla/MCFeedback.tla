----------------------------- MODULE MCFeedback -----------------------------
(***************************************************************************)
(* A small instance of FeedbackTick for TLC: one report, on a preview or   *)
(* from a site.  Reports meet only in Loop, which a report sees as delay.  *)
(***************************************************************************)
EXTENDS FeedbackTick

CONSTANTS r1, shop, staging
=============================================================================
