---------------------------- MODULE MCRateControl ----------------------------
(* Small numbers for microseconds and percents; see rate.cfg.              *)
EXTENDS RateControl
===============================================================================
