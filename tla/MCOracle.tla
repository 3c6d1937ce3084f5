------------------------------- MODULE MCOracle -------------------------------
(***************************************************************************)
(* Three reporters and two configurations, the second narrower.  Basis     *)
(* points are tenths and "32 bits" are six, so that deviations wrap.       *)
(***************************************************************************)
EXTENDS Oracle, TLC

MCValues == {-2, 1, 8}
MCConfigs ==
  {[min_value |-> -2, max_value |-> 8, max_age |-> 1, min_sources |-> 2, max_deviation |-> 6],
   [min_value |-> -2, max_value |-> 1, max_age |-> 1, min_sources |-> 1, max_deviation |-> 6]}
MCFallbacks == {[value |-> 0, observed_at |-> 0]}
MCSymmetry == Permutations(Reporter)
=============================================================================
