----------------------------- MODULE MCCampaign -----------------------------
(* Two batches of the first tier, for datefuzz one in each of two zones, a  *)
(* random batch, and the other phases empty.                                *)
EXTENDS Campaign

MCBatchesOf == [f \in Fuzzers |-> [l \in Labels |->
                  CASE l = "tier0" -> IF f = "date" THEN 1 ELSE 2
                    [] l = "tier3" -> 1
                    [] OTHER       -> 0]]
MCZones == <<"UTC", "NY">>
MCArguments ==
  <<[seed : {1}, phases : {{"all"}, {"tier3"}}], [seed : {1, 2}, phases : {{"tier3"}}]>>
=============================================================================
