------------------------ MODULE MCStandbyConfigManager ------------------------
(* Three files of the image and the cloud for TLC.  Versions are told      *)
(* apart in their last two segments, one of which is written with a        *)
(* leading zero and one of which is no number.                             *)
EXTENDS StandbyConfigManager

MCContent ==
  {[k \in Key |-> "absent"], [k \in Key |-> "good"],
   [k \in Key |-> IF k = Min(Key) THEN "bad" ELSE "good"]}
MCSegmentValue == [s \in {"1", "2", "02"} |-> IF s = "1" THEN 1 ELSE 2]
MCVersion ==
  {<<"1", "1", "1", "2">>, <<"1", "1", "2", "1">>, <<"1", "1", "02", "2">>,
   <<"1", "1", "2", "x">>}
=============================================================================
