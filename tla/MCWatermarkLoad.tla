-------------------------- MODULE MCWatermarkLoad --------------------------
(* Instances of WatermarkLoad for TLC.                                     *)
EXTENDS WatermarkLoad

SameOrder == [k \in Keys |-> k]

(* id_watermark: one suffix, the counter is the key.                       *)
OneSuffix == {"all"}
OneSuffixOf == [k \in Keys |-> "all"]
KeyCounter == [k \in Keys |-> k]

(* abra_watermark: key 1 is `01..`, after key 2 and before key 3 in time;  *)
(* the last key belongs to a database that is not configured.              *)
AbraSuffixes == {"101", "000"}
AbraConfigured == {"101"}
AbraSuffixOf == [k \in Keys |-> IF k = MaxKey THEN "000" ELSE "101"]
AbraCounter == [k \in Keys |-> IF k = 1 THEN 2 ELSE IF k = 2 THEN 1 ELSE k]
=============================================================================
