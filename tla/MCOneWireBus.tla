---------------------------- MODULE MCOneWireBus ----------------------------
(* A DS18B20 that measures 25.1 degrees and a DS18S20 whose register holds  *)
(* -10.5 degrees, which its finer formula makes -9.94.  Both hold 85 at     *)
(* power-on.                                                                *)
EXTENDS OneWireBus
CONSTANTS d1, d2
MCDevices == {d1, d2}
MCFamily == [d \in MCDevices |-> IF d = d1 THEN "configurable" ELSE "DS18S20"]
MCStart == [d \in MCDevices |-> IF d = d1 THEN 1360 ELSE 170]
MCRaw == [d \in MCDevices |-> IF d = d1 THEN {401} ELSE {65515}]
MCCfgs == {1, 3}
=============================================================================
