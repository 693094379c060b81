------------------------------- MODULE MCDetect -------------------------------
(* Instances for TLC: two of every repeated component at most,            *)
(* and two ways to have them installed, in which no two counts that are    *)
(* read in succession are equal.                                           *)
EXTENDS DetectCall

TwoOfEach == [c \in Components |-> IF c \in Singles THEN 1 ELSE 2]

Small == [c \in Components |->
            IF c \in {"heating_circuits", "buffers", "fresh_water_modules", "photovoltaic"}
            THEN 1 ELSE 0]
Large == [c \in Components |->
            IF c \in {"heating_circuits", "circulations", "solar"} THEN 2
            ELSE IF c = "photovoltaic" THEN 0 ELSE 1]
SmallAndLarge == {Small, Large}
=============================================================================
