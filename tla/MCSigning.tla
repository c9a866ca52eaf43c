------------------------------ MODULE MCSigning ------------------------------
EXTENDS Signing

SecondMayDiffer == [m \in Member |-> IF m = 2 THEN {1, 2} ELSE {1}]
=============================================================================
