----------------------------- MODULE MCGpioIrqs -----------------------------
(* Instances of GpioIrqs for TLC: wires as in tests/config, no spi pins.   *)
EXTENDS GpioIrqs

MCGpioPins == [u \in Unit |-> IF u = soc THEN {1, 2} ELSE {101, 102}]

MCSpiPins == [u \in Unit |-> <<>>]

(* Two wires, one driven from each side                                    *)
MCConnections == << <<101, 1>>, <<102, 2>> >>

MCConvert == { <<soc, 1>>, <<host, 102>> }

MCDrive == { <<host, 101>>, <<soc, 2>> }
=============================================================================
