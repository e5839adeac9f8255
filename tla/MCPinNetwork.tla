--------------------------- MODULE MCPinNetwork ---------------------------
(* Instances of PinNetwork for TLC.                                        *)
EXTENDS PinNetwork

MCGpioPins == [u \in Unit |-> IF u = soc THEN {1, 2, 3} ELSE {101, 102, 103}]

(* As in tests/config/test_spi.hwmcnf                                      *)
MCSpiPins == [u \in Unit |->
  IF u = soc THEN [mosi |-> 12, miso |-> 13, csn |-> 14, clk |-> 15]
             ELSE [mosi |-> 112, miso |-> 113, csn |-> 114, clk |-> 115]]

(* One pin with two peers, a wire given twice, and one to unknown pins     *)
MCConnections == << <<101, 1>>, <<102, 2>>, <<103, 3>>, <<101, 3>>, <<101, 1>>, <<109, 9>>,
                    <<112, 12>>, <<113, 13>>, <<115, 15>> >>

(* Both ends of two wires with a common end, one end of a third            *)
MCConvert == { <<soc, 1>>, <<soc, 3>>, <<host, 101>> }

(* Two pins that drive the same one, and one that drives an irq            *)
MCDrive == { <<host, 101>>, <<host, 103>>, <<soc, 2>> }
=============================================================================
