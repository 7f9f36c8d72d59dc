--------------------------- MODULE MCDeviceEvents ---------------------------
(* Small instances of DeviceEvents: SP, DP and VI share a queue, SI, AI    *)
(* and PI another, COUNTER has its own.                                    *)
EXTENDS DeviceEvents

CONSTANTS rdp, si, timer

MCCap == [m \in Queue |-> 1]
MCRoute ==
    [e \in Event |-> CASE e \in {"SP", "DP", "VI"} -> rdp
                       [] e \in {"SI", "AI", "PI"} -> si
                       [] e = "COUNTER" -> timer]
MCEarly == Event \ {"SI"}
MCAll == Event
=============================================================================
