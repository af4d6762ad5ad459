--------------------------- MODULE MCLoggerServer ---------------------------
(* LoggerServer with three entries, one retry or none, skipping or not.    *)
EXTENDS LoggerServer
CONSTANTS e1, e2, e3

MCEntry   == {e1, e2, e3}
MCConfigs == [numberOfRetries : {0, 1}, shouldSkip : BOOLEAN]
=============================================================================
