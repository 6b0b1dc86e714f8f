------------------------- MODULE MC_ConciergeConfig -------------------------
(* FromPath on every file built from the boundary values of each field:    *)
(* omitted, zero, the two defaults, the edges of the port range and one    *)
(* past them, a valid and an invalid suffix, all names or one missing, a   *)
(* known and an unknown log level; plus an unreadable and an undecodable   *)
(* file.                                                                   *)
EXTENDS ConciergeConfig

CONSTANTS nil, none

Durations == {nil, 0, about9Months, aboutAYear}
Ports == {nil, 1023, 1024, 65535, 65536}

DecodedFiles ==
    [readOK : {TRUE}, yamlOK : {TRUE}, duration : Durations, renew : Durations,
     aggPort : Ports, impPort : Ports, suffix : {nil, "pinniped.dev", "bad"},
     names : {RequiredNames, RequiredNames \ {"apiService"}},
     logLevel : {"info", "bogus"}, labels : {nil, "given"},
     agentPrefix : {nil, "prefix-"}, agentImage : {nil}]

\* The two files FromPath rejects before looking at any field.
Broken == CHOOSE f \in DecodedFiles : f.duration = nil /\ f.aggPort = nil

MCFiles == DecodedFiles \cup {[Broken EXCEPT !.readOK = FALSE],
                              [Broken EXCEPT !.yamlOK = FALSE]}
==============================================================================
