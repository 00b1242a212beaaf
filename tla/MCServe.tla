------------------------------- MODULE MCServe -------------------------------
(* Two keys, of which "project" must match a pattern; configurations with  *)
(* and without required keys, an enum and key sets, two of them invalid.   *)
EXTENDS Serve

Any == [k \in Key |-> Value]
NoEnum == [k \in Key |-> {}]
Project == [Any EXCEPT !["project"] = {"good"}]

Cfg(keys, matched, enum, required, one_of) ==
    [keys |-> keys, matched |-> matched, enum |-> enum, required |-> required, one_of |-> one_of]

MCConfigs == {
    Cfg({}, Any, NoEnum, {}, <<>>),
    Cfg({"project"}, Project, NoEnum, {"project"}, <<>>),
    Cfg(Key, Project, [NoEnum EXCEPT !["scope"] = {"good"}], {}, <<{"project"}, {"scope"}>>),
    Cfg(Key, Project, NoEnum, {"scope"}, <<{"project"}, {"project", "scope"}>>),
    Cfg({"scope"}, Any, NoEnum, {}, <<{"scope"}, {"project"}>>),
    Cfg({}, Any, NoEnum, {}, <<{}>>)}

MCTransports == {{}, {"mcp"}, {"stdio"}, {"grpc"}, {"mcp", "http"}, {"mcp", "stdio"}}
=============================================================================
