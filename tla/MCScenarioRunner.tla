-------------------------- MODULE MCScenarioRunner --------------------------
\* Scenarios with the shapes of those under scenarios/: boot, restart and a last
\* `always` stop; a client that comes and goes; a service around a server; a
\* service started again.
EXTENDS ScenarioRunner

Step(ops)       == [always |-> FALSE, ops |-> ops]
AlwaysStep(ops) == [always |-> TRUE, ops |-> ops]

AnyClient == CHOOSE c \in Clients : TRUE

RestartScenario ==
  <<Step(ServerStart(Clients)), Step(ServerRestart(Clients)), AlwaysStep(ServerStop)>>

ClientScenario ==
  <<Step(ServerStart({}) \o ClientConnect(AnyClient)), Step(ClientReconnect(AnyClient)),
    AlwaysStep(ClientDisconnect(AnyClient) \o ServerStop)>>

ServiceScenario ==
  <<Step(ServiceStart("db")), Step(ServerStart({}) \o OtherAction),
    AlwaysStep(ServiceStop("db") \o ServerStop)>>

ServiceRestartScenario ==
  <<Step(ServiceStart("db")), Step(ServiceStop("db")),
    AlwaysStep(ServiceStop("db") \o ServiceStart("db"))>>

AllScenarios == {RestartScenario, ClientScenario, ServiceScenario, ServiceRestartScenario}

BootOnly     == {<<Step(ServerStart(Clients))>>}
BootAndCycle == {<<Step(ServerStart(Clients)), Step(ServerRestart(Clients))>>}
ServiceOnly  == {<<Step(ServiceStart("db"))>>}
=============================================================================
