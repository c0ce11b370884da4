---------------------------- MODULE MCCapability ----------------------------
EXTENDS Capability

MCEntry(risk, allow) == [risk |-> risk, allow |-> allow]
MCConfigs == {MCEntry("read", {}), MCEntry("write", {"destructive"})}
=============================================================================
