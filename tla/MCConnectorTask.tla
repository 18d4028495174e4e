--------------------------- MODULE MCConnectorTask ---------------------------
(***************************************************************************)
(* A service task, whose result names a resource, and a user task that has *)
(* another resource until then: its key is rewritten while it runs.        *)
(***************************************************************************)
EXTENDS ConnectorTask, TLC

CONSTANTS s, u, r1, r2

NamedResource == [t \in Tasks |-> r1]
DefaultResource == [t \in Tasks |-> r2]
=============================================================================
