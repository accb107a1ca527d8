--------------------------- MODULE MCToolSessions ---------------------------
EXTENDS ToolSessions, TLC

CONSTANTS x, y

CallAndSession == (x :> "call") @@ (y :> "session")
RunAndSession == (x :> "run") @@ (y :> "session")
=============================================================================
