------------------------------- MODULE Readers -------------------------------
(***************************************************************************)
(* The two programs that read a vault for its owner and never write it: the*)
(* browser extension and the MCP server.  Each keeps its own state; they   *)
(* share the records on the chain alone, so a behaviour runs one of them.  *)
(***************************************************************************)
EXTENDS Extension, Mcp

CONSTANTS Resting,  \* the play in which the extension does nothing
          Nobody    \* the scene in which nobody calls the server

readerVars == <<vars, mcpVars>>

ReadersInit ==
    /\ Init /\ McpInit
    /\ play = Resting \/ scene = Nobody

ReadersNext ==
    \/ play # Resting /\ Next /\ UNCHANGED mcpVars
    \/ scene # Nobody /\ McpNext /\ UNCHANGED vars

ReadersSpec == ReadersInit /\ [][ReadersNext]_readerVars
----------------------------------------------------------------------------
\* Every variable keeps its type.
ReadersTypeOK == TypeOK /\ McpTypeOK
=============================================================================
