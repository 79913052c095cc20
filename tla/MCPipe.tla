-------------------------------- MODULE MCPipe --------------------------------
EXTENDS Pipe
=============================================================================
