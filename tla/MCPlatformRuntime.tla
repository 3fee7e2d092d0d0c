-------------------------- MODULE MCPlatformRuntime --------------------------
EXTENDS PlatformRuntime
=============================================================================
