---------------------------- MODULE MCPolicyMesh ----------------------------
EXTENDS PolicyMesh
=============================================================================
