------------------------------ MODULE MCPodWatch ------------------------------
EXTENDS PodWatch
=============================================================================
