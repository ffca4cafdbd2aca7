-------------------------- MODULE MCSidecarGateway --------------------------
\* SidecarGateway for TLC.
EXTENDS SidecarGateway
=============================================================================
