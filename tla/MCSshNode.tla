----------------------------- MODULE MCSshNode ------------------------------
EXTENDS SshNode, TLC
CONSTANTS n1, n2
MCNode == {n1, n2}
=============================================================================
