------------------------- MODULE MCSshVerification -------------------------
EXTENDS SshVerification

CONSTANTS jump, host

Questions == {[kind |-> "password", target |-> jump], [kind |-> "password", target |-> host],
              [kind |-> "unknown", target |-> host]}
=============================================================================
