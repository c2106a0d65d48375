-------------------------- MODULE MCSshConnections --------------------------
EXTENDS SshConnections

CONSTANTS ws, pf, jump, host, k1, k2, k3

WorkerSymmetry == Permutations(Worker)
ServerKeys == [t \in Target |-> k1]
Algorithms == [k \in HostKey |-> IF k = k3 THEN "rsa" ELSE "ed25519"]
\* The host's key has changed; of the jump host a key of another algorithm is known.
TrustFiles == {[t \in Target |-> IF t = host THEN {k2} ELSE {k3}]}

Forwarding == PortForwardInput(pf, <<host>>, {})
Jumping == Input(ws, <<jump, host>>, {host})
Trusting == SftpInput(ws, <<host>>, {}, "password", {"changed"}, TRUE)
AgentMode == AgentInput(ws, <<host>>, {})
Plans == {Forwarding, Jumping, Trusting, AgentMode}
=============================================================================
