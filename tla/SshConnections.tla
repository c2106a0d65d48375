--------------------------- MODULE SshConnections ---------------------------
(***************************************************************************)
(* Connecting and authenticating over SSH (terminal.rs, files.rs): every   *)
(* hop of a connection checks the host key against one trust file and then *)
(* climbs a ladder of ways to authenticate, asking the user where it must, *)
(* at the desk that SshVerification implements.  Secrets that worked are   *)
(* kept for the scope (a workspace, or the port forwards of a host),       *)
(* encrypted in memory, and in the system keyring when the user says so.   *)
(*                                                                         *)
(* A secret remembers for whom it was typed; a server accepts the current  *)
(* version of its own secret, and version 0 is a mistake.                  *)
(***************************************************************************)
EXTENDS Naturals, Sequences, SequencesExt, VerificationDesk

CONSTANTS Workspace,     \* scopes that are workspaces
          Plan,          \* connections that may be asked for
          HostKey,
          Algorithm,     \* host key -> its algorithm
          Presented,     \* target -> the key its server has
          Known,         \* trust files there may be at first: target -> keys
          MaxConnection, \* bound: connections started
          MaxVersion     \* bound: how often a server's secret changes

ASSUME SshConnectionsAssumption ==
    /\ Workspace \subseteq Scope /\ Plan # {}
    /\ \A p \in Plan : /\ p.scope \in Scope /\ p.route \in Seq(Target) \ {<<>>}
                       /\ p.keys \subseteq Target /\ p.accept \subseteq HostKeyKind
                       /\ {p.save, p.main} \subseteq BOOLEAN
    /\ Presented \in [Target -> HostKey] /\ Known \subseteq [Target -> SUBSET HostKey]
    /\ MaxConnection \in Nat /\ MaxVersion \in Nat \ {0}

VARIABLES open,        \* open scopes
          started,     \* connections so far
          connection,  \* worker -> its connection
          trust,       \* the trust file: target -> keys, and whether it is torn
          accepted,    \* target -> keys the user, or a flag of the connection, accepted
          version,     \* version of the secrets the servers accept
          temporary,   \* <<scope, target, kind>> -> secret: ScopedEncryptedCredentialStore
          keyring      \* <<target, kind>> -> secret

stores == <<trust, accepted, temporary, keyring>>
vars == <<desk, open, started, connection, version, stores>>

-----------------------------------------------------------------------------
\* SshWorkerInput, with the kinds of host key that its flags accept unasked: the shell of a terminal and Files and transfers bring what the caller
\* gives; an agent host connects on the main thread; a port-forward worker brings nothing.
Input(s, route, keys) == [scope |-> s, route |-> route, keys |-> keys, given |-> "none",
                          accept |-> {}, save |-> FALSE, main |-> FALSE]
SftpInput(s, route, keys, given, accept, save) ==
    [Input(s, route, keys) EXCEPT !.given = given, !.accept = accept, !.save = save]
AgentInput(s, route, keys) == [Input(s, route, keys) EXCEPT !.main = TRUE]
PortForwardInput(h, route, keys) == Input(h, route, keys)

NoSecret == [target |-> "none", kind |-> "none", version |-> 0, scope |-> "none", save |-> FALSE]
Secret(s, t, k, v, save) == [target |-> t, kind |-> k, version |-> v, scope |-> s, save |-> save]
NoTrust == [t \in Target |-> {}]
Step == {"idle", "host_key", "asks_key", "truncate", "write", "climb", "attempt", "asks_secret"}
NoConnection == [plan |-> CHOOSE p \in Plan : TRUE, hop |-> 1, step |-> "idle", rung |-> 1,
                 secret |-> NoSecret, kind |-> "none", save |-> FALSE, known |-> NoTrust]

Hop(w) == connection[w].plan.route[connection[w].hop]
Home(w) == connection[w].plan.scope

\* Fault: a secret is kept under the final host.
KeyOfRoute(w, kind) == <<Home(w), Last(connection[w].plan.route), kind>>

\* WorkspaceCredentialKey, HostPortForwardCredentialKey.
CredentialKey(w, kind) == <<Home(w), Hop(w), kind>>

TypeOK ==
    /\ open \subseteq Scope /\ started \in 0..MaxConnection
    /\ trust.keys \in [Target -> SUBSET HostKey] /\ trust.torn \in BOOLEAN
    /\ version \in 1..MaxVersion
    /\ \A w \in Worker :
        LET c == connection[w] IN
        /\ c.plan \in Plan /\ c.step \in Step
        /\ c.hop \in DOMAIN c.plan.route
        /\ desk[w] # Silent <=> c.step \in {"asks_key", "asks_secret"}

Init ==
    /\ DeskInit
    /\ open = Scope
    /\ started = 0
    /\ connection = [w \in Worker |-> NoConnection]
    /\ \E known \in Known : trust = [keys |-> known, torn |-> FALSE] /\ accepted = known
    /\ version = 1
    /\ temporary = [k \in Scope \X Target \X CredentialKind |-> NoSecret]
    /\ keyring = [k \in Target \X CredentialKind |-> NoSecret]

-----------------------------------------------------------------------------
(* A connection and its hops.                                              *)

Set(w, c) == connection' = [connection EXCEPT ![w] = c]
To(w, step) == Set(w, [connection[w] EXCEPT !.step = step])
Fails(w) == Set(w, NoConnection)

\* A terminal session, a Files command, a transfer or a port-forward worker connects: a
\* transfer for its initiator even when that workspace was closed, the port forwards of a
\* host only while one of its workspaces is open.
Connect(w) ==
    /\ connection[w].step = "idle"
    /\ started < MaxConnection
    /\ started' = started + 1
    /\ \E p \in Plan :
        /\ p.scope \in open \cup Workspace
        /\ Set(w, [NoConnection EXCEPT !.plan = p, !.step = "host_key"])
    /\ UNCHANGED <<desk, open, version, stores>>

\* verify_ssh_host_key: the store is read here, and written after the answer.  A key is
\* changed where the target has another of its algorithm, and unknown otherwise.
KindOfKey(w) ==
    IF \E k \in trust.keys[Hop(w)] : Algorithm[k] = Algorithm[Presented[Hop(w)]]
    THEN "changed" ELSE "unknown"
Verdict(w) ==
    LET t == Hop(w) IN
    IF Presented[t] \in trust.keys[t] THEN "climb"
    ELSE IF KindOfKey(w) \in connection[w].plan.accept THEN "truncate" ELSE "asks_key"
VerifyHostKey(w) ==
    /\ connection[w].step = "host_key"
    /\ IF trust.torn
       THEN Fails(w) /\ UNCHANGED desk
       ELSE /\ Set(w, [connection[w] EXCEPT !.step = Verdict(w), !.rung = 1,
                      !.known = IF Verdict(w) = "climb" THEN NoTrust ELSE trust.keys])
            /\ IF Verdict(w) = "asks_key"
               THEN Asks(w, Home(w), [target |-> Hop(w), kind |-> KindOfKey(w)])
               ELSE UNCHANGED desk
    /\ accepted' = IF ~ trust.torn /\ Verdict(w) = "truncate"
                   THEN [accepted EXCEPT ![Hop(w)] = @ \cup {Presented[Hop(w)]}] ELSE accepted
    /\ UNCHANGED <<open, started, version, trust, temporary, keyring>>

\* request_host_key_from_scope returns.
HostKeyAnswered(w) ==
    /\ connection[w].step = "asks_key"
    /\ IF desk[w].state = "answered" /\ desk[w].reply.kind = "host_key"
       THEN /\ To(w, "truncate")
            /\ accepted' = [accepted EXCEPT ![Hop(w)] = @ \cup {Presented[Hop(w)]}]
       ELSE Fails(w) /\ UNCHANGED accepted
    /\ Takes(w)
    /\ UNCHANGED <<open, started, version, trust, temporary, keyring>>

\* SshTrustStore::save: the file is emptied and then written, from what was read before
\* the prompt.  Where another writer came between, the longer text shows through.
TruncateTrust(w) ==
    /\ connection[w].step = "truncate"
    /\ trust' = [keys |-> NoTrust, torn |-> FALSE]
    /\ To(w, "write")
    /\ UNCHANGED <<desk, open, started, version, accepted, temporary, keyring>>
Upserted(w) == [connection[w].known EXCEPT ![Hop(w)] = @ \cup {Presented[Hop(w)]}]
WriteTrust(w) ==
    /\ connection[w].step = "write"
    /\ \/ trust' = [keys |-> Upserted(w), torn |-> FALSE]
       \/ /\ trust.keys \notin {NoTrust, Upserted(w)}
          /\ trust' = [keys |-> NoTrust, torn |-> TRUE]
    /\ Set(w, [connection[w] EXCEPT !.step = "climb", !.known = NoTrust])
    /\ UNCHANGED <<desk, open, started, version, accepted, temporary, keyring>>

-----------------------------------------------------------------------------
(* authenticate_ssh_session.                                               *)

KeyRungs == <<<<"key", "key_passphrase">>, <<"temporary", "key_passphrase">>,
              <<"given", "key_passphrase">>, <<"keyring", "key_passphrase">>>>
Ladder(w) ==
    <<<<"agent", "none">>>>
    \o (IF Hop(w) \in connection[w].plan.keys THEN KeyRungs ELSE <<>>)
    \o <<<<"temporary", "password">>, <<"given", "password">>, <<"keyring", "password">>,
         <<"prompt", "none">>>>
Rung(w) == Ladder(w)[connection[w].rung]
Prompt == <<"prompt", "none">>
NextRung(w) == Set(w, [connection[w] EXCEPT !.rung = @ + 1, !.step = "climb", !.secret = NoSecret,
                                       !.kind = "none"])

\* The credential given with the connection is for its last hop only.
SecretAt(w) ==
    LET k == Rung(w)[2] IN
    CASE Rung(w)[1] = "temporary" -> temporary[CredentialKey(w, k)]
      [] Rung(w)[1] = "keyring" -> keyring[<<Hop(w), k>>]
      [] Rung(w)[1] = "given" /\ connection[w].hop = Len(connection[w].plan.route)
              /\ connection[w].plan.given = k -> Secret(Home(w), Hop(w), k, 1, connection[w].plan.save)
      [] OTHER -> NoSecret

\* connect_proxy_jump_chain: the next hop goes through the one that is authenticated.
Authenticated(w) ==
    IF connection[w].hop < Len(connection[w].plan.route)
    THEN Set(w, [connection[w] EXCEPT !.hop = @ + 1, !.step = "host_key", !.rung = 1,
                                      !.secret = NoSecret, !.kind = "none", !.save = FALSE])
    ELSE Set(w, NoConnection)

\* The agent, or the identity file as it is.
TryKeys(w) ==
    /\ connection[w].step = "climb"
    /\ Rung(w)[1] \in {"agent", "key"}
    /\ Authenticated(w) \/ NextRung(w)
    /\ UNCHANGED <<desk, open, started, version, stores>>

\* A secret at hand is read; then the server is asked.
ReadSecret(w) ==
    /\ connection[w].step = "climb"
    /\ Rung(w)[1] \in {"temporary", "given", "keyring"}
    /\ IF SecretAt(w) = NoSecret THEN NextRung(w)
       ELSE Set(w, [connection[w] EXCEPT !.step = "attempt", !.secret = SecretAt(w),
                                         !.kind = Rung(w)[2],
                                         !.save = Rung(w)[1] = "given" /\ connection[w].plan.save])
    /\ UNCHANGED <<desk, open, started, version, stores>>

AskSecret(w, kind) ==
    /\ Asks(w, Home(w), [target |-> Hop(w), kind |-> kind])
    /\ Set(w, [connection[w] EXCEPT !.step = "asks_secret", !.kind = kind, !.secret = NoSecret,
                                    !.rung = Len(Ladder(w))])
Methods == SUBSET {"publickey", "password"}
AskForMethod(w) ==
    /\ connection[w].step = "climb" /\ Rung(w) = Prompt
    /\ \E methods \in Methods :
        IF "publickey" \in methods /\ Hop(w) \in connection[w].plan.keys
        THEN AskSecret(w, "key_passphrase")
        ELSE IF "password" \in methods THEN AskSecret(w, "password")
        ELSE Fails(w) /\ UNCHANGED desk
    /\ UNCHANGED <<open, started, version, stores>>

\* request_credential_from_scope returns what the user typed, rightly or wrongly.
Typed(w, target) == {Secret(Home(w), target, connection[w].kind, v, save) :
                        v \in {0, version}, save \in BOOLEAN}
SecretAnswered(w) ==
    /\ connection[w].step = "asks_secret"
    /\ IF desk[w].state = "answered" /\ desk[w].reply.kind = "credential"
       THEN \E x \in Typed(w, desk[w].reply.target) :
               Set(w, [connection[w] EXCEPT !.step = "attempt", !.secret = x, !.save = x.save])
       ELSE Fails(w)
    /\ Takes(w)
    /\ UNCHANGED <<open, started, version, stores>>

Accepts(w) ==
    LET x == connection[w].secret IN
    x.target = Hop(w) /\ x.kind = connection[w].kind /\ x.version = version

\* The secret works: it is kept for the scope, and in the keyring when that was wanted;
\* an error of the keyring fails the connection.
Keep(w) == temporary' = [temporary EXCEPT ![CredentialKey(w, connection[w].kind)] = connection[w].secret]
SecretWorks(w) ==
    /\ connection[w].step = "attempt" /\ Accepts(w)
    /\ IF Rung(w)[1] = "temporary" THEN UNCHANGED temporary ELSE Keep(w)
    /\ \/ /\ ~ connection[w].save
          /\ Authenticated(w)
          /\ UNCHANGED keyring
       \/ /\ connection[w].save
          /\ keyring' = [keyring EXCEPT ![<<Hop(w), connection[w].kind>>] = connection[w].secret]
          /\ Authenticated(w)
       \/ connection[w].save /\ Fails(w) /\ UNCHANGED keyring
    /\ UNCHANGED <<desk, open, started, version, trust, accepted>>

\* It does not: one that was kept is forgotten and asked for, once; one typed in now
\* fails the connection; any other leads to the next rung.
PromptedSecretFails(w) ==
    /\ connection[w].step = "attempt" /\ ~ Accepts(w)
    /\ Rung(w)[1] = "prompt"
    /\ Fails(w)
    /\ UNCHANGED <<desk, open, started, version, stores>>

\* Fault: after a kept secret the next rung is tried.
KeptSecretPassedOver(w) ==
    /\ connection[w].step = "attempt" /\ ~ Accepts(w)
    /\ Rung(w)[1] = "temporary"
    /\ NextRung(w)
    /\ UNCHANGED <<desk, open, started, version, stores>>

KeptSecretFails(w) ==
    /\ connection[w].step = "attempt" /\ ~ Accepts(w)
    /\ Rung(w)[1] = "temporary"
    /\ temporary' = [temporary EXCEPT ![CredentialKey(w, connection[w].kind)] = NoSecret]
    /\ AskSecret(w, connection[w].kind)
    /\ UNCHANGED <<open, started, version, trust, accepted, keyring>>
OtherSecretFails(w) ==
    /\ connection[w].step = "attempt" /\ ~ Accepts(w)
    /\ Rung(w)[1] \in {"given", "keyring"}
    /\ NextRung(w)
    /\ UNCHANGED <<desk, open, started, version, stores>>

-----------------------------------------------------------------------------
(* The main thread and the servers.                                        *)

\* create_ssh_agent_host_terminal_session connects on the main thread: until it returns
\* no other command runs, and none that answers its own question.
MainThreadFree == \A w \in Worker :
    connection[w].plan.main => connection[w].step = "idle"

\* remove_workspace and close_host_port_forward_runtime: what was kept is forgotten.  The
\* questions that are canceled with it are the desk's.
Forget(s) == temporary' = [k \in DOMAIN temporary |-> IF k[1] = s THEN NoSecret ELSE temporary[k]]
CloseScope(s) ==
    /\ MainThreadFree
    /\ s \in open
    /\ open' = open \ {s}
    /\ Forget(s)
    /\ UNCHANGED <<desk, started, connection, version, trust, accepted, keyring>>
\* A workspace of the host is opened again.
HostOpens(s) ==
    /\ s \in Scope \ Workspace /\ s \notin open
    /\ open' = open \cup {s}
    /\ UNCHANGED <<desk, started, connection, version, stores>>

SecretsChange ==
    /\ version < MaxVersion
    /\ version' = version + 1
    /\ UNCHANGED <<desk, open, started, connection, stores>>

-----------------------------------------------------------------------------
Proceeds(w) ==
    \/ VerifyHostKey(w) \/ HostKeyAnswered(w) \/ TruncateTrust(w) \/ WriteTrust(w)
    \/ TryKeys(w) \/ ReadSecret(w) \/ AskForMethod(w) \/ SecretAnswered(w)
    \/ SecretWorks(w) \/ PromptedSecretFails(w) \/ KeptSecretFails(w) \/ OtherSecretFails(w)
\* The desk lets a worker go.  The answer may have been given before the main thread began
\* to connect, so a connection of the main thread can be let go too.
Answered(w) == (Replies(w) \/ Errs(w)) /\ UNCHANGED <<open, started, connection, version, stores>>
Next ==
    \/ \E w \in Worker : Connect(w) \/ Proceeds(w) \/ Answered(w)
    \/ \E s \in Scope : CloseScope(s) \/ HostOpens(s)
    \/ SecretsChange

Spec == Init /\ [][Next]_vars

-----------------------------------------------------------------------------
(* What holds.                                                             *)

\* A kept secret belongs to one scope and one hop: a jump host's is never tried on the
\* final host, and only the keyring carries one from scope to scope.
SecretsStayInScope ==
    \A k \in DOMAIN temporary : temporary[k] # NoSecret =>
        /\ temporary[k].target = k[2] /\ temporary[k].kind = k[3]
        /\ temporary[k].scope = k[1] \/ temporary[k].save

\* Only what a server accepted is kept (store_prompt_credential_after_success).
KeptSecretsWorked ==
    /\ \A k \in DOMAIN temporary : temporary[k] # NoSecret => temporary[k].version > 0
    /\ \A k \in DOMAIN keyring : keyring[k] # NoSecret => keyring[k].version > 0

\* A key is in the trust file only if it was there, or the user or a flag accepted it:
\* a changed key never enters by itself, whatever a writer overwrote (verify_ssh_host_key).
TrustedWereAccepted == \A t \in Target : trust.keys[t] \subseteq accepted[t]

\* What is kept, in memory, in the keyring and in the trust file.
SecretsAreSound == TypeOK /\ SecretsStayInScope /\ KeptSecretsWorked /\ TrustedWereAccepted

\* A secret that was kept and failed is asked for: the connection never falls back to the
\* keyring with that kind of secret (authenticate_ssh_session).
NoFallback ==
    [][\A w \in Worker :
        /\ connection[w].step = "attempt" /\ Rung(w)[1] = "temporary"
        /\ connection[w].hop = connection'[w].hop
        => connection'[w].step \in {"attempt", "asks_secret", "idle"}]_vars

=============================================================================
