----------------------------- MODULE SshProofs -----------------------------
(***************************************************************************)
(* Theorems about SshConnections for every set of workers, scopes, targets *)
(* and plans: what is kept of secrets and host keys, whatever connections  *)
(* run at once, and that a kept secret that fails is asked for; and about  *)
(* OpenSshConfig for every content of the files, every change of them and  *)
(* every limit: that the sections read are those of the files.             *)
(***************************************************************************)
EXTENDS SshConnections, OpenSshConfig, TLAPS, FiniteSetTheorems, SequenceTheorems

-----------------------------------------------------------------------------
(* Connections: SshConnections.                                            *)


Asking == {"asks_key", "asks_secret"}

SecretType == [target : Target \cup {"none"}, kind : CredentialKind \cup {"none"},
               version : Nat, scope : Scope \cup {"none"}, save : BOOLEAN]
ConnectionType == [plan : Plan, hop : Nat, step : Step, rung : Nat, secret : SecretType,
                   kind : CredentialKind \cup {"none"}, save : BOOLEAN,
                   known : [Target -> SUBSET HostKey]]

\* The hop a connection is at, and the ladder it climbs there.
HopOf(c) == c.plan.route[c.hop]
ShortLadder == <<<<"agent", "none">>, <<"temporary", "password">>, <<"given", "password">>,
                 <<"keyring", "password">>, <<"prompt", "none">>>>
LongLadder == <<<<"agent", "none">>, <<"key", "key_passphrase">>,
                <<"temporary", "key_passphrase">>, <<"given", "key_passphrase">>,
                <<"keyring", "key_passphrase">>, <<"temporary", "password">>,
                <<"given", "password">>, <<"keyring", "password">>, <<"prompt", "none">>>>
LadderOf(c) == IF HopOf(c) \in c.plan.keys THEN LongLadder ELSE ShortLadder
RungOf(c) == LadderOf(c)[c.rung]

\* A connection is on a rung of its hop's ladder.
OnLadder(c) ==
    /\ c \in ConnectionType
    /\ c.hop \in DOMAIN c.plan.route
    /\ c.rung \in 1..Len(LadderOf(c))

\* What it read of the trust file was accepted, and so is the key it is about to write.
ReadWasAccepted(c, known) ==
    /\ \A t \in Target : c.known[t] \subseteq known[t]
    /\ c.step \in {"truncate", "write"} => Presented[HopOf(c)] \in known[HopOf(c)]

\* A secret that is asked for or tried has a kind.  One that is tried and not kept yet is
\* the scope's own, or one the user wants saved; only such a one is put into the keyring.
TriedIsOwn(c) ==
    /\ c.step \in {"asks_secret", "attempt"} => c.kind \in CredentialKind
    /\ c.step = "attempt" =>
        /\ RungOf(c)[1] # "temporary" => c.secret.scope = c.plan.scope \/ c.secret.save
        /\ c.save => c.secret.save

ConnectionOK(c, known) == OnLadder(c) /\ ReadWasAccepted(c, known) /\ TriedIsOwn(c)

\* What the desk holds for a worker: a credential that it hands over is for a target.
DeskEntry(e) ==
    /\ e.state = "waiting" => e.challenge.target \in Target
    /\ e.state = "answered" /\ e.reply.kind = "credential" => e.reply.target \in Target

ConnectionsOK ==
    /\ DOMAIN desk = Worker
    /\ connection \in [Worker -> ConnectionType]
    /\ \A w \in Worker :
        /\ ConnectionOK(connection[w], accepted)
        /\ DeskEntry(desk[w])
        /\ desk[w] # Silent <=> connection[w].step \in Asking

\* The stores, and what is in them.
KeysOK ==
    /\ trust \in [keys : [Target -> SUBSET HostKey], torn : BOOLEAN]
    /\ accepted \in [Target -> SUBSET HostKey]
    /\ TrustedWereAccepted
TemporaryOK ==
    /\ temporary \in [Scope \X Target \X CredentialKind -> SecretType]
    /\ SecretsStayInScope
    /\ \A k \in DOMAIN temporary : temporary[k] # NoSecret => temporary[k].version > 0
KeyringOK ==
    /\ keyring \in [Target \X CredentialKind -> SecretType]
    /\ \A k \in DOMAIN keyring : keyring[k] # NoSecret => keyring[k].save /\ keyring[k].version > 0
StoredOK == version \in 1..MaxVersion /\ TemporaryOK /\ KeyringOK
ScopesOK == open \subseteq Scope /\ started \in 0..MaxConnection

IInv == ConnectionsOK /\ KeysOK /\ StoredOK /\ ScopesOK

-----------------------------------------------------------------------------
(* Connections and ladders.                                                *)

\* A ladder ends with the prompt, which is nowhere else, and its rungs for secrets name
\* the kind of the secret.
LEMMA LadderShape ==
  ASSUME NEW l, l \in {LongLadder, ShortLadder}
  PROVE  /\ Len(l) \in Nat \ {0}
         /\ \A i \in 1..Len(l) : l[i][1] = "prompt" <=> i = Len(l)
         /\ \A i \in 1..Len(l) : l[i][2] \in CredentialKind \cup {"none"}
         /\ \A i \in 1..Len(l) :
              l[i][1] \in {"temporary", "given", "keyring"} => l[i][2] \in CredentialKind
<1>1. CASE l = LongLadder
  <2>1. Len(l) = 9
    BY <1>1 DEF LongLadder
  <2>2. \A i \in 1..9 : l[i][1] = "prompt" <=> i = 9
    BY <1>1 DEF LongLadder
  <2>3. \A i \in 1..9 : l[i][2] \in CredentialKind \cup {"none"}
    BY <1>1 DEF LongLadder, CredentialKind
  <2>4. \A i \in 1..9 : l[i][1] \in {"temporary", "given", "keyring"} => l[i][2] \in CredentialKind
    BY <1>1 DEF LongLadder, CredentialKind
  <2>5. QED
    BY <2>1, <2>2, <2>3, <2>4
<1>2. CASE l = ShortLadder
  <2>1. Len(l) = 5
    BY <1>2 DEF ShortLadder
  <2>2. \A i \in 1..5 : l[i][1] = "prompt" <=> i = 5
    BY <1>2 DEF ShortLadder
  <2>3. \A i \in 1..5 : l[i][2] \in CredentialKind \cup {"none"}
    BY <1>2 DEF ShortLadder, CredentialKind
  <2>4. \A i \in 1..5 : l[i][1] \in {"temporary", "given", "keyring"} => l[i][2] \in CredentialKind
    BY <1>2 DEF ShortLadder, CredentialKind
  <2>5. QED
    BY <2>1, <2>2, <2>3, <2>4
<1>3. QED
  BY <1>1, <1>2

\* Tuples joined, element by element.
LEMMA SameSequence ==
  ASSUME NEW S, NEW s \in Seq(S), NEW t \in Seq(S), NEW n \in Nat, Len(s) = n, Len(t) = n,
         \A i \in 1..n : s[i] = t[i]
  PROVE  s = t
  OBVIOUS
LEMMA JoinOne ==
  ASSUME NEW a, NEW b1, NEW b2, NEW b3, NEW b4
  PROVE  <<a>> \o <<b1, b2, b3, b4>> = <<a, b1, b2, b3, b4>>
<1> DEFINE S == {a, b1, b2, b3, b4}
           one == <<a>>
           rest == <<b1, b2, b3, b4>>
           all == <<a, b1, b2, b3, b4>>
<1>1. one \in Seq(S) /\ Len(one) = 1
  OBVIOUS
<1>2. rest \in Seq(S) /\ Len(rest) = 4
  OBVIOUS
<1>3. all \in Seq(S) /\ Len(all) = 5
  OBVIOUS
<1>4. one \o rest \in Seq(S) /\ Len(one \o rest) = 5
  BY <1>1, <1>2
<1>5. ASSUME NEW i \in 1..5 PROVE (one \o rest)[i] = all[i]
  <2>1. (one \o rest)[i] = IF i <= 1 THEN one[i] ELSE rest[i - 1]
    BY <1>1, <1>2
  <2>2. QED
    BY <2>1
<1> HIDE DEF S, one, rest, all
<1>6. one \o rest = all
  BY <1>3, <1>4, <1>5, SameSequence
<1>7. QED
  BY <1>6 DEF one, rest, all
LEMMA JoinFive ==
  ASSUME NEW a1, NEW a2, NEW a3, NEW a4, NEW a5, NEW b1, NEW b2, NEW b3, NEW b4
  PROVE  <<a1, a2, a3, a4, a5>> \o <<b1, b2, b3, b4>> = <<a1, a2, a3, a4, a5, b1, b2, b3, b4>>
<1> DEFINE S == {a1, a2, a3, a4, a5, b1, b2, b3, b4}
           five == <<a1, a2, a3, a4, a5>>
           rest == <<b1, b2, b3, b4>>
           all == <<a1, a2, a3, a4, a5, b1, b2, b3, b4>>
<1>1. five \in Seq(S) /\ Len(five) = 5
  OBVIOUS
<1>2. rest \in Seq(S) /\ Len(rest) = 4
  OBVIOUS
<1>3. all \in Seq(S) /\ Len(all) = 9
  OBVIOUS
<1>4. five \o rest \in Seq(S) /\ Len(five \o rest) = 9
  BY <1>1, <1>2
<1>5. ASSUME NEW i \in 1..9 PROVE (five \o rest)[i] = all[i]
  <2>1. (five \o rest)[i] = IF i <= 5 THEN five[i] ELSE rest[i - 5]
    BY <1>1, <1>2
  <2>2. QED
    BY <2>1
<1> HIDE DEF S, five, rest, all
<1>6. five \o rest = all
  BY <1>3, <1>4, <1>5, SameSequence
<1>7. QED
  BY <1>6 DEF five, rest, all

\* The names of the model and those used here.
LEMMA SameLadder ==
  ASSUME NEW w
  PROVE  /\ Hop(w) = HopOf(connection[w])
         /\ Ladder(w) = LadderOf(connection[w])
         /\ Rung(w) = RungOf(connection[w])
<1>1. Hop(w) = HopOf(connection[w])
  BY DEF Hop, HopOf
<1>2. Ladder(w) = LadderOf(connection[w])
  <2>1. CASE Hop(w) \in connection[w].plan.keys
    <3>1. Ladder(w) = <<<<"agent", "none">>>> \o KeyRungs
             \o <<<<"temporary", "password">>, <<"given", "password">>, <<"keyring", "password">>,
                  <<"prompt", "none">>>>
      BY <2>1 DEF Ladder
    <3>2. <<<<"agent", "none">>>> \o KeyRungs
            = <<<<"agent", "none">>, <<"key", "key_passphrase">>,
                <<"temporary", "key_passphrase">>, <<"given", "key_passphrase">>,
                <<"keyring", "key_passphrase">>>>
      BY JoinOne DEF KeyRungs
    <3>3. Ladder(w) = LongLadder
      <4>1. Ladder(w)
               = <<<<"agent", "none">>, <<"key", "key_passphrase">>,
                   <<"temporary", "key_passphrase">>, <<"given", "key_passphrase">>,
                   <<"keyring", "key_passphrase">>>>
                 \o <<<<"temporary", "password">>, <<"given", "password">>,
                      <<"keyring", "password">>, <<"prompt", "none">>>>
        BY <3>1, <3>2, Zenon
      <4>2. <<<<"agent", "none">>, <<"key", "key_passphrase">>,
              <<"temporary", "key_passphrase">>, <<"given", "key_passphrase">>,
              <<"keyring", "key_passphrase">>>>
            \o <<<<"temporary", "password">>, <<"given", "password">>,
                 <<"keyring", "password">>, <<"prompt", "none">>>>
              = <<<<"agent", "none">>, <<"key", "key_passphrase">>,
                  <<"temporary", "key_passphrase">>, <<"given", "key_passphrase">>,
                  <<"keyring", "key_passphrase">>, <<"temporary", "password">>,
                  <<"given", "password">>, <<"keyring", "password">>, <<"prompt", "none">>>>
        BY JoinFive
      <4>3. QED
        BY <4>1, <4>2, Zenon DEF LongLadder
    <3>4. LadderOf(connection[w]) = LongLadder
      BY <1>1, <2>1 DEF LadderOf
    <3>5. QED
      BY <3>3, <3>4
  <2>2. CASE Hop(w) \notin connection[w].plan.keys
    <3>1. Ladder(w) = <<<<"agent", "none">>>> \o <<>>
             \o <<<<"temporary", "password">>, <<"given", "password">>, <<"keyring", "password">>,
                  <<"prompt", "none">>>>
      BY <2>2 DEF Ladder
    <3>2. <<<<"agent", "none">>>> \o <<>> = <<<<"agent", "none">>>>
      OBVIOUS
    <3>3. Ladder(w) = ShortLadder
      BY <3>1, <3>2, JoinOne DEF ShortLadder
    <3>4. LadderOf(connection[w]) = ShortLadder
      BY <1>1, <2>2 DEF LadderOf
    <3>5. QED
      BY <3>3, <3>4
  <2>3. QED
    BY <2>1, <2>2
<1>3. QED
  BY <1>1, <1>2 DEF Rung, RungOf

\* What a connection that is on its ladder has at hand.
LEMMA AtHop ==
  ASSUME NEW c, OnLadder(c)
  PROVE  /\ c.plan \in Plan /\ c.plan.scope \in Scope /\ c.plan.save \in BOOLEAN
         /\ c.hop \in 1..Len(c.plan.route) /\ Len(c.plan.route) \in Nat
         /\ HopOf(c) \in Target /\ Presented[HopOf(c)] \in HostKey
         /\ LadderOf(c) \in {LongLadder, ShortLadder}
<1>1. c.plan \in Plan /\ c.hop \in DOMAIN c.plan.route
  BY DEF OnLadder, ConnectionType
<1>2. /\ c.plan.scope \in Scope /\ c.plan.route \in Seq(Target)
      /\ {c.plan.save, c.plan.main} \subseteq BOOLEAN
  BY <1>1, SshConnectionsAssumption DEF SshConnectionsAssumption
<1>3. c.hop \in 1..Len(c.plan.route) /\ Len(c.plan.route) \in Nat
  BY <1>1, <1>2
<1>4. HopOf(c) \in Target
  BY <1>2, <1>3 DEF HopOf
<1>5. Presented[HopOf(c)] \in HostKey
  BY <1>4, SshConnectionsAssumption DEF SshConnectionsAssumption
<1>6. QED
  BY <1>1, <1>2, <1>3, <1>4, <1>5 DEF LadderOf

LEMMA NullsTyped ==
  /\ NoSecret \in SecretType /\ NoTrust \in [Target -> SUBSET HostKey]
  /\ NoConnection \in ConnectionType /\ NoConnection.step = "idle"
  /\ NoConnection.hop = 1 /\ NoConnection.rung = 1 /\ NoConnection.known = NoTrust
<1>1. NoSecret \in SecretType
  BY DEF NoSecret, SecretType
<1>2. NoTrust \in [Target -> SUBSET HostKey]
  BY DEF NoTrust
<1>3. (CHOOSE p \in Plan : TRUE) \in Plan
  BY SshConnectionsAssumption DEF SshConnectionsAssumption
<1>4. NoConnection \in ConnectionType
  BY <1>1, <1>2, <1>3 DEF NoConnection, ConnectionType, Step
<1>5. QED
  BY <1>1, <1>2, <1>4 DEF NoConnection

\* A connection that is at the first rung of a hop, that reads nothing and tries nothing.
LEMMA AtFirstRung ==
  ASSUME NEW c \in ConnectionType, NEW known, c.hop \in DOMAIN c.plan.route, c.rung = 1,
         c.step \notin {"truncate", "write", "asks_secret", "attempt"},
         \A t \in Target : c.known[t] \subseteq known[t]
  PROVE  ConnectionOK(c, known)
<1>1. LadderOf(c) \in {LongLadder, ShortLadder}
  BY DEF LadderOf
<1>2. c.rung \in 1..Len(LadderOf(c))
  BY <1>1, LadderShape
<1>3. QED
  BY <1>2 DEF ConnectionOK, OnLadder, ReadWasAccepted, TriedIsOwn

\* A connection that is over.
LEMMA OverIsOK ==
  ASSUME NEW known
  PROVE  ConnectionOK(NoConnection, known)
<1>1. NoConnection.plan \in Plan
  BY NullsTyped DEF ConnectionType
<1>2. NoConnection.plan.route \in Seq(Target) \ {<<>>}
  BY <1>1, SshConnectionsAssumption DEF SshConnectionsAssumption
<1>3. 1 \in DOMAIN NoConnection.plan.route
  BY <1>2
<1>4. \A t \in Target : NoConnection.known[t] \subseteq known[t]
  BY NullsTyped DEF NoTrust
<1>5. QED
  BY <1>3, <1>4, NullsTyped, AtFirstRung

\* The changes an action makes to a connection, one lemma for each.
LEMMA SameHop ==
  ASSUME NEW c, NEW d, d.plan = c.plan, d.hop = c.hop
  PROVE  HopOf(d) = HopOf(c) /\ LadderOf(d) = LadderOf(c)
  BY DEF HopOf, LadderOf

LEMMA MovesTo ==
  ASSUME NEW c, NEW known, ConnectionOK(c, known), NEW s \in {"truncate", "write"},
         Presented[HopOf(c)] \in known[HopOf(c)]
  PROVE  ConnectionOK([c EXCEPT !.step = s], known)
<1> DEFINE d == [c EXCEPT !.step = s]
<1>1. c \in ConnectionType
  BY DEF ConnectionOK, OnLadder
<1>2. d \in ConnectionType
  BY <1>1 DEF ConnectionType, Step
<1>3. d.step = s /\ d.plan = c.plan /\ d.hop = c.hop /\ d.rung = c.rung /\ d.known = c.known
  BY <1>1 DEF ConnectionType
<1> HIDE DEF d
<1>4. HopOf(d) = HopOf(c) /\ LadderOf(d) = LadderOf(c)
  BY <1>3, SameHop
<1>5. OnLadder(d)
  BY <1>2, <1>3, <1>4 DEF ConnectionOK, OnLadder
<1>6. ReadWasAccepted(d, known) /\ TriedIsOwn(d)
  BY <1>3, <1>4 DEF ConnectionOK, ReadWasAccepted, TriedIsOwn
<1>7. ConnectionOK(d, known)
  BY <1>5, <1>6 DEF ConnectionOK
<1>8. QED
  BY <1>7 DEF d

LEMMA Verifies ==
  ASSUME NEW c, NEW known, OnLadder(c), NEW s \in {"climb", "truncate", "asks_key"},
         NEW read \in [Target -> SUBSET HostKey], \A t \in Target : read[t] \subseteq known[t],
         s = "truncate" => Presented[HopOf(c)] \in known[HopOf(c)]
  PROVE  ConnectionOK([c EXCEPT !.step = s, !.rung = 1, !.known = read], known)
<1> DEFINE d == [c EXCEPT !.step = s, !.rung = 1, !.known = read]
<1>1. c \in ConnectionType
  BY DEF OnLadder
<1>2. d \in ConnectionType
  BY <1>1 DEF ConnectionType, Step
<1>3. d.step = s /\ d.plan = c.plan /\ d.hop = c.hop /\ d.rung = 1 /\ d.known = read
  BY <1>1 DEF ConnectionType
<1> HIDE DEF d
<1>4. HopOf(d) = HopOf(c) /\ LadderOf(d) \in {LongLadder, ShortLadder}
  BY <1>3, SameHop DEF LadderOf
<1>5. 1 \in 1..Len(LadderOf(d))
  BY <1>4, LadderShape
<1>6. OnLadder(d)
  BY <1>2, <1>3, <1>5 DEF OnLadder
<1>7. ReadWasAccepted(d, known) /\ TriedIsOwn(d)
  BY <1>3, <1>4 DEF ReadWasAccepted, TriedIsOwn
<1>8. ConnectionOK(d, known)
  BY <1>6, <1>7 DEF ConnectionOK
<1>9. QED
  BY <1>8 DEF d

LEMMA Written ==
  ASSUME NEW c, NEW known, ConnectionOK(c, known)
  PROVE  ConnectionOK([c EXCEPT !.step = "climb", !.known = NoTrust], known)
<1> DEFINE d == [c EXCEPT !.step = "climb", !.known = NoTrust]
<1>1. c \in ConnectionType
  BY DEF ConnectionOK, OnLadder
<1>2. d \in ConnectionType
  BY <1>1, NullsTyped DEF ConnectionType, Step
<1>3. d.step = "climb" /\ d.plan = c.plan /\ d.hop = c.hop /\ d.rung = c.rung /\ d.known = NoTrust
  BY <1>1 DEF ConnectionType
<1> HIDE DEF d
<1>4. LadderOf(d) = LadderOf(c)
  BY <1>3, SameHop
<1>5. OnLadder(d)
  BY <1>2, <1>3, <1>4 DEF ConnectionOK, OnLadder
<1>6. ReadWasAccepted(d, known) /\ TriedIsOwn(d)
  BY <1>3 DEF ReadWasAccepted, TriedIsOwn, NoTrust
<1>7. ConnectionOK(d, known)
  BY <1>5, <1>6 DEF ConnectionOK
<1>8. QED
  BY <1>7 DEF d

LEMMA ClimbsOn ==
  ASSUME NEW c, NEW known, ConnectionOK(c, known), c.rung < Len(LadderOf(c))
  PROVE  ConnectionOK([c EXCEPT !.rung = @ + 1, !.step = "climb", !.secret = NoSecret,
                                !.kind = "none"], known)
<1> DEFINE d == [c EXCEPT !.rung = @ + 1, !.step = "climb", !.secret = NoSecret, !.kind = "none"]
<1>1. c \in ConnectionType /\ c.rung \in Nat
  BY DEF ConnectionOK, OnLadder, ConnectionType
<1>2. d \in ConnectionType
  <2>1. ASSUME NEW n \in Nat
        PROVE  [c EXCEPT !.rung = n, !.step = "climb", !.secret = NoSecret, !.kind = "none"]
                 \in ConnectionType
    BY <1>1, NullsTyped DEF ConnectionType, Step
  <2>2. c.rung + 1 \in Nat
    BY <1>1
  <2>3. QED
    BY <2>1, <2>2
<1>3. d.step = "climb" /\ d.plan = c.plan /\ d.hop = c.hop /\ d.rung = c.rung + 1
        /\ d.known = c.known
  BY <1>1 DEF ConnectionType
<1> HIDE DEF d
<1>4. LadderOf(d) = LadderOf(c) /\ LadderOf(c) \in {LongLadder, ShortLadder}
  BY <1>3, SameHop DEF LadderOf
<1>5. d.rung \in 1..Len(LadderOf(d))
  BY <1>1, <1>3, <1>4, LadderShape
<1>6. OnLadder(d)
  BY <1>2, <1>3, <1>5 DEF ConnectionOK, OnLadder
<1>7. ReadWasAccepted(d, known) /\ TriedIsOwn(d)
  BY <1>3 DEF ConnectionOK, ReadWasAccepted, TriedIsOwn
<1>8. ConnectionOK(d, known)
  BY <1>6, <1>7 DEF ConnectionOK
<1>9. QED
  BY <1>8 DEF d

LEMMA NextHop ==
  ASSUME NEW c, NEW known, ConnectionOK(c, known), c.hop < Len(c.plan.route)
  PROVE  ConnectionOK([c EXCEPT !.hop = @ + 1, !.step = "host_key", !.rung = 1,
                                !.secret = NoSecret, !.kind = "none", !.save = FALSE], known)
<1> DEFINE d == [c EXCEPT !.hop = @ + 1, !.step = "host_key", !.rung = 1,
                          !.secret = NoSecret, !.kind = "none", !.save = FALSE]
<1>1. c \in ConnectionType /\ c.hop \in Nat
  BY DEF ConnectionOK, OnLadder, ConnectionType
<1>2. d \in ConnectionType
  <2>1. ASSUME NEW n \in Nat
        PROVE  [c EXCEPT !.hop = n, !.step = "host_key", !.rung = 1, !.secret = NoSecret,
                         !.kind = "none", !.save = FALSE] \in ConnectionType
    BY <1>1, NullsTyped DEF ConnectionType, Step
  <2>2. c.hop + 1 \in Nat
    BY <1>1
  <2>3. QED
    BY <2>1, <2>2
<1>3. d.step = "host_key" /\ d.plan = c.plan /\ d.hop = c.hop + 1
  BY <1>1 DEF ConnectionType
<1>4. d.rung = 1 /\ d.known = c.known
  BY <1>1 DEF ConnectionType
<1> HIDE DEF d
<1>5. c.plan.route \in Seq(Target)
  BY <1>1, SshConnectionsAssumption DEF SshConnectionsAssumption, ConnectionType
<1>6. d.hop \in DOMAIN d.plan.route
  BY <1>1, <1>3, <1>5
<1>7. \A t \in Target : d.known[t] \subseteq known[t]
  BY <1>4 DEF ConnectionOK, ReadWasAccepted
<1>8. ConnectionOK(d, known)
  BY <1>2, <1>3, <1>4, <1>6, <1>7, AtFirstRung
<1>9. QED
  BY <1>8 DEF d

LEMMA Tries ==
  ASSUME NEW c, NEW known, ConnectionOK(c, known), NEW x \in SecretType,
         NEW k \in CredentialKind, NEW save \in BOOLEAN, save => x.save,
         RungOf(c)[1] # "temporary" => x.scope = c.plan.scope \/ x.save
  PROVE  /\ ConnectionOK([c EXCEPT !.step = "attempt", !.secret = x, !.kind = k,
                                   !.save = save], known)
         /\ c.kind \in CredentialKind
              => ConnectionOK([c EXCEPT !.step = "attempt", !.secret = x, !.save = save], known)
<1>1. c \in ConnectionType
  BY DEF ConnectionOK, OnLadder
<1>2. ASSUME NEW d \in ConnectionType, d.step = "attempt", d.plan = c.plan, d.hop = c.hop,
             d.rung = c.rung, d.known = c.known, d.secret = x, d.save = save,
             d.kind \in CredentialKind
      PROVE  ConnectionOK(d, known)
  <2>1. LadderOf(d) = LadderOf(c)
    BY <1>2, SameHop
  <2>2. RungOf(d) = RungOf(c)
    BY <1>2, <2>1 DEF RungOf
  <2>3. OnLadder(d)
    BY <1>2, <2>1 DEF ConnectionOK, OnLadder
  <2>4. ReadWasAccepted(d, known)
    BY <1>2 DEF ConnectionOK, ReadWasAccepted
  <2>5. TriedIsOwn(d)
    BY <1>2, <2>2 DEF TriedIsOwn
  <2>6. QED
    BY <2>3, <2>4, <2>5 DEF ConnectionOK
<1>3. ConnectionOK([c EXCEPT !.step = "attempt", !.secret = x, !.kind = k, !.save = save], known)
  <2> DEFINE d == [c EXCEPT !.step = "attempt", !.secret = x, !.kind = k, !.save = save]
  <2>1. d \in ConnectionType
    BY <1>1 DEF ConnectionType, Step
  <2>2. d.step = "attempt" /\ d.plan = c.plan /\ d.hop = c.hop /\ d.rung = c.rung
    BY <1>1 DEF ConnectionType
  <2>3. d.known = c.known /\ d.secret = x
    BY <1>1 DEF ConnectionType
  <2>4. d.save = save /\ d.kind = k
    BY <1>1 DEF ConnectionType
  <2> HIDE DEF d
  <2>5. ConnectionOK(d, known)
    BY <1>2, <2>1, <2>2, <2>3, <2>4
  <2>6. QED
    BY <2>5 DEF d
<1>4. ASSUME c.kind \in CredentialKind
      PROVE  ConnectionOK([c EXCEPT !.step = "attempt", !.secret = x, !.save = save], known)
  <2> DEFINE d == [c EXCEPT !.step = "attempt", !.secret = x, !.save = save]
  <2>1. d \in ConnectionType
    BY <1>1 DEF ConnectionType, Step
  <2>2. d.step = "attempt" /\ d.plan = c.plan /\ d.hop = c.hop /\ d.rung = c.rung
    BY <1>1 DEF ConnectionType
  <2>3. d.known = c.known /\ d.secret = x
    BY <1>1 DEF ConnectionType
  <2>4. d.save = save /\ d.kind = c.kind
    BY <1>1 DEF ConnectionType
  <2> HIDE DEF d
  <2>5. ConnectionOK(d, known)
    BY <1>2, <1>4, <2>1, <2>2, <2>3, <2>4
  <2>6. QED
    BY <2>5 DEF d
<1>5. QED
  BY <1>3, <1>4

LEMMA Prompts ==
  ASSUME NEW c, NEW known, ConnectionOK(c, known), NEW k \in CredentialKind
  PROVE  ConnectionOK([c EXCEPT !.step = "asks_secret", !.kind = k, !.secret = NoSecret,
                                !.rung = Len(LadderOf(c))], known)
<1> DEFINE d == [c EXCEPT !.step = "asks_secret", !.kind = k, !.secret = NoSecret,
                          !.rung = Len(LadderOf(c))]
<1>1. c \in ConnectionType
  BY DEF ConnectionOK, OnLadder
<1>2. Len(LadderOf(c)) \in Nat \ {0}
  BY LadderShape DEF LadderOf
<1>3. d \in ConnectionType
  BY <1>1, <1>2, NullsTyped DEF ConnectionType, Step
<1>4. d.step = "asks_secret" /\ d.plan = c.plan /\ d.hop = c.hop /\ d.known = c.known
        /\ d.rung = Len(LadderOf(c)) /\ d.kind = k
  BY <1>1 DEF ConnectionType
<1> HIDE DEF d
<1>5. LadderOf(d) = LadderOf(c)
  BY <1>4, SameHop
<1>6. OnLadder(d)
  BY <1>2, <1>3, <1>4, <1>5 DEF ConnectionOK, OnLadder
<1>7. ReadWasAccepted(d, known) /\ TriedIsOwn(d)
  BY <1>4 DEF ConnectionOK, ReadWasAccepted, TriedIsOwn
<1>8. ConnectionOK(d, known)
  BY <1>6, <1>7 DEF ConnectionOK
<1>9. QED
  BY <1>8 DEF d

-----------------------------------------------------------------------------
(* Connections and the desk, step by step.                                 *)

\* What was accepted stays accepted.
LEMMA StillOK ==
  ASSUME NEW c, NEW known, NEW more, ConnectionOK(c, known),
         \A t \in Target : known[t] \subseteq more[t]
  PROVE  ConnectionOK(c, more)
<1>1. OnLadder(c)
  BY DEF ConnectionOK
<1>2. HopOf(c) \in Target
  BY <1>1, AtHop
<1>3. ReadWasAccepted(c, more)
  BY <1>2 DEF ConnectionOK, ReadWasAccepted
<1>4. QED
  BY <1>1, <1>3 DEF ConnectionOK

\* A step of the desk is about one worker.
OnlyEntry(w) ==
    /\ DOMAIN desk' = Worker
    /\ DeskEntry(desk'[w])
    /\ \A v \in Worker \ {w} : desk'[v] = desk[v]

LEMMA AsksEntry ==
  ASSUME ConnectionsOK, NEW w \in Worker, NEW s, NEW c, c.target \in Target, Asks(w, s, c)
  PROVE  OnlyEntry(w) /\ desk'[w] # Silent
<1>1. DOMAIN desk = Worker
  BY DEF ConnectionsOK
<1>2. desk' = [desk EXCEPT ![w] = [state |-> "waiting", scope |-> s, challenge |-> c]]
  BY DEF Asks
<1>3. desk'[w] = [state |-> "waiting", scope |-> s, challenge |-> c]
  BY <1>1, <1>2
<1>4. DeskEntry(desk'[w]) /\ desk'[w].state = "waiting"
  BY <1>3 DEF DeskEntry
<1>5. DOMAIN desk' = Worker /\ \A v \in Worker \ {w} : desk'[v] = desk[v]
  BY <1>1, <1>2
<1>6. QED
  BY <1>4, <1>5 DEF OnlyEntry, Silent

LEMMA TakesEntry ==
  ASSUME ConnectionsOK, NEW w \in Worker, Takes(w)
  PROVE  OnlyEntry(w) /\ desk'[w] = Silent
<1>1. DOMAIN desk = Worker
  BY DEF ConnectionsOK
<1>2. desk' = [desk EXCEPT ![w] = Silent]
  BY DEF Takes
<1>3. DOMAIN desk' = Worker /\ desk'[w] = Silent /\ \A v \in Worker \ {w} : desk'[v] = desk[v]
  BY <1>1, <1>2
<1>4. QED
  BY <1>3 DEF OnlyEntry, DeskEntry, Silent

LEMMA RepliesEntry ==
  ASSUME ConnectionsOK, NEW w \in Worker, Replies(w) \/ Errs(w)
  PROVE  OnlyEntry(w) /\ desk'[w] # Silent /\ desk[w] # Silent
<1>1. DOMAIN desk = Worker /\ DeskEntry(desk[w])
  BY DEF ConnectionsOK
<1>2. desk[w].state = "waiting"
  BY DEF Replies, Errs, Waiting
<1>3. CASE Replies(w)
  <2>1. PICK x \in Fits(desk[w].challenge) :
          desk' = [desk EXCEPT ![w] = [state |-> "answered", scope |-> desk[w].scope,
                                       challenge |-> desk[w].challenge, reply |-> x]]
    BY <1>1, <1>3 DEF Replies
  <2>2. desk'[w] = [state |-> "answered", scope |-> desk[w].scope,
                    challenge |-> desk[w].challenge, reply |-> x]
    BY <1>1, <2>1
  <2>3. x.kind = "credential" => x.target \in Target
    BY <1>1, <1>2 DEF Fits, AnswerTo, Cancel, DeskEntry
  <2>4. DeskEntry(desk'[w]) /\ desk'[w].state = "answered"
    BY <2>2, <2>3 DEF DeskEntry
  <2>5. DOMAIN desk' = Worker /\ \A v \in Worker \ {w} : desk'[v] = desk[v]
    BY <1>1, <2>1
  <2>6. QED
    BY <1>2, <2>4, <2>5 DEF OnlyEntry, Silent
<1>4. CASE Errs(w)
  <2>1. desk' = [desk EXCEPT ![w] = [state |-> "failed"]]
    BY <1>4 DEF Errs
  <2>2. desk'[w] = [state |-> "failed"]
    BY <1>1, <2>1
  <2>3. DeskEntry(desk'[w]) /\ desk'[w].state = "failed"
    BY <2>2 DEF DeskEntry
  <2>4. DOMAIN desk' = Worker /\ \A v \in Worker \ {w} : desk'[v] = desk[v]
    BY <1>1, <2>1
  <2>5. QED
    BY <1>2, <2>3, <2>4 DEF OnlyEntry, Silent
<1>5. QED
  BY <1>3, <1>4

LEMMA SameEntry ==
  ASSUME ConnectionsOK, NEW w \in Worker, UNCHANGED desk
  PROVE  OnlyEntry(w)
  BY DEF ConnectionsOK, OnlyEntry

\* A step changes one connection, to one that is sound, and its entry at the desk.
LEMMA OneConnection ==
  ASSUME ConnectionsOK, NEW w \in Worker, NEW c, connection' = [connection EXCEPT ![w] = c],
         ConnectionOK(c, accepted'), \A t \in Target : accepted[t] \subseteq accepted'[t],
         OnlyEntry(w), desk'[w] # Silent <=> c.step \in Asking
  PROVE  ConnectionsOK'
<1>1. c \in ConnectionType
  BY DEF ConnectionOK, OnLadder
<1>2. connection \in [Worker -> ConnectionType]
  BY DEF ConnectionsOK
<1>3. connection' \in [Worker -> ConnectionType] /\ connection'[w] = c
  BY <1>1, <1>2
<1>4. \A v \in Worker \ {w} : connection'[v] = connection[v]
  BY <1>2
<1>5. DOMAIN desk' = Worker
  BY DEF OnlyEntry
<1>6. ASSUME NEW v \in Worker
      PROVE  /\ ConnectionOK(connection'[v], accepted')
             /\ DeskEntry(desk'[v])
             /\ desk'[v] # Silent <=> connection'[v].step \in Asking
  <2>1. CASE v = w
    BY <1>3, <2>1 DEF OnlyEntry
  <2>2. CASE v # w
    <3>1. connection'[v] = connection[v] /\ desk'[v] = desk[v]
      BY <1>4, <2>2 DEF OnlyEntry
    <3>2. /\ ConnectionOK(connection[v], accepted)
          /\ DeskEntry(desk[v])
          /\ desk[v] # Silent <=> connection[v].step \in Asking
      BY DEF ConnectionsOK
    <3>3. ConnectionOK(connection[v], accepted')
      BY <3>2, StillOK
    <3>4. QED
      BY <3>1, <3>2, <3>3
  <2>3. QED
    BY <2>1, <2>2
<1>7. QED
  BY <1>3, <1>5, <1>6 DEF ConnectionsOK

\* A step that asks nothing and accepts no key.
LEMMA QuietStep ==
  ASSUME ConnectionsOK, NEW w \in Worker, NEW c, connection' = [connection EXCEPT ![w] = c],
         ConnectionOK(c, accepted), UNCHANGED <<desk, accepted>>,
         connection[w].step \notin Asking, c.step \notin Asking
  PROVE  ConnectionsOK'
<1>1. OnlyEntry(w)
  BY SameEntry
<1>2. desk'[w] # Silent <=> c.step \in Asking
  BY DEF ConnectionsOK
<1>3. ConnectionOK(c, accepted') /\ \A t \in Target : accepted[t] \subseteq accepted'[t]
  OBVIOUS
<1>4. QED
  BY <1>1, <1>2, <1>3, OneConnection

\* A connection that ends, by itself or with the answer it waited for.
LEMMA FailsStep ==
  ASSUME ConnectionsOK, NEW w \in Worker, Fails(w), UNCHANGED accepted,
         Takes(w) \/ (UNCHANGED desk /\ connection[w].step \notin Asking)
  PROVE  ConnectionsOK'
<1>1. connection' = [connection EXCEPT ![w] = NoConnection]
  BY DEF Fails, Set
<1>2. ConnectionOK(NoConnection, accepted')
  BY OverIsOK
<1>3. OnlyEntry(w) /\ desk'[w] = Silent
  BY TakesEntry, SameEntry DEF ConnectionsOK
<1>4. NoConnection.step \notin Asking
  BY NullsTyped DEF Asking
<1>5. \A t \in Target : accepted[t] \subseteq accepted'[t]
  OBVIOUS
<1>6. QED
  BY <1>1, <1>2, <1>3, <1>4, <1>5, OneConnection

LEMMA ConnectionIs ==
  ASSUME ConnectionsOK, NEW w \in Worker
  PROVE  /\ ConnectionOK(connection[w], accepted) /\ OnLadder(connection[w])
         /\ Hop(w) = HopOf(connection[w]) /\ Hop(w) \in Target
         /\ Ladder(w) = LadderOf(connection[w]) /\ Rung(w) = RungOf(connection[w])
         /\ Home(w) = connection[w].plan.scope /\ Home(w) \in Scope
<1>1. ConnectionOK(connection[w], accepted) /\ OnLadder(connection[w])
  BY DEF ConnectionsOK, ConnectionOK
<1>2. QED
  BY <1>1, AtHop, SameLadder DEF Home

LEMMA ConnectKeeps ==
  ASSUME ConnectionsOK, NEW w \in Worker, Connect(w)
  PROVE  ConnectionsOK'
<1>1. PICK p \in Plan : connection' = [connection EXCEPT ![w] =
                           [NoConnection EXCEPT !.plan = p, !.step = "host_key"]]
  BY DEF Connect, Set
<1> DEFINE c == [NoConnection EXCEPT !.plan = p, !.step = "host_key"]
<1>2. c \in ConnectionType
  BY NullsTyped DEF ConnectionType, Step
<1>3. c.plan = p /\ c.step = "host_key" /\ c.hop = 1 /\ c.rung = 1 /\ c.known = NoTrust
  BY NullsTyped DEF ConnectionType
<1> HIDE DEF c
<1>4. p.route \in Seq(Target) \ {<<>>}
  BY SshConnectionsAssumption DEF SshConnectionsAssumption
<1>5. c.hop \in DOMAIN c.plan.route
  BY <1>3, <1>4
<1>6. \A t \in Target : c.known[t] \subseteq accepted[t]
  BY <1>3 DEF NoTrust
<1>7. ConnectionOK(c, accepted)
  BY <1>2, <1>3, <1>5, <1>6, AtFirstRung
<1>8. connection[w].step = "idle" /\ UNCHANGED <<desk, accepted>>
  BY DEF Connect, stores
<1>9. connection' = [connection EXCEPT ![w] = c]
  BY <1>1 DEF c
<1>10. connection[w].step \notin Asking /\ c.step \notin Asking
  BY <1>3, <1>8 DEF Asking
<1>11. QED
  BY <1>7, <1>8, <1>9, <1>10, QuietStep

LEMMA VerifyKeeps ==
  ASSUME ConnectionsOK, KeysOK, NEW w \in Worker, VerifyHostKey(w)
  PROVE  ConnectionsOK' /\ KeysOK'
<1> DEFINE t == Hop(w)
<1>1. /\ OnLadder(connection[w]) /\ t = HopOf(connection[w]) /\ t \in Target
      /\ Presented[t] \in HostKey /\ connection[w].step = "host_key"
  BY ConnectionIs, AtHop DEF VerifyHostKey
<1>2. trust' = trust /\ accepted' = IF ~ trust.torn /\ Verdict(w) = "truncate"
         THEN [accepted EXCEPT ![t] = accepted[t] \cup {Presented[t]}] ELSE accepted
  BY DEF VerifyHostKey
<1>3. \A u \in Target : accepted[u] \subseteq accepted'[u]
  BY <1>2 DEF KeysOK
<1>4. accepted' \in [Target -> SUBSET HostKey]
  BY <1>1, <1>2 DEF KeysOK
<1>5. KeysOK'
  <2>1. \A u \in Target : trust'.keys[u] \subseteq accepted'[u]
    BY <1>2, <1>3 DEF KeysOK, TrustedWereAccepted
  <2>2. trust' \in [keys : [Target -> SUBSET HostKey], torn : BOOLEAN]
    BY <1>2 DEF KeysOK
  <2>3. QED
    BY <1>4, <2>1, <2>2 DEF KeysOK, TrustedWereAccepted
<1>6. CASE trust.torn
  <2>1. Fails(w) /\ UNCHANGED desk /\ UNCHANGED accepted
    BY <1>2, <1>6 DEF VerifyHostKey
  <2>2. connection[w].step \notin Asking
    BY <1>1 DEF Asking
  <2>3. QED
    BY <1>5, <2>1, <2>2, FailsStep
<1>7. CASE ~ trust.torn
  <2> DEFINE s == Verdict(w)
             read == IF s = "climb" THEN NoTrust ELSE trust.keys
             c == [connection[w] EXCEPT !.step = s, !.rung = 1, !.known = read]
  <2>1. /\ connection' = [connection EXCEPT ![w] = c]
        /\ IF s = "asks_key"
           THEN Asks(w, Home(w), [target |-> t, kind |-> KindOfKey(w)])
           ELSE UNCHANGED desk
    BY <1>7 DEF VerifyHostKey, Set
  <2>2. s \in {"climb", "truncate", "asks_key"}
    BY DEF Verdict
  <2>3. read \in [Target -> SUBSET HostKey]
    BY NullsTyped DEF KeysOK
  <2>4. \A u \in Target : read[u] \subseteq accepted'[u]
    <3>1. \A u \in Target : trust.keys[u] \subseteq accepted'[u]
      BY <1>3 DEF KeysOK, TrustedWereAccepted
    <3>2. \A u \in Target : NoTrust[u] \subseteq accepted'[u]
      BY DEF NoTrust
    <3>3. QED
      BY <3>1, <3>2
  <2>5. s = "truncate" => Presented[t] \in accepted'[t]
    BY <1>1, <1>2, <1>7 DEF KeysOK
  <2> HIDE DEF s, read
  <2>6. ConnectionOK(c, accepted')
    BY <1>1, <2>2, <2>3, <2>4, <2>5, Verifies
  <2>7. c.step = s
    BY <1>1 DEF OnLadder, ConnectionType
  <2>8. desk[w] = Silent
    BY <1>1 DEF ConnectionsOK, Asking
  <2>9. OnlyEntry(w) /\ (desk'[w] # Silent <=> s \in Asking)
    <3>1. CASE s = "asks_key"
      <4> DEFINE ch == [target |-> t, kind |-> KindOfKey(w)]
      <4>1. Asks(w, Home(w), ch)
        BY <2>1, <3>1
      <4>2. ch.target \in Target
        BY <1>1
      <4> HIDE DEF ch
      <4>3. OnlyEntry(w) /\ desk'[w] # Silent
        BY <4>1, <4>2, AsksEntry
      <4>4. QED
        BY <3>1, <4>3 DEF Asking
    <3>2. CASE s # "asks_key"
      <4>1. UNCHANGED desk /\ s \notin Asking
        BY <2>1, <2>2, <3>2 DEF Asking
      <4>2. QED
        BY <2>8, <4>1, SameEntry
    <3>3. QED
      BY <3>1, <3>2
  <2> HIDE DEF c
  <2>10. QED
    BY <1>3, <1>5, <2>1, <2>6, <2>7, <2>9, OneConnection
<1>8. QED
  BY <1>6, <1>7

LEMMA HostKeyAnsweredKeeps ==
  ASSUME ConnectionsOK, KeysOK, NEW w \in Worker, HostKeyAnswered(w)
  PROVE  ConnectionsOK' /\ KeysOK'
<1> DEFINE t == Hop(w)
           c == [connection[w] EXCEPT !.step = "truncate"]
<1>1. /\ ConnectionOK(connection[w], accepted) /\ OnLadder(connection[w])
      /\ t = HopOf(connection[w]) /\ t \in Target /\ Presented[t] \in HostKey
  BY ConnectionIs, AtHop
<1>2. trust' = trust /\ Takes(w)
  BY DEF HostKeyAnswered
<1>3. \/ /\ connection' = [connection EXCEPT ![w] = c]
         /\ accepted' = [accepted EXCEPT ![t] = accepted[t] \cup {Presented[t]}]
      \/ Fails(w) /\ UNCHANGED accepted
  BY DEF HostKeyAnswered, To, Set
<1>4. accepted' \in [Target -> SUBSET HostKey] /\ \A u \in Target : accepted[u] \subseteq accepted'[u]
  BY <1>1, <1>3 DEF KeysOK
<1>5. KeysOK'
  <2>1. \A u \in Target : trust'.keys[u] \subseteq accepted'[u]
    BY <1>2, <1>4 DEF KeysOK, TrustedWereAccepted
  <2>2. trust' \in [keys : [Target -> SUBSET HostKey], torn : BOOLEAN]
    BY <1>2 DEF KeysOK
  <2>3. QED
    BY <1>4, <2>1, <2>2 DEF KeysOK, TrustedWereAccepted
<1>6. CASE Fails(w) /\ UNCHANGED accepted
  BY <1>2, <1>5, <1>6, FailsStep
<1>7. CASE /\ connection' = [connection EXCEPT ![w] = c]
           /\ accepted' = [accepted EXCEPT ![t] = accepted[t] \cup {Presented[t]}]
  <2>1. ConnectionOK(connection[w], accepted')
    BY <1>1, <1>4, StillOK
  <2>2. Presented[t] \in accepted'[t]
    BY <1>1, <1>7 DEF KeysOK
  <2>3. ConnectionOK(c, accepted')
    BY <1>1, <2>1, <2>2, MovesTo
  <2>4. c.step = "truncate"
    BY <1>1 DEF OnLadder, ConnectionType
  <2> HIDE DEF c
  <2>5. desk'[w] # Silent <=> c.step \in Asking
    BY <1>2, <2>4, TakesEntry DEF Asking
  <2>6. OnlyEntry(w)
    BY <1>2, TakesEntry
  <2>7. QED
    BY <1>4, <1>5, <1>7, <2>3, <2>5, <2>6, OneConnection
<1>8. QED
  BY <1>3, <1>6, <1>7

\* The trust file is emptied, and then holds what was read and the accepted key.
LEMMA TruncateKeeps ==
  ASSUME ConnectionsOK, KeysOK, NEW w \in Worker, TruncateTrust(w)
  PROVE  ConnectionsOK' /\ KeysOK'
<1> DEFINE c == [connection[w] EXCEPT !.step = "write"]
<1>1. /\ ConnectionOK(connection[w], accepted) /\ connection[w] \in ConnectionType
      /\ connection[w].step = "truncate"
  BY ConnectionIs DEF TruncateTrust, OnLadder
<1>2. Presented[HopOf(connection[w])] \in accepted[HopOf(connection[w])]
  BY <1>1 DEF ConnectionOK, ReadWasAccepted
<1>3. ConnectionOK(c, accepted)
  BY <1>1, <1>2, MovesTo
<1>4. c.step \notin Asking /\ connection[w].step \notin Asking
  BY <1>1 DEF ConnectionType, Asking
<1>5. connection' = [connection EXCEPT ![w] = c] /\ UNCHANGED <<desk, accepted>>
  BY DEF TruncateTrust, To, Set
<1> HIDE DEF c
<1>6. ConnectionsOK'
  BY <1>3, <1>4, <1>5, QuietStep
<1>7. KeysOK'
  <2>1. trust' = [keys |-> NoTrust, torn |-> FALSE] /\ accepted' = accepted
    BY DEF TruncateTrust
  <2>2. \A t \in Target : NoTrust[t] = {}
    BY DEF NoTrust
  <2>3. QED
    BY <2>1, <2>2, NullsTyped DEF KeysOK, TrustedWereAccepted
<1>8. QED
  BY <1>6, <1>7

LEMMA WriteKeeps ==
  ASSUME ConnectionsOK, KeysOK, NEW w \in Worker, WriteTrust(w)
  PROVE  ConnectionsOK' /\ KeysOK'
<1> DEFINE c == [connection[w] EXCEPT !.step = "climb", !.known = NoTrust]
           t == HopOf(connection[w])
<1>1. /\ ConnectionOK(connection[w], accepted) /\ connection[w] \in ConnectionType
      /\ connection[w].step = "write"
  BY ConnectionIs DEF WriteTrust, OnLadder
<1>2. ConnectionOK(c, accepted)
  BY <1>1, Written
<1>3. c.step \notin Asking /\ connection[w].step \notin Asking
  BY <1>1 DEF ConnectionType, Asking
<1>4. connection' = [connection EXCEPT ![w] = c] /\ UNCHANGED <<desk, accepted>>
  BY DEF WriteTrust, Set
<1> HIDE DEF c
<1>5. ConnectionsOK'
  BY <1>2, <1>3, <1>4, QuietStep
<1>6. Hop(w) = t /\ t \in Target /\ Presented[t] \in HostKey
  BY ConnectionIs, AtHop
<1>7. connection[w].known \in [Target -> SUBSET HostKey]
  BY <1>1 DEF ConnectionType
<1>8. Upserted(w) = [connection[w].known EXCEPT ![t] = connection[w].known[t] \cup {Presented[t]}]
  BY <1>6 DEF Upserted
<1>9. Upserted(w) \in [Target -> SUBSET HostKey]
  BY <1>6, <1>7, <1>8
<1>10. \A u \in Target : Upserted(w)[u] \subseteq accepted[u]
  <2>1. Presented[t] \in accepted[t] /\ \A u \in Target : connection[w].known[u] \subseteq accepted[u]
    BY <1>1 DEF ConnectionOK, ReadWasAccepted
  <2>2. QED
    BY <1>6, <1>7, <1>8, <2>1
<1>11. \A u \in Target : NoTrust[u] = {}
  BY DEF NoTrust
<1>12. /\ accepted' = accepted
       /\ \/ trust' = [keys |-> Upserted(w), torn |-> FALSE]
          \/ trust' = [keys |-> NoTrust, torn |-> TRUE]
  BY DEF WriteTrust
<1>13. KeysOK'
  <2>1. trust'.keys \in {Upserted(w), NoTrust}
    BY <1>12
  <2>2. trust' \in [keys : [Target -> SUBSET HostKey], torn : BOOLEAN]
    <3>1. CASE trust' = [keys |-> Upserted(w), torn |-> FALSE]
      BY <1>9, <3>1
    <3>2. CASE trust' = [keys |-> NoTrust, torn |-> TRUE]
      BY <3>2, NullsTyped
    <3>3. QED
      BY <1>12, <3>1, <3>2
  <2>3. \A u \in Target : trust'.keys[u] \subseteq accepted[u]
    BY <1>10, <1>11, <2>1
  <2>4. accepted' \in [Target -> SUBSET HostKey]
    BY <1>12 DEF KeysOK
  <2>5. QED
    BY <1>12, <2>2, <2>3, <2>4 DEF KeysOK, TrustedWereAccepted
<1>14. QED
  BY <1>5, <1>13

-----------------------------------------------------------------------------
(* The ladder.                                                             *)

\* A rung that is not the prompt has one after it.
LEMMA NextRungKeeps ==
  ASSUME ConnectionsOK, NEW w \in Worker, NextRung(w), Rung(w)[1] # "prompt",
         connection[w].step \notin Asking, UNCHANGED <<desk, accepted>>
  PROVE  ConnectionsOK'
<1> DEFINE c == [connection[w] EXCEPT !.rung = @ + 1, !.step = "climb", !.secret = NoSecret,
                                      !.kind = "none"]
<1>1. /\ ConnectionOK(connection[w], accepted) /\ OnLadder(connection[w])
      /\ Rung(w) = RungOf(connection[w])
  BY ConnectionIs
<1>2. connection[w].rung < Len(LadderOf(connection[w]))
  <2> DEFINE l == LadderOf(connection[w])
  <2>1. l \in {LongLadder, ShortLadder} /\ connection[w].rung \in 1..Len(l)
    BY <1>1, AtHop DEF OnLadder
  <2>2. l[connection[w].rung][1] # "prompt"
    BY <1>1 DEF RungOf
  <2> HIDE DEF l
  <2>3. Len(l) \in Nat /\ connection[w].rung # Len(l)
    BY <2>1, <2>2, LadderShape
  <2>4. connection[w].rung < Len(l)
    BY <2>1, <2>3
  <2>5. QED
    BY <2>4 DEF l
<1>3. ConnectionOK(c, accepted)
  BY <1>1, <1>2, ClimbsOn
<1>4. c.step = "climb"
  BY <1>1 DEF OnLadder, ConnectionType
<1>5. connection' = [connection EXCEPT ![w] = c]
  BY DEF NextRung, Set
<1> HIDE DEF c
<1>6. QED
  BY <1>3, <1>4, <1>5, QuietStep DEF Asking

LEMMA AuthenticatedKeeps ==
  ASSUME ConnectionsOK, NEW w \in Worker, Authenticated(w),
         connection[w].step \notin Asking, UNCHANGED <<desk, accepted>>
  PROVE  ConnectionsOK'
<1>1. ConnectionOK(connection[w], accepted) /\ OnLadder(connection[w])
  BY ConnectionIs
<1>2. CASE connection[w].hop < Len(connection[w].plan.route)
  <2> DEFINE c == [connection[w] EXCEPT !.hop = @ + 1, !.step = "host_key", !.rung = 1,
                                        !.secret = NoSecret, !.kind = "none", !.save = FALSE]
  <2>1. ConnectionOK(c, accepted)
    BY <1>1, <1>2, NextHop
  <2>2. c.step = "host_key"
    BY <1>1 DEF OnLadder, ConnectionType
  <2>3. connection' = [connection EXCEPT ![w] = c]
    BY <1>2 DEF Authenticated, Set
  <2> HIDE DEF c
  <2>4. QED
    BY <2>1, <2>2, <2>3, QuietStep DEF Asking
<1>3. CASE ~ (connection[w].hop < Len(connection[w].plan.route))
  <2>1. Fails(w)
    BY <1>3 DEF Authenticated, Fails
  <2>2. UNCHANGED accepted /\ UNCHANGED desk
    OBVIOUS
  <2>3. QED
    BY <2>1, <2>2, FailsStep
<1>4. QED
  BY <1>2, <1>3

\* A secret at hand is one of the scope, or of the keyring, and of a kind that is kept.
LEMMA SecretAtHand ==
  ASSUME ConnectionsOK, StoredOK, NEW w \in Worker,
         Rung(w)[1] \in {"temporary", "given", "keyring"}
  PROVE  /\ Rung(w)[2] \in CredentialKind
         /\ SecretAt(w) \in SecretType
         /\ SecretAt(w) # NoSecret /\ Rung(w)[1] # "temporary"
              => SecretAt(w).scope = Home(w) \/ SecretAt(w).save
         /\ SecretAt(w) # NoSecret /\ Rung(w)[1] = "given"
              => SecretAt(w).save = connection[w].plan.save
<1> DEFINE k == Rung(w)[2]
           given == Secret(Home(w), Hop(w), k, 1, connection[w].plan.save)
<1>1. /\ OnLadder(connection[w]) /\ Hop(w) \in Target /\ Home(w) \in Scope
      /\ Rung(w) = RungOf(connection[w]) /\ connection[w].plan.save \in BOOLEAN
  BY ConnectionIs, AtHop
<1>2. k \in CredentialKind
  <2> DEFINE l == LadderOf(connection[w])
  <2>1. l \in {LongLadder, ShortLadder} /\ connection[w].rung \in 1..Len(l)
    BY <1>1, AtHop DEF OnLadder
  <2>2. Rung(w) = l[connection[w].rung]
    BY <1>1 DEF RungOf
  <2> HIDE DEF l
  <2>3. QED
    BY <2>1, <2>2, LadderShape
<1>3. CASE Rung(w)[1] = "temporary"
  <2>1. SecretAt(w) = temporary[CredentialKey(w, k)]
    BY <1>3 DEF SecretAt
  <2>2. CredentialKey(w, k) \in Scope \X Target \X CredentialKind
    BY <1>1, <1>2 DEF CredentialKey
  <2> HIDE DEF k
  <2>3. SecretAt(w) \in SecretType
    BY <2>1, <2>2 DEF StoredOK, TemporaryOK
  <2>4. QED
    BY <1>2, <1>3, <2>3 DEF k
<1>4. CASE Rung(w)[1] = "keyring"
  <2>1. SecretAt(w) = keyring[<<Hop(w), k>>]
    BY <1>4 DEF SecretAt
  <2>2. <<Hop(w), k>> \in Target \X CredentialKind
    BY <1>1, <1>2
  <2> HIDE DEF k
  <2>3. SecretAt(w) \in SecretType
    BY <2>1, <2>2 DEF StoredOK, KeyringOK
  <2>4. SecretAt(w) # NoSecret => SecretAt(w).save
    BY <2>1, <2>2 DEF StoredOK, KeyringOK
  <2>5. QED
    BY <1>2, <1>4, <2>3, <2>4 DEF k
<1>5. CASE Rung(w)[1] = "given"
  <2>1. SecretAt(w) \in {given, NoSecret}
    BY <1>5 DEF SecretAt
  <2> HIDE DEF k
  <2>2. given \in SecretType /\ given.scope = Home(w) /\ given.save = connection[w].plan.save
    BY <1>1, <1>2 DEF Secret, SecretType
  <2> HIDE DEF given
  <2>3. SecretAt(w) \in SecretType
    BY <2>1, <2>2, NullsTyped
  <2>4. SecretAt(w) # NoSecret => SecretAt(w) = given
    BY <2>1
  <2>5. QED
    BY <1>2, <1>5, <2>2, <2>3, <2>4 DEF k
<1>6. QED
  BY <1>3, <1>4, <1>5

LEMMA ReadSecretKeeps ==
  ASSUME ConnectionsOK, StoredOK, NEW w \in Worker, ReadSecret(w)
  PROVE  ConnectionsOK'
<1> DEFINE save == Rung(w)[1] = "given" /\ connection[w].plan.save
           c == [connection[w] EXCEPT !.step = "attempt", !.secret = SecretAt(w),
                                      !.kind = Rung(w)[2], !.save = save]
<1>1. /\ connection[w].step \notin Asking /\ UNCHANGED <<desk, accepted>>
      /\ Rung(w)[1] \in {"temporary", "given", "keyring"}
  BY DEF ReadSecret, Asking, stores
<1>2. /\ ConnectionOK(connection[w], accepted) /\ OnLadder(connection[w])
      /\ Rung(w) = RungOf(connection[w]) /\ Home(w) = connection[w].plan.scope
      /\ connection[w].plan.save \in BOOLEAN
  BY ConnectionIs, AtHop
<1>3. CASE SecretAt(w) = NoSecret
  <2>1. NextRung(w) /\ Rung(w)[1] # "prompt"
    BY <1>1, <1>3 DEF ReadSecret
  <2>2. QED
    BY <1>1, <2>1, NextRungKeeps
<1>4. CASE SecretAt(w) # NoSecret
  <2>1. SecretAt(w) \in SecretType /\ Rung(w)[2] \in CredentialKind
    BY <1>1, SecretAtHand
  <2>2. save \in BOOLEAN
    OBVIOUS
  <2>3. save => SecretAt(w).save
    BY <1>1, <1>4, SecretAtHand
  <2>4. RungOf(connection[w])[1] # "temporary"
          => SecretAt(w).scope = connection[w].plan.scope \/ SecretAt(w).save
    BY <1>1, <1>2, <1>4, SecretAtHand
  <2>5. connection' = [connection EXCEPT ![w] = c]
    BY <1>4 DEF ReadSecret, Set
  <2> HIDE DEF save
  <2>6. ConnectionOK(c, accepted)
    BY <1>2, <2>1, <2>2, <2>3, <2>4, Tries
  <2>7. c.step = "attempt"
    BY <1>2 DEF OnLadder, ConnectionType
  <2> HIDE DEF c
  <2>8. QED
    BY <1>1, <2>5, <2>6, <2>7, QuietStep DEF Asking
<1>5. QED
  BY <1>3, <1>4

\* The user is asked.
LEMMA AskSecretKeeps ==
  ASSUME ConnectionsOK, NEW w \in Worker, NEW k \in CredentialKind,
         AskSecret(w, k), UNCHANGED accepted
  PROVE  ConnectionsOK'
<1> DEFINE c == [connection[w] EXCEPT !.step = "asks_secret", !.kind = k, !.secret = NoSecret,
                                      !.rung = Len(LadderOf(connection[w]))]
           ch == [target |-> Hop(w), kind |-> k]
<1>1. /\ ConnectionOK(connection[w], accepted) /\ OnLadder(connection[w]) /\ Hop(w) \in Target
      /\ Ladder(w) = LadderOf(connection[w])
  BY ConnectionIs
<1>2. ConnectionOK(c, accepted)
  BY <1>1, Prompts
<1>3. c.step = "asks_secret"
  BY <1>1 DEF OnLadder, ConnectionType
<1>4. connection' = [connection EXCEPT ![w] = c]
  BY <1>1 DEF AskSecret, Set
<1>5. Asks(w, Home(w), ch)
  BY DEF AskSecret
<1>6. ch.target \in Target
  BY <1>1
<1> HIDE DEF c, ch
<1>7. OnlyEntry(w) /\ desk'[w] # Silent
  BY <1>5, <1>6, AsksEntry
<1>8. ConnectionOK(c, accepted') /\ \A t \in Target : accepted[t] \subseteq accepted'[t]
  BY <1>2
<1>9. QED
  BY <1>3, <1>4, <1>7, <1>8, OneConnection DEF Asking

LEMMA AskForMethodKeeps ==
  ASSUME ConnectionsOK, NEW w \in Worker, AskForMethod(w)
  PROVE  ConnectionsOK'
<1>1. connection[w].step \notin Asking /\ UNCHANGED accepted
  BY DEF AskForMethod, Asking, stores
<1>2. \/ AskSecret(w, "key_passphrase") \/ AskSecret(w, "password")
      \/ Fails(w) /\ UNCHANGED desk
  BY DEF AskForMethod
<1>3. CASE AskSecret(w, "key_passphrase")
  BY <1>1, <1>3, AskSecretKeeps DEF CredentialKind
<1>4. CASE AskSecret(w, "password")
  BY <1>1, <1>4, AskSecretKeeps DEF CredentialKind
<1>5. CASE Fails(w) /\ UNCHANGED desk
  BY <1>1, <1>5, FailsStep
<1>6. QED
  BY <1>2, <1>3, <1>4, <1>5

LEMMA SecretAnsweredKeeps ==
  ASSUME ConnectionsOK, StoredOK, NEW w \in Worker, SecretAnswered(w)
  PROVE  ConnectionsOK'
<1>1. Takes(w) /\ UNCHANGED accepted
  BY DEF SecretAnswered, stores
<1>2. CASE Fails(w)
  BY <1>1, <1>2, FailsStep
<1>3. CASE ~ Fails(w)
  <2>1. /\ desk[w].state = "answered" /\ desk[w].reply.kind = "credential"
        /\ \E x \in Typed(w, desk[w].reply.target) :
             Set(w, [connection[w] EXCEPT !.step = "attempt", !.secret = x, !.save = x.save])
    BY <1>3 DEF SecretAnswered
  <2>2. PICK x \in Typed(w, desk[w].reply.target) :
             Set(w, [connection[w] EXCEPT !.step = "attempt", !.secret = x, !.save = x.save])
    BY <2>1
  <2>3. PICK v \in {0, version}, save \in BOOLEAN :
          x = Secret(Home(w), desk[w].reply.target, connection[w].kind, v, save)
    BY <2>2 DEF Typed
  <2> DEFINE c == [connection[w] EXCEPT !.step = "attempt", !.secret = x, !.save = x.save]
  <2>4. desk[w].reply.target \in Target
    BY <2>1 DEF ConnectionsOK, DeskEntry
  <2>5. /\ ConnectionOK(connection[w], accepted) /\ OnLadder(connection[w])
        /\ Home(w) = connection[w].plan.scope /\ Home(w) \in Scope
    BY ConnectionIs
  <2>6. connection[w] \in ConnectionType /\ connection[w].kind \in CredentialKind \cup {"none"}
    BY <2>5 DEF OnLadder, ConnectionType
  <2>7. v \in Nat
    BY SshConnectionsAssumption DEF StoredOK, SshConnectionsAssumption
  <2>8. x \in SecretType
    BY <2>3, <2>4, <2>5, <2>6, <2>7 DEF Secret, SecretType
  <2>9. x.scope = Home(w) /\ x.save \in BOOLEAN
    BY <2>3 DEF Secret
  <2>10. connection' = [connection EXCEPT ![w] = c]
    BY <2>2 DEF Set
  <2>11. x.scope = connection[w].plan.scope
    BY <2>5, <2>9
  <2>12. ConnectionOK(c, accepted)
    <3>1. connection[w].kind \in CredentialKind
      BY <2>5 DEF SecretAnswered, ConnectionOK, TriedIsOwn
    <3>2. QED
      BY <2>5, <2>8, <2>9, <2>11, <3>1, Tries
  <2>13. c.step = "attempt"
    BY <2>6 DEF ConnectionType
  <2> HIDE DEF c
  <2>14. OnlyEntry(w) /\ desk'[w] = Silent
    BY <1>1, TakesEntry
  <2>15. ConnectionOK(c, accepted') /\ \A t \in Target : accepted[t] \subseteq accepted'[t]
    BY <1>1, <2>12
  <2>16. QED
    BY <2>10, <2>13, <2>14, <2>15, OneConnection DEF Asking
<1>4. QED
  BY <1>2, <1>3

LEMMA TryKeysKeeps ==
  ASSUME ConnectionsOK, NEW w \in Worker, TryKeys(w)
  PROVE  ConnectionsOK'
<1>1. /\ connection[w].step \notin Asking /\ UNCHANGED <<desk, accepted>>
      /\ Rung(w)[1] # "prompt" /\ (Authenticated(w) \/ NextRung(w))
  BY DEF TryKeys, Asking, stores
<1>2. QED
  BY <1>1, AuthenticatedKeeps, NextRungKeeps

LEMMA SecretWorksKeeps ==
  ASSUME ConnectionsOK, NEW w \in Worker, SecretWorks(w)
  PROVE  ConnectionsOK'
<1>1. /\ connection[w].step \notin Asking /\ UNCHANGED <<desk, accepted>>
      /\ Authenticated(w) \/ Fails(w)
  BY DEF SecretWorks, Asking
<1>2. UNCHANGED accepted /\ UNCHANGED desk
  BY <1>1
<1>3. QED
  BY <1>1, <1>2, AuthenticatedKeeps, FailsStep

LEMMA SecretFailsKeeps ==
  ASSUME ConnectionsOK, NEW w \in Worker,
         PromptedSecretFails(w) \/ KeptSecretFails(w) \/ OtherSecretFails(w)
  PROVE  ConnectionsOK'
<1>1. connection[w].step \notin Asking /\ UNCHANGED accepted
  BY DEF PromptedSecretFails, KeptSecretFails, OtherSecretFails, Asking, stores
<1>2. CASE PromptedSecretFails(w)
  <2>1. Fails(w) /\ UNCHANGED desk
    BY <1>2 DEF PromptedSecretFails
  <2>2. QED
    BY <1>1, <2>1, FailsStep
<1>3. CASE KeptSecretFails(w)
  <2>1. AskSecret(w, connection[w].kind)
    BY <1>3 DEF KeptSecretFails
  <2>2. connection[w].kind \in CredentialKind
    BY <1>3, ConnectionIs DEF KeptSecretFails, ConnectionOK, TriedIsOwn
  <2>3. QED
    BY <1>1, <2>1, <2>2, AskSecretKeeps
<1>4. CASE OtherSecretFails(w)
  <2>1. NextRung(w) /\ Rung(w)[1] # "prompt" /\ UNCHANGED desk
    BY <1>4 DEF OtherSecretFails
  <2>2. QED
    BY <1>1, <2>1, NextRungKeeps
<1>5. QED
  BY <1>2, <1>3, <1>4

\* The desk lets a worker go that goes on by itself.
LEMMA AnsweredKeeps ==
  ASSUME ConnectionsOK, NEW w \in Worker, Answered(w)
  PROVE  ConnectionsOK'
<1> DEFINE c == connection[w]
<1>1. UNCHANGED <<connection, accepted>> /\ (Replies(w) \/ Errs(w))
  BY DEF Answered, stores
<1>2. connection' = [connection EXCEPT ![w] = c]
  BY <1>1 DEF ConnectionsOK
<1>3. ConnectionOK(c, accepted') /\ \A t \in Target : accepted[t] \subseteq accepted'[t]
  BY <1>1, ConnectionIs
<1>4. OnlyEntry(w) /\ desk'[w] # Silent /\ desk[w] # Silent
  BY <1>1, RepliesEntry
<1>5. c.step \in Asking
  BY <1>4 DEF ConnectionsOK
<1> HIDE DEF c
<1>6. QED
  BY <1>2, <1>3, <1>4, <1>5, OneConnection

\* Every connection stays on its ladder, with secrets and keys of its own.
LEMMA ConnectionsInductive ==
  ASSUME IInv, [Next]_vars
  PROVE  ConnectionsOK'
<1> USE DEF IInv
<1>1. ASSUME NEW w \in Worker, Connect(w) \/ Proceeds(w) \/ Answered(w)
      PROVE  ConnectionsOK'
  <2>1. CASE Connect(w) \/ Answered(w)
    BY <2>1, ConnectKeeps, AnsweredKeeps
  <2>2. CASE VerifyHostKey(w) \/ HostKeyAnswered(w) \/ TruncateTrust(w) \/ WriteTrust(w)
    BY <2>2, VerifyKeeps, HostKeyAnsweredKeeps, TruncateKeeps, WriteKeeps
  <2>3. CASE TryKeys(w) \/ ReadSecret(w) \/ AskForMethod(w) \/ SecretAnswered(w)
    BY <2>3, TryKeysKeeps, ReadSecretKeeps, AskForMethodKeeps, SecretAnsweredKeeps
  <2>4. CASE SecretWorks(w) \/ PromptedSecretFails(w) \/ KeptSecretFails(w) \/ OtherSecretFails(w)
    BY <2>4, SecretWorksKeeps, SecretFailsKeeps
  <2>5. QED
    BY <1>1, <2>1, <2>2, <2>3, <2>4 DEF Proceeds
<1>2. ASSUME UNCHANGED <<desk, connection, accepted>> PROVE ConnectionsOK'
  BY <1>2 DEF ConnectionsOK
<1>3. ASSUME NEW s \in Scope, CloseScope(s) \/ HostOpens(s) PROVE ConnectionsOK'
  BY <1>2, <1>3 DEF CloseScope, HostOpens, stores
<1>4. CASE SecretsChange \/ UNCHANGED vars
  BY <1>2, <1>4 DEF SecretsChange, vars, stores
<1>5. QED
  BY <1>1, <1>3, <1>4 DEF Next

\* The trust file holds accepted keys only, whatever a writer overwrites.
LEMMA KeysInductive ==
  ASSUME IInv, [Next]_vars
  PROVE  KeysOK'
<1> USE DEF IInv
<1>1. ASSUME UNCHANGED <<trust, accepted>> PROVE KeysOK'
  BY <1>1 DEF KeysOK, TrustedWereAccepted
<1>2. ASSUME NEW w \in Worker, Connect(w) \/ Proceeds(w) \/ Answered(w)
      PROVE  KeysOK'
  <2>1. CASE Connect(w) \/ Answered(w)
    BY <1>1, <2>1 DEF Connect, Answered, stores
  <2>2. CASE VerifyHostKey(w) \/ HostKeyAnswered(w) \/ TruncateTrust(w) \/ WriteTrust(w)
    BY <2>2, VerifyKeeps, HostKeyAnsweredKeeps, TruncateKeeps, WriteKeeps
  <2>3. CASE TryKeys(w) \/ ReadSecret(w) \/ AskForMethod(w) \/ SecretAnswered(w)
    BY <1>1, <2>3 DEF TryKeys, ReadSecret, AskForMethod, SecretAnswered, stores
  <2>4. CASE SecretWorks(w) \/ PromptedSecretFails(w) \/ KeptSecretFails(w) \/ OtherSecretFails(w)
    BY <1>1, <2>4 DEF SecretWorks, PromptedSecretFails, KeptSecretFails, OtherSecretFails, stores
  <2>5. QED
    BY <1>2, <2>1, <2>2, <2>3, <2>4 DEF Proceeds
<1>3. ASSUME NEW s \in Scope, CloseScope(s) \/ HostOpens(s) PROVE KeysOK'
  BY <1>1, <1>3 DEF CloseScope, HostOpens, stores
<1>4. CASE SecretsChange \/ UNCHANGED vars
  BY <1>1, <1>4 DEF SecretsChange, vars, stores
<1>5. QED
  BY <1>2, <1>3, <1>4 DEF Next

-----------------------------------------------------------------------------
(* What is kept.                                                           *)

\* One entry of the store of a scope changes, to nothing or to a secret of its own.
LEMMA KeptIsOwn ==
  ASSUME TemporaryOK, NEW k, NEW x \in SecretType, temporary' = [temporary EXCEPT ![k] = x],
         x # NoSecret => /\ x.target = k[2] /\ x.kind = k[3] /\ x.version > 0
                         /\ x.scope = k[1] \/ x.save
  PROVE  TemporaryOK'
<1>1. temporary' \in [Scope \X Target \X CredentialKind -> SecretType]
  BY DEF TemporaryOK
<1>2. DOMAIN temporary' = DOMAIN temporary
  OBVIOUS
<1>3. \A j \in DOMAIN temporary : temporary'[j] = IF j = k THEN x ELSE temporary[j]
  OBVIOUS
<1>4. SecretsStayInScope'
  <2> SUFFICES ASSUME NEW j \in DOMAIN temporary, temporary'[j] # NoSecret
               PROVE  /\ temporary'[j].target = j[2] /\ temporary'[j].kind = j[3]
                      /\ temporary'[j].scope = j[1] \/ temporary'[j].save
    BY <1>2 DEF SecretsStayInScope
  <2>1. CASE j = k
    BY <1>3, <2>1
  <2>2. CASE j # k
    BY <1>3, <2>2 DEF TemporaryOK, SecretsStayInScope
  <2>3. QED
    BY <2>1, <2>2
<1>5. \A j \in DOMAIN temporary : temporary'[j] # NoSecret => temporary'[j].version > 0
  BY <1>3 DEF TemporaryOK
<1>6. QED
  BY <1>1, <1>2, <1>4, <1>5 DEF TemporaryOK

\* A scope's entries are forgotten.
LEMMA ForgottenIsOwn ==
  ASSUME TemporaryOK, NEW s, Forget(s)
  PROVE  TemporaryOK'
<1>1. temporary' = [k \in DOMAIN temporary |-> IF k[1] = s THEN NoSecret ELSE temporary[k]]
  BY DEF Forget
<1>2. DOMAIN temporary' = DOMAIN temporary
  BY <1>1
<1>3. temporary' \in [Scope \X Target \X CredentialKind -> SecretType]
  BY <1>1, NullsTyped DEF TemporaryOK
<1>4. \A k \in DOMAIN temporary : temporary'[k] \in {NoSecret, temporary[k]}
  BY <1>1
<1>5. QED
  BY <1>2, <1>3, <1>4 DEF TemporaryOK, SecretsStayInScope

\* One entry of the keyring becomes a secret that worked and is to be saved.
LEMMA SavedIsWanted ==
  ASSUME KeyringOK, NEW k, NEW x \in SecretType, keyring' = [keyring EXCEPT ![k] = x],
         x.save, x.version > 0
  PROVE  KeyringOK'
<1>1. keyring' \in [Target \X CredentialKind -> SecretType] /\ DOMAIN keyring' = DOMAIN keyring
  BY DEF KeyringOK
<1>2. \A j \in DOMAIN keyring : keyring'[j] = IF j = k THEN x ELSE keyring[j]
  OBVIOUS
<1>3. \A j \in DOMAIN keyring : keyring'[j] # NoSecret => keyring'[j].save /\ keyring'[j].version > 0
  BY <1>2 DEF KeyringOK
<1>4. QED
  BY <1>1, <1>3 DEF KeyringOK

\* A secret that works is kept where it belongs.
LEMMA WorksIsKept ==
  ASSUME ConnectionsOK, StoredOK, NEW w \in Worker, SecretWorks(w)
  PROVE  StoredOK'
<1> DEFINE x == connection[w].secret
           k == CredentialKey(w, connection[w].kind)
<1>1. /\ ConnectionOK(connection[w], accepted) /\ connection[w] \in ConnectionType
      /\ Rung(w) = RungOf(connection[w]) /\ Home(w) = connection[w].plan.scope
  BY ConnectionIs DEF OnLadder
<1>2. x \in SecretType
  BY <1>1 DEF ConnectionType
<1>3. version' = version /\ version > 0
  BY SshConnectionsAssumption DEF SecretWorks, StoredOK, SshConnectionsAssumption
<1>4. x.target = Hop(w) /\ x.kind = connection[w].kind /\ x.version = version
  BY DEF SecretWorks, Accepts
<1>5. TriedIsOwn(connection[w]) /\ connection[w].step = "attempt"
  BY <1>1 DEF ConnectionOK, SecretWorks
<1>6. TemporaryOK'
  <2>1. CASE Rung(w)[1] = "temporary"
    <3>1. temporary' = temporary
      BY <2>1 DEF SecretWorks
    <3>2. QED
      BY <3>1 DEF StoredOK, TemporaryOK, SecretsStayInScope
  <2>2. CASE Rung(w)[1] # "temporary"
    <3>1. temporary' = [temporary EXCEPT ![k] = x]
      BY <2>2 DEF SecretWorks, Keep
    <3>2. k[1] = Home(w) /\ k[2] = Hop(w) /\ k[3] = connection[w].kind
      BY DEF CredentialKey
    <3>3. x.scope = Home(w) \/ x.save
      BY <1>1, <1>5, <2>2 DEF TriedIsOwn
    <3> HIDE DEF k, x
    <3>4. QED
      BY <1>2, <1>3, <1>4, <3>1, <3>2, <3>3, KeptIsOwn DEF StoredOK
  <2>3. QED
    BY <2>1, <2>2
<1>7. KeyringOK'
  <2>1. \/ keyring' = keyring
        \/ /\ connection[w].save
           /\ keyring' = [keyring EXCEPT ![<<Hop(w), connection[w].kind>>] = x]
    BY DEF SecretWorks
  <2>2. CASE keyring' = keyring
    BY <2>2 DEF StoredOK, KeyringOK
  <2>3. CASE /\ connection[w].save
             /\ keyring' = [keyring EXCEPT ![<<Hop(w), connection[w].kind>>] = x]
    <3>1. x.save
      BY <1>5, <2>3 DEF TriedIsOwn
    <3> HIDE DEF x
    <3>2. QED
      BY <1>2, <1>3, <1>4, <2>3, <3>1, SavedIsWanted DEF StoredOK
  <2>4. QED
    BY <2>1, <2>2, <2>3
<1>8. QED
  BY <1>3, <1>6, <1>7 DEF StoredOK

LEMMA StoredInductive ==
  ASSUME IInv, [Next]_vars
  PROVE  StoredOK'
<1> USE DEF IInv
<1>1. ASSUME UNCHANGED <<version, temporary, keyring>> PROVE StoredOK'
  BY <1>1 DEF StoredOK, TemporaryOK, KeyringOK, SecretsStayInScope
<1>2. ASSUME NEW w \in Worker, Connect(w) \/ Proceeds(w) \/ Answered(w)
      PROVE  StoredOK'
  <2>1. CASE Connect(w) \/ Answered(w)
    BY <1>1, <2>1 DEF Connect, Answered, stores
  <2>2. CASE VerifyHostKey(w) \/ HostKeyAnswered(w) \/ TruncateTrust(w) \/ WriteTrust(w)
    BY <1>1, <2>2 DEF VerifyHostKey, HostKeyAnswered, TruncateTrust, WriteTrust
  <2>3. CASE TryKeys(w) \/ ReadSecret(w) \/ AskForMethod(w) \/ SecretAnswered(w)
    BY <1>1, <2>3 DEF TryKeys, ReadSecret, AskForMethod, SecretAnswered, stores
  <2>4. CASE PromptedSecretFails(w) \/ OtherSecretFails(w)
    BY <1>1, <2>4 DEF PromptedSecretFails, OtherSecretFails, stores
  <2>5. CASE SecretWorks(w)
    BY <2>5, WorksIsKept
  <2>6. CASE KeptSecretFails(w)
    <3>1. temporary' = [temporary EXCEPT ![CredentialKey(w, connection[w].kind)] = NoSecret]
      BY <2>6 DEF KeptSecretFails
    <3>2. TemporaryOK'
      BY <3>1, NullsTyped, KeptIsOwn DEF StoredOK
    <3>3. UNCHANGED <<version, keyring>>
      BY <2>6 DEF KeptSecretFails
    <3>4. QED
      BY <3>2, <3>3 DEF StoredOK, KeyringOK
  <2>7. QED
    BY <1>2, <2>1, <2>2, <2>3, <2>4, <2>5, <2>6 DEF Proceeds
<1>3. ASSUME NEW s \in Scope, CloseScope(s) PROVE StoredOK'
  <2>1. TemporaryOK'
    BY <1>3, ForgottenIsOwn DEF CloseScope, StoredOK
  <2>2. UNCHANGED <<version, keyring>>
    BY <1>3 DEF CloseScope
  <2>3. QED
    BY <2>1, <2>2 DEF StoredOK, KeyringOK
<1>4. ASSUME NEW s \in Scope, HostOpens(s) PROVE StoredOK'
  BY <1>1, <1>4 DEF HostOpens, stores
<1>5. CASE SecretsChange
  <2>1. UNCHANGED <<temporary, keyring>> /\ version' = version + 1 /\ version < MaxVersion
    BY <1>5 DEF SecretsChange, stores
  <2>2. version' \in 1..MaxVersion
    BY <2>1, SshConnectionsAssumption DEF StoredOK, SshConnectionsAssumption
  <2>3. QED
    BY <2>1, <2>2 DEF StoredOK, TemporaryOK, KeyringOK, SecretsStayInScope
<1>6. CASE UNCHANGED vars
  BY <1>1, <1>6 DEF vars, stores
<1>7. QED
  BY <1>2, <1>3, <1>4, <1>5, <1>6 DEF Next

LEMMA ScopesInductive ==
  ASSUME IInv, [Next]_vars
  PROVE  ScopesOK'
<1> USE DEF IInv, ScopesOK
<1>1. CASE UNCHANGED <<open, started>>
  BY <1>1
<1>2. ASSUME NEW w \in Worker, Connect(w) PROVE ScopesOK'
  BY <1>2, SshConnectionsAssumption DEF Connect, SshConnectionsAssumption
<1>3. ASSUME NEW w \in Worker, Proceeds(w) \/ Answered(w) PROVE UNCHANGED <<open, started>>
  BY <1>3 DEF Proceeds, Answered, VerifyHostKey, HostKeyAnswered, TruncateTrust, WriteTrust,
              TryKeys, ReadSecret, AskForMethod, SecretAnswered, SecretWorks,
              PromptedSecretFails, KeptSecretFails, OtherSecretFails
<1>4. ASSUME NEW s \in Scope, CloseScope(s) \/ HostOpens(s) PROVE ScopesOK'
  BY <1>4 DEF CloseScope, HostOpens
<1>5. CASE SecretsChange \/ UNCHANGED vars
  BY <1>1, <1>5 DEF SecretsChange, vars
<1>6. QED
  BY <1>1, <1>2, <1>3, <1>4, <1>5 DEF Next

-----------------------------------------------------------------------------

LEMMA InitIsSound == Init => IInv
<1> SUFFICES ASSUME Init PROVE IInv
  OBVIOUS
<1>1. ConnectionsOK
  <2>1. DOMAIN desk = Worker /\ \A w \in Worker : desk[w] = Silent
    BY DEF Init, DeskInit
  <2>2. connection = [w \in Worker |-> NoConnection]
    BY DEF Init
  <2>3. connection \in [Worker -> ConnectionType]
    BY <2>2, NullsTyped
  <2>4. ASSUME NEW w \in Worker
        PROVE  /\ ConnectionOK(connection[w], accepted)
               /\ DeskEntry(desk[w])
               /\ desk[w] # Silent <=> connection[w].step \in Asking
    <3>1. connection[w] = NoConnection
      BY <2>2
    <3>2. ConnectionOK(connection[w], accepted)
      BY <3>1, OverIsOK
    <3>3. DeskEntry(desk[w])
      BY <2>1 DEF DeskEntry, Silent
    <3>4. connection[w].step \notin Asking
      BY <3>1, NullsTyped DEF Asking
    <3>5. QED
      BY <2>1, <3>2, <3>3, <3>4
  <2>5. QED
    BY <2>1, <2>3, <2>4 DEF ConnectionsOK
<1>2. KeysOK
  <2>1. PICK known \in Known : trust = [keys |-> known, torn |-> FALSE] /\ accepted = known
    BY DEF Init
  <2>2. known \in [Target -> SUBSET HostKey]
    BY SshConnectionsAssumption DEF SshConnectionsAssumption
  <2>3. QED
    BY <2>1, <2>2 DEF KeysOK, TrustedWereAccepted
<1>3. StoredOK
  <2>1. version \in 1..MaxVersion
    BY SshConnectionsAssumption DEF Init, SshConnectionsAssumption
  <2>2. TemporaryOK
    BY NullsTyped DEF Init, TemporaryOK, SecretsStayInScope
  <2>3. KeyringOK
    BY NullsTyped DEF Init, KeyringOK
  <2>4. QED
    BY <2>1, <2>2, <2>3 DEF StoredOK
<1>4. ScopesOK
  BY SshConnectionsAssumption DEF Init, ScopesOK, SshConnectionsAssumption
<1>5. QED
  BY <1>1, <1>2, <1>3, <1>4 DEF IInv

LEMMA ConnectionsInvariant == Spec => []IInv
<1>1. IInv /\ [Next]_vars => IInv'
  BY ConnectionsInductive, KeysInductive, StoredInductive, ScopesInductive DEF IInv
<1>2. QED
  BY <1>1, InitIsSound, PTL DEF Spec

\* Every connection is at a hop of its plan, and waits for an answer exactly while the desk
\* holds a question of it.
THEOREM SshTypeCorrect == Spec => []TypeOK
<1>1. IInv => TypeOK
  <2> SUFFICES ASSUME IInv PROVE TypeOK
    OBVIOUS
  <2>1. open \subseteq Scope /\ started \in 0..MaxConnection /\ version \in 1..MaxVersion
    BY DEF IInv, ScopesOK, StoredOK
  <2>2. trust.keys \in [Target -> SUBSET HostKey] /\ trust.torn \in BOOLEAN
    BY DEF IInv, KeysOK
  <2>3. ASSUME NEW w \in Worker
        PROVE  /\ connection[w].plan \in Plan /\ connection[w].step \in Step
               /\ connection[w].hop \in DOMAIN connection[w].plan.route
               /\ desk[w] # Silent <=> connection[w].step \in {"asks_key", "asks_secret"}
    <3>1. ConnectionsOK
      BY DEF IInv
    <3>2. OnLadder(connection[w])
      BY <3>1, ConnectionIs
    <3>3. desk[w] # Silent <=> connection[w].step \in {"asks_key", "asks_secret"}
      BY <3>1 DEF ConnectionsOK, Asking
    <3>4. connection[w].plan \in Plan /\ connection[w].step \in Step
            /\ connection[w].hop \in DOMAIN connection[w].plan.route
      BY <3>2 DEF OnLadder, ConnectionType
    <3>5. QED
      BY <3>3, <3>4
  <2>4. QED
    BY <2>1, <2>2, <2>3 DEF TypeOK
<1>2. QED
  BY <1>1, ConnectionsInvariant, PTL

\* A secret is kept only for the scope and the hop it belongs to, or with the user's wish to
\* save it, and only if a server accepted it; and no key is trusted that nobody accepted,
\* whichever writer of the trust file came last.
THEOREM SecretsSound == Spec => []SecretsAreSound
<1>1. IInv /\ TypeOK => SecretsAreSound
  BY DEF IInv, KeysOK, StoredOK, TemporaryOK, KeyringOK, KeptSecretsWorked, SecretsAreSound
<1>2. QED
  BY <1>1, ConnectionsInvariant, SshTypeCorrect, PTL

\* A kept secret that fails leads to a question or to the end of the connection, never to
\* the rungs below it.
THEOREM KeptSecretsAskedFor == Spec => NoFallback
<1> DEFINE Asked ==
      \A w \in Worker :
        /\ connection[w].step = "attempt" /\ Rung(w)[1] = "temporary"
        /\ connection[w].hop = connection'[w].hop
        => connection'[w].step \in {"attempt", "asks_secret", "idle"}
<1>1. IInv /\ [Next]_vars => [Asked]_vars
  <2> SUFFICES ASSUME IInv, Next, NEW w \in Worker, connection[w].step = "attempt",
                      Rung(w)[1] = "temporary", connection[w].hop = connection'[w].hop
               PROVE  connection'[w].step \in {"attempt", "asks_secret", "idle"}
    OBVIOUS
  <2>1. ConnectionsOK
    BY DEF IInv
  <2>2. connection \in [Worker -> ConnectionType] /\ connection[w] \in ConnectionType
    BY <2>1 DEF ConnectionsOK
  <2>3. CASE connection' = connection
    BY <2>3
  <2>4. ASSUME NEW v \in Worker, v # w, NEW c, connection' = [connection EXCEPT ![v] = c]
        PROVE  connection'[w].step \in {"attempt", "asks_secret", "idle"}
    BY <2>2, <2>4
  <2>5. ASSUME NEW v \in Worker, Connect(v) \/ Proceeds(v) \/ Answered(v)
        PROVE  connection'[w].step \in {"attempt", "asks_secret", "idle"}
    <3>1. CASE Fails(w)
      <4>1. connection'[w] = NoConnection
        BY <2>2, <3>1 DEF Fails, Set
      <4>2. QED
        BY <4>1, NullsTyped
    <3>2. CASE v = w
      <4>1. SecretWorks(w) \/ KeptSecretFails(w) \/ connection' = connection
        BY <2>5, <3>2 DEF Connect, Answered, Proceeds, VerifyHostKey, HostKeyAnswered,
           TruncateTrust, WriteTrust, TryKeys, ReadSecret, AskForMethod, SecretAnswered,
           PromptedSecretFails, OtherSecretFails
      <4>2. CASE SecretWorks(w)
        <5>1. Authenticated(w) \/ Fails(w)
          BY <4>2 DEF SecretWorks
        <5>2. CASE connection[w].hop < Len(connection[w].plan.route) /\ Authenticated(w)
          <6> DEFINE c == [connection[w] EXCEPT !.hop = @ + 1, !.step = "host_key", !.rung = 1,
                                        !.secret = NoSecret, !.kind = "none", !.save = FALSE]
          <6>1. connection' = [connection EXCEPT ![w] = c]
            BY <5>2 DEF Authenticated, Set
          <6>2. c.hop = connection[w].hop + 1 /\ connection[w].hop \in Nat
            BY <2>2 DEF ConnectionType
          <6> HIDE DEF c
          <6>3. connection'[w].hop = connection[w].hop + 1
            BY <2>2, <6>1, <6>2
          <6>4. QED
            BY <6>2, <6>3
        <5>3. CASE Authenticated(w) /\ ~ (connection[w].hop < Len(connection[w].plan.route))
          <6>1. Fails(w)
            BY <5>3 DEF Authenticated, Fails
          <6>2. QED
            BY <3>1, <6>1
        <5>4. QED
          BY <3>1, <5>1, <5>2, <5>3
      <4>3. CASE KeptSecretFails(w)
        <5> DEFINE c == [connection[w] EXCEPT !.step = "asks_secret", !.kind = connection[w].kind,
                                              !.secret = NoSecret, !.rung = Len(Ladder(w))]
        <5>1. connection' = [connection EXCEPT ![w] = c]
          BY <4>3 DEF KeptSecretFails, AskSecret, Set
        <5>2. c.step = "asks_secret"
          BY <2>2 DEF ConnectionType
        <5> HIDE DEF c
        <5>3. QED
          BY <2>2, <5>1, <5>2
      <4>4. QED
        BY <2>3, <4>1, <4>2, <4>3
    <3>3. CASE v # w
      <4>1. \/ connection' = connection
            \/ \E c : connection' = [connection EXCEPT ![v] = c]
        BY <2>5 DEF Connect, Answered, Proceeds, VerifyHostKey, HostKeyAnswered,
           TruncateTrust, WriteTrust, TryKeys, ReadSecret, AskForMethod, SecretAnswered,
           SecretWorks, PromptedSecretFails, KeptSecretFails, OtherSecretFails, Fails,
           NextRung, Authenticated, AskSecret, To, Set
      <4>2. QED
        BY <2>3, <2>4, <3>3, <4>1
    <3>4. QED
      BY <3>2, <3>3
  <2>6. ASSUME NEW s \in Scope, CloseScope(s) \/ HostOpens(s) PROVE connection' = connection
    BY <2>6 DEF CloseScope, HostOpens
  <2>7. SecretsChange => connection' = connection
    BY DEF SecretsChange
  <2>8. QED
    BY <2>3, <2>5, <2>6, <2>7 DEF Next
<1>2. QED
  BY <1>1, ConnectionsInvariant, PTL DEF Spec, NoFallback

-----------------------------------------------------------------------------
(* The desk.                                                               *)

\* The connections use the desk as VerificationDesk says, which SshVerification implements:
\* a worker asks about a key or a secret of a target while nothing of it is there, its
\* question gets one answer that fits, a cancel or an error, and it takes that.
THEOREM ConnectionsUseDesk == Spec => DeskSpec
<1>1. Init => DeskInit
  BY DEF Init
<1>2. IInv /\ [Next]_vars => [DeskNext]_desk
  <2> SUFFICES ASSUME IInv, [Next]_vars, desk' # desk PROVE DeskNext
    OBVIOUS
  <2>1. ConnectionsOK
    BY DEF IInv
  <2>2. ASSUME NEW w \in Worker, NEW k, k \in CredentialKind \cup HostKeyKind, NEW c,
               c = [target |-> Hop(w), kind |-> k], Asks(w, Home(w), c)
        PROVE  DeskNext
    <3>1. Hop(w) \in Target /\ Home(w) \in Scope
      BY <2>1, ConnectionIs
    <3>2. c \in Challenge
      BY <2>2, <3>1 DEF Challenge
    <3>3. QED
      BY <2>2, <3>1, <3>2 DEF DeskNext
  <2>3. ASSUME NEW w \in Worker, NEW k \in CredentialKind, AskSecret(w, k) PROVE DeskNext
    BY <2>2, <2>3 DEF AskSecret
  <2>4. ASSUME NEW w \in Worker, Connect(w) \/ Proceeds(w) \/ Answered(w) PROVE DeskNext
    <3>1. CASE VerifyHostKey(w)
      <4> DEFINE k == KindOfKey(w)
      <4>1. Asks(w, Home(w), [target |-> Hop(w), kind |-> k])
        BY <3>1 DEF VerifyHostKey
      <4>2. k \in CredentialKind \cup HostKeyKind
        BY DEF HostKeyKind, KindOfKey
      <4> HIDE DEF k
      <4>3. QED
        BY <2>2, <4>1, <4>2
    <3>2. CASE AskForMethod(w)
      <4>1. AskSecret(w, "key_passphrase") \/ AskSecret(w, "password")
        BY <3>2 DEF AskForMethod
      <4>2. QED
        BY <2>3, <4>1 DEF CredentialKind
    <3>3. CASE KeptSecretFails(w)
      <4>1. connection[w].kind \in CredentialKind
        BY <2>1, <3>3, ConnectionIs DEF KeptSecretFails, ConnectionOK, TriedIsOwn
      <4>2. AskSecret(w, connection[w].kind)
        BY <3>3 DEF KeptSecretFails
      <4>3. QED
        BY <2>3, <4>1, <4>2
    <3>4. CASE HostKeyAnswered(w) \/ SecretAnswered(w) \/ Answered(w)
      <4>1. Takes(w) \/ Replies(w) \/ Errs(w)
        BY <3>4 DEF HostKeyAnswered, SecretAnswered, Answered
      <4>2. QED
        BY <4>1 DEF DeskNext
    <3>5. Connect(w) \/ TruncateTrust(w) \/ WriteTrust(w) \/ TryKeys(w) \/ ReadSecret(w)
            \/ SecretWorks(w) \/ PromptedSecretFails(w) \/ OtherSecretFails(w)
            => desk' = desk
      BY DEF Connect, TruncateTrust, WriteTrust, TryKeys, ReadSecret, SecretWorks,
             PromptedSecretFails, OtherSecretFails
    <3>6. QED
      BY <2>4, <3>1, <3>2, <3>3, <3>4, <3>5 DEF Proceeds
  <2>5. ASSUME NEW s \in Scope, CloseScope(s) \/ HostOpens(s) PROVE desk' = desk
    BY <2>5 DEF CloseScope, HostOpens
  <2>6. SecretsChange \/ UNCHANGED vars => desk' = desk
    BY DEF SecretsChange, vars
  <2>7. QED
    BY <2>4, <2>5, <2>6 DEF Next
<1>3. QED
  BY <1>1, <1>2, ConnectionsInvariant, PTL DEF Spec, DeskSpec

-----------------------------------------------------------------------------
(* OpenSSH configurations: OpenSshConfig.  The sections of one file.       *)

\* The settings of the name k from one line to another.
SettingsOn(lines, from, to, k) == {i \in from..to : lines[i].kind = "setting" /\ lines[i].key = k}
SettingsRead(lines, from, to)  == [k \in Key |-> FirstValue(lines, from, to, k)]
HaveFirst(lines, from, to) ==
    \A k \in Key : LET at == SettingsOn(lines, from, to, k) IN
                   at = {} \/ \E i \in at : \A j \in at : i <= j

\* What section s is after n lines of a file: none yet; or it began with the line before
\* from, or with the file, has the settings since, and no other has begun.
HeaderAt(lines, from) == IF from = 1 THEN HostLine(<<Everything>>) ELSE lines[from - 1]
OpenAt(s, lines, n) ==
    \/ s = NoSection /\ \A i \in 1..n : ~ IsHeader(lines[i]) /\ lines[i].kind # "setting"
    \/ \E from \in 1..n + 1 :
        /\ from = 1 \/ IsHeader(lines[from - 1])
        /\ \A i \in from..n : ~ IsHeader(lines[i])
        /\ HaveFirst(lines, from, n)
        /\ s = [line |-> HeaderAt(lines, from), settings |-> SettingsRead(lines, from, n)]

\* The first value is that of the first of the settings.
LEMMA FirstValueIs ==
  ASSUME NEW lines, NEW from \in Nat, NEW to \in Nat, NEW k,
         NEW i \in SettingsOn(lines, from, to, k), \A j \in SettingsOn(lines, from, to, k) : i <= j
  PROVE  FirstValue(lines, from, to, k) = lines[i].value
<1> DEFINE at == SettingsOn(lines, from, to, k)
           first == CHOOSE m \in at : \A j \in at : m <= j
<1>1. first \in at /\ \A j \in at : first <= j
  OBVIOUS
<1>2. at \subseteq Int
  BY DEF SettingsOn
<1> HIDE DEF first, at
<1>3. first = i
  BY <1>1, <1>2 DEF at
<1>4. at # {}
  BY DEF at
<1>5. FirstValue(lines, from, to, k) = IF at = {} THEN Unset ELSE lines[first].value
  BY DEF FirstValue, at, first, SettingsOn
<1>6. QED
  BY <1>3, <1>4, <1>5

LEMMA NoValue ==
  ASSUME NEW lines, NEW from, NEW to, NEW k, SettingsOn(lines, from, to, k) = {}
  PROVE  FirstValue(lines, from, to, k) = Unset
BY DEF FirstValue, SettingsOn

\* A line more adds its value if there was none for its name.
LEMMA LineRead ==
  ASSUME NEW lines \in Seq(Lines), NEW from \in Nat \ {0}, NEW n \in Nat, from <= n + 1, n + 1 <= Len(lines),
         HaveFirst(lines, from, n)
  PROVE  LET line == lines[n + 1]
             read == SettingsRead(lines, from, n) IN
         /\ HaveFirst(lines, from, n + 1)
         /\ SettingsRead(lines, from, n + 1)
              = IF line.kind = "setting" THEN WithValue(read, line.key, line.value) ELSE read
<1> DEFINE line == lines[n + 1]
           old(k) == SettingsOn(lines, from, n, k)
           new(k) == SettingsOn(lines, from, n + 1, k)
<1>1. line \in Lines /\ from..n + 1 = (from..n) \cup {n + 1} /\ n + 1 \notin from..n /\ n + 1 \in Nat
  BY ElementOfSeq
<1>2. \A k : new(k) = old(k) \cup IF line.kind = "setting" /\ line.key = k THEN {n + 1} ELSE {}
  BY <1>1 DEF SettingsOn
<1>3. \A k : old(k) \subseteq from..n
  BY DEF SettingsOn
<1> HIDE DEF old, new, line
<1>4. ASSUME NEW k \in Key, old(k) # {}
      PROVE  \E i \in old(k) : /\ \A j \in new(k) : i <= j
                               /\ FirstValue(lines, from, n, k) = lines[i].value
                               /\ FirstValue(lines, from, n + 1, k) = lines[i].value
                               /\ lines[i].value # Unset
  <2>1. PICK i \in old(k) : \A j \in old(k) : i <= j
    BY <1>4 DEF HaveFirst, old
  <2>2. i \in Nat /\ i <= n + 1 /\ i \in 1..Len(lines)
    BY <1>3, <2>1
  <2>3. i \in new(k) /\ \A j \in new(k) : i <= j
    BY <1>2, <2>1, <2>2
  <2>4. FirstValue(lines, from, n, k) = lines[i].value
    BY <2>1, FirstValueIs DEF old
  <2>5. FirstValue(lines, from, n + 1, k) = lines[i].value
    BY <1>1, <2>3, FirstValueIs DEF new
  <2>6. lines[i] \in Lines /\ lines[i].kind = "setting"
    BY <2>1, <2>2, ElementOfSeq DEF old, SettingsOn
  <2>7. lines[i].value # Unset
    BY <2>6, OpenSshConfigAssumption DEF OpenSshConfigAssumption
  <2>8. QED
    BY <2>1, <2>3, <2>4, <2>5, <2>7
<1>5. ASSUME NEW k \in Key, old(k) = {}, line.kind = "setting", line.key = k
      PROVE  /\ new(k) = {n + 1}
             /\ FirstValue(lines, from, n, k) = Unset
             /\ FirstValue(lines, from, n + 1, k) = line.value
  <2>1. new(k) = {n + 1}
    BY <1>2, <1>5
  <2>2. \A j \in new(k) : n + 1 <= j
    BY <1>1, <2>1
  <2>3. FirstValue(lines, from, n + 1, k) = lines[n + 1].value
    BY <1>1, <2>1, <2>2, FirstValueIs DEF new
  <2>4. QED
    BY <1>5, <2>1, <2>3, NoValue DEF old, line
<1>6. ASSUME NEW k \in Key, old(k) = {}, ~ (line.kind = "setting" /\ line.key = k)
      PROVE  new(k) = {} /\ FirstValue(lines, from, n, k) = Unset /\ FirstValue(lines, from, n + 1, k) = Unset
  <2>1. new(k) = {}
    BY <1>2, <1>6
  <2>2. QED
    BY <1>6, <2>1, NoValue DEF old, new
<1>7. HaveFirst(lines, from, n + 1)
  <2> SUFFICES ASSUME NEW k \in Key PROVE new(k) = {} \/ \E i \in new(k) : \A j \in new(k) : i <= j
    BY DEF HaveFirst, new
  <2>1. old(k) \subseteq new(k)
    BY <1>2
  <2>2. CASE old(k) # {}
    BY <1>4, <2>1, <2>2
  <2>3. CASE old(k) = {} /\ line.kind = "setting" /\ line.key = k
    BY <1>1, <1>5, <2>3
  <2>4. CASE old(k) = {} /\ ~ (line.kind = "setting" /\ line.key = k)
    BY <1>6, <2>4
  <2>5. QED
    BY <2>2, <2>3, <2>4
<1> DEFINE read == SettingsRead(lines, from, n)
           result == IF line.kind = "setting" THEN WithValue(read, line.key, line.value) ELSE read
<1>8. read \in [Key -> {read[k] : k \in Key}] /\ \A k \in Key : read[k] = FirstValue(lines, from, n, k)
  BY DEF SettingsRead
<1> HIDE DEF read
<1>9. line.kind = "setting" => line.key \in Key
  BY <1>1, OpenSshConfigAssumption DEF OpenSshConfigAssumption
<1>10. result = [k \in Key |-> IF line.kind = "setting" /\ k = line.key /\ read[k] = Unset THEN line.value ELSE read[k]]
  BY <1>8, <1>9 DEF WithValue
<1>11. ASSUME NEW k \in Key
       PROVE  FirstValue(lines, from, n + 1, k)
                = IF line.kind = "setting" /\ k = line.key /\ read[k] = Unset THEN line.value ELSE read[k]
  <2>1. CASE old(k) # {}
    BY <1>4, <1>8, <2>1
  <2>2. CASE old(k) = {} /\ line.kind = "setting" /\ line.key = k
    BY <1>5, <1>8, <2>2
  <2>3. CASE old(k) = {} /\ ~ (line.kind = "setting" /\ line.key = k)
    BY <1>6, <1>8, <2>3
  <2>4. QED
    BY <2>1, <2>2, <2>3
<1>12. SettingsRead(lines, from, n + 1) = result
  BY <1>10, <1>11 DEF SettingsRead
<1>13. QED
  BY <1>7, <1>12 DEF line, read

\* Before the first line of a file.
LEMMA NothingOpen ==
  ASSUME NEW lines
  PROVE  OpenAt(NoSection, lines, 0)
BY DEF OpenAt

\* Nothing has been set where a section begins.
LEMMA NothingSet ==
  ASSUME NEW lines, NEW from, NEW to, \A k \in Key : SettingsOn(lines, from, to, k) = {}
  PROVE  SettingsRead(lines, from, to) = NoSettings /\ HaveFirst(lines, from, to)
<1>1. \A k \in Key : FirstValue(lines, from, to, k) = Unset
  BY NoValue
<1>2. QED
  BY <1>1 DEF SettingsRead, NoSettings, HaveFirst

\* A header begins a section.
LEMMA AfterHeader ==
  ASSUME NEW lines \in Seq(Lines), NEW n \in Nat, n + 1 <= Len(lines), IsHeader(lines[n + 1])
  PROVE  OpenAt(Section(lines[n + 1]), lines, n + 1)
<1> DEFINE from == n + 2
<1>1. from..n + 1 = {} /\ from \in 1..(n + 1) + 1 /\ from # 1 /\ from - 1 = n + 1
  OBVIOUS
<1>2. \A k \in Key : SettingsOn(lines, from, n + 1, k) = {}
  BY <1>1 DEF SettingsOn
<1>3. SettingsRead(lines, from, n + 1) = NoSettings /\ HaveFirst(lines, from, n + 1)
  BY <1>2, NothingSet
<1> HIDE DEF from
<1>4. Section(lines[n + 1]) = [line |-> HeaderAt(lines, from), settings |-> SettingsRead(lines, from, n + 1)]
  BY <1>1, <1>3 DEF Section, HeaderAt
<1>5. QED
  BY <1>1, <1>3, <1>4 DEF OpenAt

\* Sections are not the absence of one.
LEMMA SectionIsSome ==
  ASSUME NEW lines \in Seq(Lines), NEW from \in 1..Len(lines) + 1
  PROVE  HeaderAt(lines, from).kind # "none"
<1>1. HostLine(<<Everything>>).kind = "host"
  BY DEF HostLine
<1>2. ASSUME from # 1 PROVE lines[from - 1] \in Lines
  BY <1>2, ElementOfSeq
<1>3. QED
  BY <1>1, <1>2, OpenSshConfigAssumption DEF OpenSshConfigAssumption, HeaderAt

\* An Include leaves the section as it is.
LEMMA AfterInclude ==
  ASSUME NEW lines \in Seq(Lines), NEW n \in Nat, n + 1 <= Len(lines), lines[n + 1].kind = "include",
         NEW s, OpenAt(s, lines, n)
  PROVE  OpenAt(s, lines, n + 1)
<1>1. ~ IsHeader(lines[n + 1]) /\ lines[n + 1].kind # "setting"
  BY DEF IsHeader
<1>2. \A from \in 1..n + 1 : \A i \in from..n + 1 : i \in from..n \/ i = n + 1
  OBVIOUS
<1>3. CASE s = NoSection /\ \A i \in 1..n : ~ IsHeader(lines[i]) /\ lines[i].kind # "setting"
  BY <1>1, <1>2, <1>3 DEF OpenAt
<1>4. ASSUME NEW from \in 1..n + 1,
             from = 1 \/ IsHeader(lines[from - 1]), \A i \in from..n : ~ IsHeader(lines[i]), HaveFirst(lines, from, n),
             s = [line |-> HeaderAt(lines, from), settings |-> SettingsRead(lines, from, n)]
      PROVE  OpenAt(s, lines, n + 1)
  <2>1. from \in Nat \ {0} /\ from <= n + 1 /\ from \in 1..(n + 1) + 1
    OBVIOUS
  <2>2. HaveFirst(lines, from, n + 1) /\ SettingsRead(lines, from, n + 1) = SettingsRead(lines, from, n)
    BY <1>1, <1>4, <2>1, LineRead
  <2>3. \A i \in from..n + 1 : ~ IsHeader(lines[i])
    BY <1>1, <1>2, <1>4
  <2>4. QED
    BY <1>4, <2>1, <2>2, <2>3 DEF OpenAt
<1>5. QED
  BY <1>3, <1>4 DEF OpenAt

\* A setting adds to the section, or begins the one for every host.
WithSetting(s, line) ==
    LET section == IF s = NoSection THEN Section(HostLine(<<Everything>>)) ELSE s
    IN [section EXCEPT !.settings = WithValue(@, line.key, line.value)]

LEMMA AfterSetting ==
  ASSUME NEW lines \in Seq(Lines), NEW n \in Nat, n + 1 <= Len(lines), lines[n + 1].kind = "setting",
         NEW s, OpenAt(s, lines, n)
  PROVE  OpenAt(WithSetting(s, lines[n + 1]), lines, n + 1)
<1> DEFINE line == lines[n + 1]
<1>1. ~ IsHeader(line)
  BY DEF IsHeader
<1>2. \A from \in 1..n + 1 : \A i \in from..n + 1 : i \in from..n \/ i = n + 1
  OBVIOUS
<1>3. ASSUME NEW from \in 1..n + 1, NEW section,
             from = 1 \/ IsHeader(lines[from - 1]), \A i \in from..n : ~ IsHeader(lines[i]), HaveFirst(lines, from, n),
             section = [line |-> HeaderAt(lines, from), settings |-> SettingsRead(lines, from, n)]
      PROVE  OpenAt([section EXCEPT !.settings = WithValue(@, line.key, line.value)], lines, n + 1)
  <2>1. from \in Nat \ {0} /\ from <= n + 1 /\ from \in 1..(n + 1) + 1
    OBVIOUS
  <2>2. /\ HaveFirst(lines, from, n + 1)
        /\ SettingsRead(lines, from, n + 1) = WithValue(SettingsRead(lines, from, n), line.key, line.value)
    BY <1>3, <2>1, LineRead
  <2>3. \A i \in from..n + 1 : ~ IsHeader(lines[i])
    BY <1>1, <1>2, <1>3
  <2>4. [section EXCEPT !.settings = WithValue(@, line.key, line.value)]
          = [line |-> HeaderAt(lines, from), settings |-> SettingsRead(lines, from, n + 1)]
    BY <1>3, <2>2
  <2>5. QED
    BY <1>3, <2>1, <2>2, <2>3, <2>4 DEF OpenAt
<1>4. CASE s = NoSection /\ \A i \in 1..n : ~ IsHeader(lines[i]) /\ lines[i].kind # "setting"
  <2>1. \A k \in Key : SettingsOn(lines, 1, n, k) = {}
    BY <1>4 DEF SettingsOn
  <2>2. SettingsRead(lines, 1, n) = NoSettings /\ HaveFirst(lines, 1, n)
    BY <2>1, NothingSet
  <2>3. Section(HostLine(<<Everything>>)) = [line |-> HeaderAt(lines, 1), settings |-> SettingsRead(lines, 1, n)]
    BY <2>2 DEF Section, HeaderAt
  <2>4. 1 \in 1..n + 1
    OBVIOUS
  <2>5. OpenAt([Section(HostLine(<<Everything>>)) EXCEPT !.settings = WithValue(@, line.key, line.value)], lines, n + 1)
    BY <1>3, <1>4, <2>2, <2>3, <2>4
  <2>6. QED
    BY <1>4, <2>5 DEF WithSetting
<1>5. ASSUME NEW from \in 1..n + 1,
             from = 1 \/ IsHeader(lines[from - 1]), \A i \in from..n : ~ IsHeader(lines[i]), HaveFirst(lines, from, n),
             s = [line |-> HeaderAt(lines, from), settings |-> SettingsRead(lines, from, n)]
      PROVE  OpenAt(WithSetting(s, line), lines, n + 1)
  <2>1. s.line.kind # "none"
    <3>1. from \in 1..Len(lines) + 1
      OBVIOUS
    <3>2. QED
      BY <1>5, <3>1, SectionIsSome
  <2>2. s # NoSection
    BY <2>1 DEF NoSection
  <2>3. OpenAt([s EXCEPT !.settings = WithValue(@, line.key, line.value)], lines, n + 1)
    BY <1>3, <1>5
  <2>4. QED
    BY <2>2, <2>3 DEF WithSetting
<1>6. QED
  BY <1>4, <1>5 DEF OpenAt

\* Where the next section begins, or the file ends, a section is whole.
LEMMA SectionWhole ==
  ASSUME NEW lines \in Seq(Lines), NEW n \in 0..Len(lines), n = Len(lines) \/ IsHeader(lines[n + 1]),
         NEW s, s # NoSection, OpenAt(s, lines, n)
  PROVE  s \in Sections(lines)
<1>1. PICK from \in 1..n + 1 :
        /\ from = 1 \/ IsHeader(lines[from - 1])
        /\ \A i \in from..n : ~ IsHeader(lines[i])
        /\ s = [line |-> HeaderAt(lines, from), settings |-> SettingsRead(lines, from, n)]
  BY DEF OpenAt
<1> DEFINE Ends(e) == /\ e = Len(lines) \/ IsHeader(lines[e + 1])
                      /\ \A j \in from..e : ~ IsHeader(lines[j])
           end == CHOOSE e \in (from - 1)..Len(lines) : Ends(e)
<1>2. n \in (from - 1)..Len(lines) /\ Ends(n)
  BY <1>1
<1>3. end \in (from - 1)..Len(lines) /\ Ends(end)
  BY <1>2
<1>4. end = n
  <2> HIDE DEF end
  <2>1. CASE end < n
    <3>1. end + 1 \in from..n /\ end # Len(lines)
      BY <1>3, <2>1
    <3>2. QED
      BY <1>2, <1>3, <3>1
  <2>2. CASE end > n
    <3>1. n + 1 \in from..end /\ n # Len(lines)
      BY <1>3, <2>2
    <3>2. QED
      BY <1>2, <1>3, <3>1
  <2>3. QED
    BY <1>3, <2>1, <2>2
<1>5. CASE from = 1
  <2>1. end = CHOOSE e \in 0..Len(lines) : /\ e = Len(lines) \/ IsHeader(lines[e + 1])
                                           /\ \A j \in 1..e : ~ IsHeader(lines[j])
    BY <1>5
  <2>2. s = Preamble(lines)
    BY <1>1, <1>4, <1>5, <2>1 DEF Preamble, HeaderAt, SettingsRead
  <2>3. QED
    BY <2>2 DEF Sections
<1>6. CASE from # 1
  <2> DEFINE i == from - 1
  <2>1. i \in {j \in DOMAIN lines : IsHeader(lines[j])} /\ i + 1 = from
    BY <1>1, <1>6
  <2>2. end = CHOOSE e \in i..Len(lines) : /\ e = Len(lines) \/ IsHeader(lines[e + 1])
                                           /\ \A j \in (i + 1)..e : ~ IsHeader(lines[j])
    BY <2>1
  <2>3. s = SectionAt(lines, i)
    BY <1>1, <1>4, <1>6, <2>1, <2>2 DEF SectionAt, HeaderAt, SettingsRead
  <2>4. QED
    BY <2>1, <2>3 DEF Sections
<1>7. QED
  BY <1>5, <1>6

-----------------------------------------------------------------------------
(* The stack of files.                                                     *)

Values     == {Unset} \cup {l.value : l \in {m \in Lines : m.kind = "setting"}}
HeaderLines == {l \in Lines : IsHeader(l)} \cup {HostLine(<<Everything>>)}
SectionSet == [line : HeaderLines, settings : [Key -> Values]]
FrameSet   == [file : File, rest : Seq(Lines), includes : Seq(File), section : SectionSet \cup {NoSection}]
WarningSet == {"include_depth", "include_cycle", "missing_include"}
ParsedSet  == [hosts : Seq(SectionSet), matches : Seq(SectionSet), warnings : SUBSET WarningSet]

InOwnLists(p) ==
    /\ \A i \in DOMAIN p.hosts : p.hosts[i].line.kind = "host"
    /\ \A i \in DOMAIN p.matches : p.matches[i].line.kind = "match"

\* What is read, and what for; a list is at a configured file while files are open.
ReaderOK ==
    \/ reader \in {Idle, Failed} /\ frames = <<>>
    \/ \E n \in Nat \ {0} : reader = Listing(n) /\ (frames = <<>> \/ n \in DOMAIN Configured)
    \/ \E f \in File : \E jumps : reader = Connecting(f, jumps)

ReadingTyped ==
    /\ files \in [File -> Seq(Lines)]
    /\ frames \in Seq(FrameSet)
    /\ parsed \in ParsedSet /\ InOwnLists(parsed)
    /\ edited \in 0..MaxEdit
    /\ \A e \in entries : e.file \in File
    /\ ReaderOK

\* No file is open twice, and no more than the limit allows.
Nesting(fs) ==
    /\ Len(fs) <= IncludeLimit + 1
    /\ \A i, j \in 1..Len(fs) : fs[i].file = fs[j].file => i = j

\* A frame has read some lines of its file, and has the section they leave open.
Underway(fr, lines) ==
    \E n \in 0..Len(lines) : fr.rest = SubSeq(lines, n + 1, Len(lines)) /\ OpenAt(fr.section, lines, n)
UnderwayIn(fs, all) == \A i \in 1..Len(fs) : Underway(fs[i], all[fs[i].file])

ReadingInv ==
    /\ ReadingTyped
    /\ Nesting(frames)
    /\ edited = 0 => UnderwayIn(frames, files)
    /\ SectionsAreWhole

\* What flush_openssh_section collects.
LEMMA FlushOK ==
  ASSUME NEW p \in ParsedSet, InOwnLists(p), NEW s \in SectionSet \cup {NoSection}
  PROVE  /\ Flush(p, s) \in ParsedSet /\ InOwnLists(Flush(p, s))
         /\ ToSet(Flush(p, s).hosts) \cup ToSet(Flush(p, s).matches)
              \subseteq ToSet(p.hosts) \cup ToSet(p.matches) \cup ({s} \ {NoSection})
<1>1. CASE s = NoSection
  <2>1. Flush(p, s) = p
    BY <1>1 DEF Flush
  <2>2. QED
    BY <2>1
<1>2. ASSUME s # NoSection PROVE s \in SectionSet /\ s.line.kind \in {"host", "match"}
  <2>1. HostLine(<<Everything>>).kind = "host"
    BY DEF HostLine
  <2>2. QED
    BY <1>2, <2>1 DEF SectionSet, HeaderLines, IsHeader
<1>4. ASSUME s # NoSection, NEW q \in Seq(SectionSet)
      PROVE  /\ Append(q, s) \in Seq(SectionSet)
             /\ ToSet(Append(q, s)) \subseteq ToSet(q) \cup {s}
             /\ \A i \in DOMAIN Append(q, s) : (i \in DOMAIN q /\ Append(q, s)[i] = q[i]) \/ Append(q, s)[i] = s
  <2>1. s \in SectionSet
    BY <1>2, <1>4
  <2> DEFINE a == Append(q, s)
  <2>2. /\ a \in Seq(SectionSet) /\ Len(a) = Len(q) + 1 /\ Len(q) \in Nat
        /\ \A i \in 1..Len(q) : a[i] = q[i]
        /\ a[Len(q) + 1] = s
    BY <2>1
  <2>3. DOMAIN a = 1..Len(a) /\ DOMAIN q = 1..Len(q)
    BY <2>1
  <2> HIDE DEF a
  <2>4. \A i \in DOMAIN a : (i \in DOMAIN q /\ a[i] = q[i]) \/ a[i] = s
    BY <2>2, <2>3
  <2>5. ToSet(a) \subseteq ToSet(q) \cup {s}
    BY <2>4 DEF ToSet
  <2>6. QED
    BY <2>2, <2>4, <2>5 DEF a
<1>5. CASE s # NoSection /\ IsHost(s)
  <2>1. Flush(p, s) = [p EXCEPT !.hosts = Append(p.hosts, s)]
    BY <1>5 DEF Flush, ParsedSet
  <2>2. p.hosts \in Seq(SectionSet) /\ s.line.kind = "host"
    BY <1>5 DEF ParsedSet, IsHost
  <2> DEFINE a == Append(p.hosts, s)
  <2>3. /\ a \in Seq(SectionSet)
        /\ ToSet(a) \subseteq ToSet(p.hosts) \cup {s}
        /\ \A i \in DOMAIN a : (i \in DOMAIN p.hosts /\ a[i] = p.hosts[i]) \/ a[i] = s
    BY <1>4, <1>5, <2>2
  <2>4. Flush(p, s) = [p EXCEPT !.hosts = a]
    BY <2>1
  <2> HIDE DEF a
  <2>5. Flush(p, s) \in ParsedSet /\ Flush(p, s).hosts = a /\ Flush(p, s).matches = p.matches
    BY <2>3, <2>4 DEF ParsedSet
  <2>6. InOwnLists(Flush(p, s))
    BY <2>2, <2>3, <2>5 DEF InOwnLists
  <2>7. QED
    BY <1>5, <2>3, <2>5, <2>6
<1>6. CASE s # NoSection /\ ~ IsHost(s)
  <2>1. Flush(p, s) = [p EXCEPT !.matches = Append(p.matches, s)]
    BY <1>6 DEF Flush, ParsedSet
  <2>2. p.matches \in Seq(SectionSet) /\ s.line.kind = "match"
    BY <1>2, <1>6 DEF ParsedSet, IsHost
  <2> DEFINE a == Append(p.matches, s)
  <2>3. /\ a \in Seq(SectionSet)
        /\ ToSet(a) \subseteq ToSet(p.matches) \cup {s}
        /\ \A i \in DOMAIN a : (i \in DOMAIN p.matches /\ a[i] = p.matches[i]) \/ a[i] = s
    BY <1>4, <1>6, <2>2
  <2>4. Flush(p, s) = [p EXCEPT !.matches = a]
    BY <2>1
  <2> HIDE DEF a
  <2>5. Flush(p, s) \in ParsedSet /\ Flush(p, s).matches = a /\ Flush(p, s).hosts = p.hosts
    BY <2>3, <2>4 DEF ParsedSet
  <2>6. InOwnLists(Flush(p, s))
    BY <2>2, <2>3, <2>5 DEF InOwnLists
  <2>7. QED
    BY <1>6, <2>3, <2>5, <2>6
<1>7. QED
  BY <1>1, <1>5, <1>6

\* The type of the state follows: the files of different frames are different ones.
LEMMA TypeFollows ==
  ASSUME ReadingInv
  PROVE  OpenSshTypeOK
<1>1. frames \in Seq(FrameSet) /\ Depth \in Nat /\ DOMAIN frames = 1..Depth
  BY DEF ReadingInv, ReadingTyped, Depth
<1>2. Cardinality(Visited) = Depth
  <2> DEFINE path == [i \in 1..Depth |-> frames[i].file]
  <2>1. path \in Bijection(1..Depth, Visited)
    <3>1. \A i, j \in 1..Depth : path[i] = path[j] => i = j
      BY DEF ReadingInv, Nesting, Depth
    <3>2. Visited = {path[i] : i \in 1..Depth}
      BY <1>1 DEF Visited
    <3>3. QED
      BY <3>1, <3>2 DEF Bijection, Injection, IsInjective, Surjection
  <2>2. IsFiniteSet(1..Depth) /\ Cardinality(1..Depth) = Depth
    <3>1. 1 \in Int /\ Depth \in Int
      BY <1>1
    <3>2. IsFiniteSet(1..Depth) /\ Cardinality(1..Depth) = IF 1 > Depth THEN 0 ELSE Depth - 1 + 1
      BY <3>1, FS_Interval
    <3>3. (IF 1 > Depth THEN 0 ELSE Depth - 1 + 1) = Depth
      BY <1>1
    <3>4. QED
      BY <3>2, <3>3
  <2>3. ExistsBijection(1..Depth, Visited)
    <3> HIDE DEF path
    <3> QED BY <2>1 DEF ExistsBijection
  <2>4. QED
    BY <2>2, <2>3, FS_Bijection
<1>3. \A i \in DOMAIN frames : frames[i].section = NoSection \/ DOMAIN frames[i].section.settings = Key
  <2> SUFFICES ASSUME NEW i \in DOMAIN frames
               PROVE  frames[i].section = NoSection \/ DOMAIN frames[i].section.settings = Key
    OBVIOUS
  <2>1. frames[i] \in FrameSet
    BY <1>1, ElementOfSeq
  <2>2. QED
    BY <2>1 DEF FrameSet, SectionSet
<1>4. reader.for \in {"list", "connect", "nothing", "error"}
  BY DEF ReadingInv, ReadingTyped, ReaderOK, Idle, Failed, Listing, Connecting
<1>5. DOMAIN files = File /\ edited \in 0..MaxEdit /\ InOwnLists(parsed)
  BY DEF ReadingInv, ReadingTyped
<1>6. Depth <= IncludeLimit + 1
  BY DEF ReadingInv, Nesting, Depth
<1>7. QED
  BY <1>2, <1>3, <1>4, <1>5, <1>6 DEF OpenSshTypeOK, InOwnLists

-----------------------------------------------------------------------------
(* One line of a file.                                                     *)

\* A line is taken from those that are left.
LEMMA TakeLine ==
  ASSUME NEW lines \in Seq(Lines), NEW fr, fr.rest # <<>>, Underway(fr, lines),
         NEW next, next.rest = Tail(fr.rest),
         \A n \in Nat : n + 1 <= Len(lines) /\ lines[n + 1] = Head(fr.rest) /\ OpenAt(fr.section, lines, n)
                            => OpenAt(next.section, lines, n + 1)
  PROVE  Underway(next, lines)
<1>1. PICK n \in 0..Len(lines) : fr.rest = SubSeq(lines, n + 1, Len(lines)) /\ OpenAt(fr.section, lines, n)
  BY DEF Underway
<1>2. n < Len(lines) /\ n \in Nat /\ n + 1 \in 0..Len(lines) /\ Len(lines) \in Nat
  <2>1. n # Len(lines)
    BY <1>1
  <2>2. QED
    BY <2>1
<1>3. Head(fr.rest) = lines[n + 1]
  BY <1>1, <1>2
<1>4. Tail(fr.rest) = SubSeq(lines, (n + 1) + 1, Len(lines))
  BY <1>1, <1>2
<1>5. OpenAt(next.section, lines, n + 1)
  BY <1>1, <1>2, <1>3
<1>6. QED
  BY <1>2, <1>4, <1>5 DEF Underway

\* Where a header or the end of the file follows, the open section is whole.
LEMMA ClosedIsWhole ==
  ASSUME NEW lines \in Seq(Lines), NEW fr, Underway(fr, lines), fr.section # NoSection,
         fr.rest = <<>> \/ IsHeader(Head(fr.rest))
  PROVE  fr.section \in Sections(lines)
<1>1. PICK n \in 0..Len(lines) : fr.rest = SubSeq(lines, n + 1, Len(lines)) /\ OpenAt(fr.section, lines, n)
  BY DEF Underway
<1>2. n = Len(lines) \/ IsHeader(lines[n + 1])
  <2> SUFFICES ASSUME n # Len(lines) PROVE IsHeader(lines[n + 1])
    OBVIOUS
  <2>1. n < Len(lines) /\ n \in Nat /\ Len(lines) \in Nat
    OBVIOUS
  <2>2. Head(fr.rest) = lines[n + 1] /\ Len(fr.rest) = Len(lines) - n
    BY <1>1, <2>1
  <2>3. fr.rest # <<>>
    BY <2>1, <2>2
  <2>4. QED
    BY <2>2, <2>3
<1>3. QED
  BY <1>1, <1>2, SectionWhole

-----------------------------------------------------------------------------
(* The steps.                                                              *)

\* The file that is read.
LEMMA TopOK ==
  ASSUME ReadingInv, frames # <<>>
  PROVE  /\ Depth \in Nat \ {0} /\ Top = frames[Depth] /\ Top \in FrameSet
         /\ files[Top.file] \in Seq(Lines)
         /\ edited = 0 => Underway(Top, files[Top.file])
<1>1. frames \in Seq(FrameSet) /\ files \in [File -> Seq(Lines)]
  BY DEF ReadingInv, ReadingTyped
<1>2. Depth \in Nat \ {0} /\ Depth \in 1..Len(frames) /\ Top = frames[Depth]
  BY <1>1 DEF Depth, Top
<1>3. Top \in FrameSet
  BY <1>1, <1>2, ElementOfSeq
<1>4. Top.file \in File
  BY <1>3 DEF FrameSet
<1>5. edited = 0 => Underway(Top, files[Top.file])
  BY <1>2 DEF ReadingInv, UnderwayIn
<1>6. QED
  BY <1>1, <1>2, <1>3, <1>4, <1>5

\* Reading goes on in the same file.
LEMMA TopSet ==
  ASSUME ReadingInv, frames # <<>>, NEW fr \in FrameSet, fr.file = Top.file,
         edited = 0 => Underway(fr, files[fr.file])
  PROVE  /\ SetTop(fr) \in Seq(FrameSet) /\ Len(SetTop(fr)) = Depth /\ SetTop(fr) # <<>>
         /\ \A i \in 1..Depth : SetTop(fr)[i].file = frames[i].file
         /\ Nesting(SetTop(fr))
         /\ edited = 0 => UnderwayIn(SetTop(fr), files)
<1> DEFINE fs == SetTop(fr)
<1>1. frames \in Seq(FrameSet) /\ Depth \in Nat \ {0} /\ Depth = Len(frames) /\ Top = frames[Depth]
  BY TopOK DEF ReadingInv, ReadingTyped, Depth
<1>2. fs = [frames EXCEPT ![Depth] = fr]
  BY DEF SetTop
<1> HIDE DEF fs
<1>3. fs \in Seq(FrameSet) /\ Len(fs) = Depth
  BY <1>1, <1>2
<1>4. \A i \in 1..Depth : fs[i] = IF i = Depth THEN fr ELSE frames[i]
  BY <1>1, <1>2
<1>5. fs # <<>>
  BY <1>1, <1>3
<1>6. \A i \in 1..Depth : fs[i].file = frames[i].file
  BY <1>1, <1>4
<1>7. Nesting(fs)
  BY <1>1, <1>3, <1>6 DEF ReadingInv, Nesting
<1>8. edited = 0 => UnderwayIn(fs, files)
  BY <1>1, <1>3, <1>4 DEF ReadingInv, UnderwayIn
<1>9. QED
  BY <1>3, <1>5, <1>6, <1>7, <1>8 DEF fs

\* Sections that are collected whole leave all whole.
LEMMA WholeStays ==
  ASSUME SectionsAreWhole, UNCHANGED files, edited' = edited, NEW more,
         ToSet(parsed'.hosts) \cup ToSet(parsed'.matches) \subseteq ToSet(parsed.hosts) \cup ToSet(parsed.matches) \cup more,
         edited = 0 => \A s \in more : \E f \in File : s \in Sections(files[f])
  PROVE  SectionsAreWhole'
<1> SUFFICES ASSUME edited' = 0, NEW s \in ToSet(parsed'.hosts) \cup ToSet(parsed'.matches)
             PROVE  \E f \in File : s \in Sections(files[f])
  BY DEF SectionsAreWhole
<1>1. s \in ToSet(parsed.hosts) \cup ToSet(parsed.matches) \cup more /\ edited = 0
  OBVIOUS
<1>2. CASE s \in more
  BY <1>1, <1>2
<1>3. CASE s \in ToSet(parsed.hosts) \cup ToSet(parsed.matches)
  BY <1>1, <1>3 DEF SectionsAreWhole
<1>4. QED
  BY <1>1, <1>2, <1>3

\* What the files are read for while one is open.
Busy ==
    \/ \E n \in Nat \ {0} : reader = Listing(n) /\ n \in DOMAIN Configured
    \/ \E f \in File : \E jumps : reader = Connecting(f, jumps)

\* A file is opened above a stack as it was, or not at all.
LEMMA EnterKeeps ==
  ASSUME ReadingInv, NEW f \in File, NEW stack \in Seq(FrameSet), Len(stack) = Depth,
         \A i \in 1..Depth : stack[i].file = frames[i].file,
         edited = 0 => UnderwayIn(stack, files), Busy,
         Enter(f, stack), UNCHANGED <<files, entries, edited>>
  PROVE  ReadingInv'
<1>1. frames \in Seq(FrameSet) /\ Depth \in Nat /\ Depth = Len(frames) /\ DOMAIN frames = 1..Depth
  BY DEF ReadingInv, ReadingTyped, Depth
<1>2. files[f] \in Seq(Lines) /\ parsed \in ParsedSet /\ InOwnLists(parsed) /\ SectionsAreWhole
  BY DEF ReadingInv, ReadingTyped
<1>3. Nesting(stack)
  BY <1>1 DEF ReadingInv, Nesting
<1>4. ASSUME NEW w \in WarningSet, Stays(w, stack) PROVE ReadingInv'
  <2>1. parsed' = [parsed EXCEPT !.warnings = @ \cup {w}] /\ frames' = stack /\ reader' = reader
    BY <1>4 DEF Stays, Warn
  <2>2. parsed' \in ParsedSet /\ parsed'.hosts = parsed.hosts /\ parsed'.matches = parsed.matches
    BY <1>2, <2>1 DEF ParsedSet
  <2>3. InOwnLists(parsed')
    BY <1>2, <2>2 DEF InOwnLists
  <2>4. SectionsAreWhole'
    BY <1>2, <2>2, WholeStays
  <2>5. ReaderOK'
    BY <2>1 DEF Busy, ReaderOK
  <2>6. ReadingTyped'
    BY <2>1, <2>2, <2>3, <2>5 DEF ReadingInv, ReadingTyped
  <2>7. Nesting(frames') /\ (edited' = 0 => UnderwayIn(frames', files'))
    BY <1>3, <2>1
  <2>8. QED
    BY <2>4, <2>6, <2>7 DEF ReadingInv
<1>5. ASSUME f \notin Visited, Depth <= IncludeLimit, Open(f, stack) PROVE ReadingInv'
  <2>1. SectionsAreWhole'
    <3>1. parsed' = parsed
      BY <1>5 DEF Open
    <3>2. QED
      BY <1>2, <3>1, WholeStays
  <2>2. CASE files[f] = Unreadable
    <3>1. reader' = Failed /\ frames' = <<>> /\ parsed' = parsed
      BY <1>5, <2>2 DEF Open
    <3>2. ReadingTyped'
      BY <3>1 DEF ReadingInv, ReadingTyped, ReaderOK
    <3>3. Nesting(frames') /\ UnderwayIn(frames', files')
      BY <3>1, OpenSshConfigAssumption DEF Nesting, UnderwayIn, OpenSshConfigAssumption
    <3>4. QED
      BY <2>1, <3>2, <3>3 DEF ReadingInv
  <2>3. CASE files[f] # Unreadable
    <3> DEFINE fs == Append(stack, Frame(f))
    <3>1. frames' = fs /\ reader' = reader /\ parsed' = parsed
      BY <1>5, <2>3 DEF Open
    <3>2. Frame(f) \in FrameSet /\ Frame(f).file = f
      BY <1>2 DEF Frame, FrameSet
    <3>3. /\ fs \in Seq(FrameSet) /\ Len(fs) = Depth + 1
          /\ \A i \in 1..Depth : fs[i] = stack[i]
          /\ fs[Depth + 1] = Frame(f)
      BY <3>2
    <3> HIDE DEF fs
    <3>4. ReaderOK'
      BY <3>1 DEF Busy, ReaderOK
    <3>5. ReadingTyped'
      BY <1>2, <3>1, <3>3, <3>4 DEF ReadingInv, ReadingTyped
    <3>6. \A i \in 1..Depth : fs[i].file = frames[i].file /\ frames[i].file # f
      BY <1>1, <1>5, <3>3 DEF Visited
    <3>7. Nesting(fs)
      <4>1. Len(fs) <= IncludeLimit + 1
        BY <1>1, <1>5, <3>3, OpenSshConfigAssumption DEF OpenSshConfigAssumption
      <4>2. ASSUME NEW i \in 1..Len(fs), NEW j \in 1..Len(fs), fs[i].file = fs[j].file
            PROVE  i = j
        <5>1. (i \in 1..Depth \/ i = Depth + 1) /\ (j \in 1..Depth \/ j = Depth + 1)
          BY <1>1, <3>3
        <5>2. \A m, n \in 1..Depth : frames[m].file = frames[n].file => m = n
          BY <1>1 DEF ReadingInv, Nesting
        <5>3. QED
          BY <3>2, <3>3, <3>6, <4>2, <5>1, <5>2
      <4>3. QED
        BY <4>1, <4>2 DEF Nesting
    <3>8. Underway(Frame(f), files[f])
      <4>1. 0 \in 0..Len(files[f]) /\ SubSeq(files[f], 0 + 1, Len(files[f])) = files[f]
        BY <1>2
      <4>2. OpenAt(NoSection, files[f], 0)
        BY NothingOpen
      <4>3. Frame(f).rest = files[f] /\ Frame(f).section = NoSection
        BY DEF Frame
      <4>4. QED
        BY <4>1, <4>2, <4>3 DEF Underway
    <3>9. edited = 0 => UnderwayIn(fs, files)
      <4> SUFFICES ASSUME edited = 0, NEW i \in 1..Len(fs) PROVE Underway(fs[i], files[fs[i].file])
        BY DEF UnderwayIn
      <4>1. i \in 1..Depth \/ i = Depth + 1
        BY <1>1, <3>3
      <4>2. CASE i \in 1..Depth
        BY <3>3, <4>2 DEF UnderwayIn
      <4>3. CASE i = Depth + 1
        BY <3>2, <3>3, <3>8, <4>3
      <4>4. QED
        BY <4>1, <4>2, <4>3
    <3>10. QED
      BY <2>1, <3>1, <3>5, <3>7, <3>9 DEF ReadingInv
  <2>4. QED
    BY <2>2, <2>3
<1>6. CASE Depth > IncludeLimit
  BY <1>4, <1>6 DEF Enter, WarningSet
<1>7. CASE ~ (Depth > IncludeLimit)
  <2>1. Depth <= IncludeLimit
    BY <1>1, <1>7, OpenSshConfigAssumption DEF OpenSshConfigAssumption
  <2>2. CASE f \in Visited \/ files[f] = Missing
    <3>1. \E w \in WarningSet : Stays(w, stack)
      BY <1>7, <2>2 DEF Enter, WarningSet
    <3>2. QED
      BY <1>4, <3>1
  <2>3. CASE f \notin Visited /\ files[f] # Missing
    <3>1. Open(f, stack)
      BY <1>7, <2>3 DEF Enter
    <3>2. QED
      BY <1>5, <2>1, <2>3, <3>1
  <2>4. QED
    BY <2>2, <2>3
<1>8. QED
  BY <1>6, <1>7

\* A line leaves the frame as TopSet wants it, what it flushes is whole.
LEMMA LineKeeps ==
  ASSUME ReadingInv, frames # <<>>, NEW fr \in FrameSet, fr.file = Top.file,
         edited = 0 => Underway(fr, files[fr.file]),
         frames' = SetTop(fr), UNCHANGED <<reader, files, entries, edited>>,
         parsed' \in ParsedSet, InOwnLists(parsed'), SectionsAreWhole'
  PROVE  ReadingInv'
<1>1. /\ SetTop(fr) \in Seq(FrameSet) /\ Nesting(SetTop(fr))
      /\ edited = 0 => UnderwayIn(SetTop(fr), files)
  BY TopSet
<1>2. ReaderOK'
  BY DEF ReadingInv, ReadingTyped, ReaderOK, Idle, Failed, Listing, Connecting
<1>3. ReadingTyped'
  BY <1>1, <1>2 DEF ReadingInv, ReadingTyped
<1>4. QED
  BY <1>1, <1>3 DEF ReadingInv

\* Where nothing is flushed.
LEMMA NothingFlushed ==
  ASSUME ReadingInv, UNCHANGED <<parsed, files, edited>>
  PROVE  parsed' \in ParsedSet /\ InOwnLists(parsed') /\ SectionsAreWhole'
<1>1. SectionsAreWhole'
  BY WholeStays DEF ReadingInv
<1>2. QED
  BY <1>1 DEF ReadingInv, ReadingTyped

\* The section of the file that is read is flushed where it ends.
LEMMA TopFlushed ==
  ASSUME ReadingInv, frames # <<>>, Top.rest = <<>> \/ IsHeader(Head(Top.rest))
  PROVE  LET p == Flush(parsed, Top.section) IN
         /\ p \in ParsedSet /\ InOwnLists(p)
         /\ UNCHANGED <<files, edited>> /\ parsed' = p => SectionsAreWhole'
<1> DEFINE p == Flush(parsed, Top.section)
           more == {Top.section} \ {NoSection}
<1>1. Top \in FrameSet /\ files[Top.file] \in Seq(Lines) /\ (edited = 0 => Underway(Top, files[Top.file]))
  BY TopOK
<1>2. Top.section \in SectionSet \cup {NoSection} /\ Top.file \in File
  BY <1>1 DEF FrameSet
<1>3. /\ p \in ParsedSet /\ InOwnLists(p)
      /\ ToSet(p.hosts) \cup ToSet(p.matches) \subseteq ToSet(parsed.hosts) \cup ToSet(parsed.matches) \cup more
  BY <1>2, FlushOK DEF ReadingInv, ReadingTyped
<1>4. edited = 0 => \A s \in more : \E f \in File : s \in Sections(files[f])
  BY <1>1, <1>2, ClosedIsWhole
<1> HIDE DEF p, more
<1>5. ASSUME UNCHANGED <<files, edited>>, parsed' = p PROVE SectionsAreWhole'
  BY <1>3, <1>4, <1>5, WholeStays DEF ReadingInv
<1>6. QED
  BY <1>3, <1>5 DEF p

\* The line that is read.
LEMMA LineOK ==
  ASSUME ReadingInv, frames # <<>>, Top.rest # <<>>
  PROVE  /\ Line \in Lines /\ Line = Head(Top.rest)
         /\ Tail(Top.rest) \in Seq(Lines)
         /\ Rest = [Top EXCEPT !.rest = Tail(Top.rest)]
<1>1. Top \in FrameSet
  BY TopOK
<1>2. Top.rest \in Seq(Lines)
  BY <1>1 DEF FrameSet
<1>3. Rest = [Top EXCEPT !.rest = Tail(Top.rest)]
  BY <1>1 DEF Rest, FrameSet
<1>4. QED
  BY <1>2, <1>3 DEF Line

LEMMA ReadIncludeKeeps ==
  ASSUME ReadingInv, ReadInclude
  PROVE  ReadingInv'
<1> DEFINE fr == [Rest EXCEPT !.includes = Line.paths]
<1>1. frames # <<>> /\ Top.rest # <<>> /\ Line.kind = "include" /\ frames' = SetTop(fr)
  BY DEF ReadInclude, Reading, Line
<1>2. UNCHANGED <<reader, parsed, files, entries, edited>>
  BY DEF ReadInclude, Reading
<1>3. Top \in FrameSet /\ files[Top.file] \in Seq(Lines) /\ (edited = 0 => Underway(Top, files[Top.file]))
  BY <1>1, TopOK
<1>4. /\ Line \in Lines /\ Line = Head(Top.rest) /\ Tail(Top.rest) \in Seq(Lines)
      /\ Rest = [Top EXCEPT !.rest = Tail(Top.rest)]
  BY <1>1, LineOK
<1>5. Line.paths \in Seq(File)
  BY <1>1, <1>4, OpenSshConfigAssumption DEF OpenSshConfigAssumption
<1>6. fr = [Top EXCEPT !.rest = Tail(Top.rest), !.includes = Line.paths]
  BY <1>3, <1>4 DEF FrameSet
<1> HIDE DEF fr
<1>7. fr \in FrameSet /\ fr.file = Top.file /\ fr.rest = Tail(Top.rest) /\ fr.section = Top.section
  BY <1>3, <1>4, <1>5, <1>6 DEF FrameSet
<1>8. edited = 0 => Underway(fr, files[fr.file])
  <2> DEFINE lines == files[Top.file]
  <2>1. \A n \in Nat : n + 1 <= Len(lines) /\ lines[n + 1] = Head(Top.rest) /\ OpenAt(Top.section, lines, n)
                          => OpenAt(fr.section, lines, n + 1)
    BY <1>1, <1>3, <1>4, <1>7, AfterInclude
  <2> HIDE DEF lines
  <2>2. lines \in Seq(Lines)
    BY <1>3 DEF lines
  <2>3. edited = 0 => Underway(Top, lines)
    BY <1>3 DEF lines
  <2>4. edited = 0 => Underway(fr, lines)
    BY <1>1, <1>7, <2>1, <2>2, <2>3, TakeLine
  <2>5. QED
    BY <1>7, <2>4 DEF lines
<1>9. parsed' \in ParsedSet /\ InOwnLists(parsed') /\ SectionsAreWhole'
  BY <1>2, NothingFlushed
<1>10. QED
  BY <1>1, <1>2, <1>7, <1>8, <1>9, LineKeeps

LEMMA ReadSectionKeeps ==
  ASSUME ReadingInv, ReadSection
  PROVE  ReadingInv'
<1> DEFINE fr == [Rest EXCEPT !.section = Section(Line)]
<1>1. frames # <<>> /\ Top.rest # <<>> /\ IsHeader(Line) /\ frames' = SetTop(fr) /\ parsed' = Flush(parsed, Top.section)
  BY DEF ReadSection, Reading, Line, IsHeader
<1>2. UNCHANGED <<reader, files, entries, edited>>
  BY DEF ReadSection, Reading
<1>3. Top \in FrameSet /\ files[Top.file] \in Seq(Lines) /\ (edited = 0 => Underway(Top, files[Top.file]))
  BY <1>1, TopOK
<1>4. /\ Line \in Lines /\ Line = Head(Top.rest) /\ Tail(Top.rest) \in Seq(Lines)
      /\ Rest = [Top EXCEPT !.rest = Tail(Top.rest)]
  BY <1>1, LineOK
<1>5. Section(Line) \in SectionSet
  <2>1. Line \in HeaderLines
    BY <1>1, <1>4 DEF HeaderLines
  <2>2. NoSettings \in [Key -> Values]
    BY DEF NoSettings, Values
  <2>3. QED
    BY <2>1, <2>2 DEF Section, SectionSet
<1>6. fr = [Top EXCEPT !.rest = Tail(Top.rest), !.section = Section(Line)]
  BY <1>3, <1>4 DEF FrameSet
<1> HIDE DEF fr
<1>7. fr \in FrameSet /\ fr.file = Top.file /\ fr.rest = Tail(Top.rest) /\ fr.section = Section(Line)
  BY <1>3, <1>4, <1>5, <1>6 DEF FrameSet
<1>8. edited = 0 => Underway(fr, files[fr.file])
  <2> DEFINE lines == files[Top.file]
  <2>1. \A n \in Nat : n + 1 <= Len(lines) /\ lines[n + 1] = Head(Top.rest) /\ OpenAt(Top.section, lines, n)
                          => OpenAt(fr.section, lines, n + 1)
    BY <1>1, <1>3, <1>4, <1>7, AfterHeader
  <2> HIDE DEF lines
  <2>2. lines \in Seq(Lines)
    BY <1>3 DEF lines
  <2>3. edited = 0 => Underway(Top, lines)
    BY <1>3 DEF lines
  <2>4. edited = 0 => Underway(fr, lines)
    BY <1>1, <1>7, <2>1, <2>2, <2>3, TakeLine
  <2>5. QED
    BY <1>7, <2>4 DEF lines
<1>9. parsed' \in ParsedSet /\ InOwnLists(parsed') /\ SectionsAreWhole'
  BY <1>1, <1>2, <1>4, TopFlushed
<1>10. QED
  BY <1>1, <1>2, <1>7, <1>8, <1>9, LineKeeps

LEMMA ReadSettingKeeps ==
  ASSUME ReadingInv, ReadSetting
  PROVE  ReadingInv'
<1> DEFINE fr == [Rest EXCEPT !.section = WithSetting(Top.section, Line)]
<1>1. frames # <<>> /\ Top.rest # <<>> /\ Line.kind = "setting"
  BY DEF ReadSetting, Reading, Line
<1>2. UNCHANGED <<reader, parsed, files, entries, edited>>
  BY DEF ReadSetting, Reading
<1>3. Top \in FrameSet /\ files[Top.file] \in Seq(Lines) /\ (edited = 0 => Underway(Top, files[Top.file]))
  BY <1>1, TopOK
<1>4. /\ Line \in Lines /\ Line = Head(Top.rest) /\ Tail(Top.rest) \in Seq(Lines)
      /\ Rest = [Top EXCEPT !.rest = Tail(Top.rest)]
  BY <1>1, LineOK
<1>5. WithSetting(Top.section, Line) \in SectionSet
  <2> DEFINE section == IF Top.section = NoSection THEN Section(HostLine(<<Everything>>)) ELSE Top.section
  <2>1. Section(HostLine(<<Everything>>)) \in SectionSet
    <3>1. HostLine(<<Everything>>) \in HeaderLines
      BY DEF HeaderLines
    <3>2. NoSettings \in [Key -> Values]
      BY DEF NoSettings, Values
    <3>3. QED
      BY <3>1, <3>2 DEF Section, SectionSet
  <2>2. section \in SectionSet
    BY <1>3, <2>1 DEF FrameSet
  <2>3. WithSetting(Top.section, Line) = [section EXCEPT !.settings = WithValue(section.settings, Line.key, Line.value)]
    BY <2>2 DEF WithSetting, SectionSet
  <2> HIDE DEF section
  <2>4. section.settings \in [Key -> Values] /\ Line.value \in Values
    BY <1>1, <1>4, <2>2 DEF SectionSet, Values
  <2>5. WithValue(section.settings, Line.key, Line.value) \in [Key -> Values]
    BY <2>4 DEF WithValue
  <2>6. QED
    BY <2>2, <2>3, <2>5 DEF SectionSet
<1>6. frames' = SetTop(fr)
  BY DEF ReadSetting, WithSetting
<1>7. fr = [Top EXCEPT !.rest = Tail(Top.rest), !.section = WithSetting(Top.section, Line)]
  BY <1>3, <1>4 DEF FrameSet
<1> HIDE DEF fr
<1>8. fr \in FrameSet /\ fr.file = Top.file /\ fr.rest = Tail(Top.rest) /\ fr.section = WithSetting(Top.section, Line)
  BY <1>3, <1>4, <1>5, <1>7 DEF FrameSet
<1>9. edited = 0 => Underway(fr, files[fr.file])
  <2> DEFINE lines == files[Top.file]
  <2>1. \A n \in Nat : n + 1 <= Len(lines) /\ lines[n + 1] = Head(Top.rest) /\ OpenAt(Top.section, lines, n)
                          => OpenAt(fr.section, lines, n + 1)
    BY <1>1, <1>3, <1>4, <1>8, AfterSetting
  <2> HIDE DEF lines
  <2>2. lines \in Seq(Lines)
    BY <1>3 DEF lines
  <2>3. edited = 0 => Underway(Top, lines)
    BY <1>3 DEF lines
  <2>4. edited = 0 => Underway(fr, lines)
    BY <1>1, <1>8, <2>1, <2>2, <2>3, TakeLine
  <2>5. QED
    BY <1>8, <2>4 DEF lines
<1>10. parsed' \in ParsedSet /\ InOwnLists(parsed') /\ SectionsAreWhole'
  BY <1>2, NothingFlushed
<1>11. QED
  BY <1>1, <1>2, <1>6, <1>8, <1>9, <1>10, LineKeeps

\* Nothing is read while only what is read for changes.
LEMMA NothingRead ==
  ASSUME ReadingInv, frames = <<>>, UNCHANGED <<files, frames, parsed, edited>>, ReaderOK',
         \A e \in entries' : e.file \in File
  PROVE  ReadingInv'
<1>1. parsed' \in ParsedSet /\ InOwnLists(parsed') /\ SectionsAreWhole'
  BY NothingFlushed
<1>2. ReadingTyped'
  BY <1>1 DEF ReadingInv, ReadingTyped
<1>3. Nesting(frames') /\ UnderwayIn(frames', files')
  BY OpenSshConfigAssumption DEF Nesting, UnderwayIn, OpenSshConfigAssumption
<1>4. QED
  BY <1>1, <1>2, <1>3 DEF ReadingInv

\* The first file of a list or of a connection.
LEMMA FirstFile ==
  ASSUME ReadingInv, frames = <<>>, Busy, NEW f \in File, Enter(f, <<>>), UNCHANGED <<files, entries, edited>>
  PROVE  ReadingInv'
<1>1. <<>> \in Seq(FrameSet) /\ Len(<<>>) = 0 /\ Depth = 0
  BY DEF Depth
<1>2. UnderwayIn(<<>>, files)
  BY <1>1 DEF UnderwayIn
<1>3. QED
  BY <1>1, <1>2, EnterKeeps

LEMMA ListAt ==
  ASSUME ReaderOK, reader.for = "list"
  PROVE  /\ reader.next \in Nat \ {0} /\ reader = Listing(reader.next)
         /\ frames = <<>> \/ reader.next \in DOMAIN Configured
<1>1. reader \notin {Idle, Failed} /\ \A f, jumps : reader # Connecting(f, jumps)
  BY DEF Idle, Failed, Connecting
<1>2. PICK n \in Nat \ {0} : reader = Listing(n) /\ (frames = <<>> \/ n \in DOMAIN Configured)
  BY <1>1 DEF ReaderOK
<1>3. reader.next = n
  BY <1>2 DEF Listing
<1>4. QED
  BY <1>2, <1>3

LEMMA BeginKeeps ==
  ASSUME ReadingInv, Begin
  PROVE  ReadingInv'
<1>1. frames = <<>> /\ reader.next \in DOMAIN Configured /\ UNCHANGED <<files, entries, edited>>
  BY DEF Begin
<1>2. reader.next \in Nat \ {0} /\ reader = Listing(reader.next)
  BY ListAt DEF Begin, ReadingInv, ReadingTyped
<1> DEFINE f == Configured[reader.next]
<1>3. f \in File
  BY <1>1, OpenSshConfigAssumption, ElementOfSeq DEF OpenSshConfigAssumption
<1>4. CASE files[f] = Missing
  <2>1. reader' = Listing(reader.next + 1) /\ UNCHANGED <<frames, parsed>>
    BY <1>4 DEF Begin
  <2>2. ReaderOK'
    BY <1>1, <1>2, <2>1 DEF ReaderOK
  <2>3. \A e \in entries' : e.file \in File
    BY <1>1 DEF ReadingInv, ReadingTyped
  <2>4. QED
    BY <1>1, <2>1, <2>2, <2>3, NothingRead
<1>5. CASE files[f] # Missing
  <2>1. Enter(f, <<>>)
    BY <1>5 DEF Begin
  <2>2. Busy
    BY <1>1, <1>2 DEF Busy
  <2>3. QED
    BY <1>1, <1>3, <2>1, <2>2, FirstFile
<1>6. QED
  BY <1>4, <1>5

LEMMA BeginConnectKeeps ==
  ASSUME ReadingInv, BeginConnect
  PROVE  ReadingInv'
<1>1. frames = <<>> /\ UNCHANGED <<files, entries, edited>>
  BY DEF BeginConnect
<1>2. PICK f \in File : \E jumps : reader = Connecting(f, jumps)
  <2>1. reader \notin {Idle, Failed} /\ \A n : reader # Listing(n)
    BY DEF BeginConnect, Idle, Failed, Listing
  <2>2. QED
    BY <2>1 DEF ReadingInv, ReadingTyped, ReaderOK
<1>3. reader.file = f /\ Busy
  <2>1. PICK jumps : reader = Connecting(f, jumps)
    BY <1>2
  <2>2. reader.file = f
    BY <2>1 DEF Connecting
  <2>3. QED
    BY <1>2, <2>2 DEF Busy
<1>4. CASE files[f] = Missing
  <2>1. reader' = Idle /\ UNCHANGED <<frames, parsed>>
    BY <1>3, <1>4 DEF BeginConnect
  <2>2. ReaderOK'
    BY <1>1, <2>1 DEF ReaderOK
  <2>3. \A e \in entries' : e.file \in File
    BY <1>1 DEF ReadingInv, ReadingTyped
  <2>4. QED
    BY <1>1, <2>1, <2>2, <2>3, NothingRead
<1>5. CASE files[f] # Missing
  <2>1. Enter(f, <<>>)
    BY <1>3, <1>5 DEF BeginConnect
  <2>2. QED
    BY <1>1, <1>3, <2>1, FirstFile
<1>6. QED
  BY <1>4, <1>5

\* While a file is open the reader is at it.
LEMMA OpenIsBusy ==
  ASSUME ReadingInv, frames # <<>>
  PROVE  Busy
BY DEF ReadingInv, ReadingTyped, ReaderOK, Busy

LEMMA OpenIncludeKeeps ==
  ASSUME ReadingInv, OpenInclude
  PROVE  ReadingInv'
<1> DEFINE fr == [Top EXCEPT !.includes = Tail(Top.includes)]
           f  == Head(Top.includes)
<1>1. frames # <<>> /\ Top.includes # <<>> /\ UNCHANGED <<files, entries, edited>>
  BY DEF OpenInclude
<1>2. Top \in FrameSet /\ files[Top.file] \in Seq(Lines) /\ (edited = 0 => Underway(Top, files[Top.file]))
  BY <1>1, TopOK
<1>3. [Top EXCEPT !.includes = Tail(@)] = fr
  BY <1>2 DEF FrameSet
<1>4. Enter(f, SetTop(fr))
  BY <1>3 DEF OpenInclude
<1>5. f \in File /\ Tail(Top.includes) \in Seq(File)
  BY <1>1, <1>2 DEF FrameSet
<1>6. fr \in FrameSet /\ fr.file = Top.file /\ fr.rest = Top.rest /\ fr.section = Top.section
  BY <1>2, <1>5 DEF FrameSet
<1> HIDE DEF fr, f
<1>7. edited = 0 => Underway(fr, files[fr.file])
  BY <1>2, <1>6 DEF Underway
<1> DEFINE stack == SetTop(fr)
<1>8. /\ stack \in Seq(FrameSet) /\ Len(stack) = Depth
      /\ \A i \in 1..Depth : stack[i].file = frames[i].file
      /\ edited = 0 => UnderwayIn(stack, files)
  BY <1>1, <1>6, <1>7, TopSet
<1>9. Enter(f, stack)
  BY <1>4
<1> HIDE DEF stack
<1>10. Busy
  BY <1>1, OpenIsBusy
<1>11. QED
  BY <1>1, <1>5, <1>8, <1>9, <1>10, EnterKeeps

\* The entries of a file are of that file.
LEMMA EntriesOfFile ==
  ASSUME NEW p, NEW f, NEW e \in EntriesOf(p, f)
  PROVE  e.file = f
BY DEF EntriesOf, Entry

LEMMA EndFileKeeps ==
  ASSUME ReadingInv, EndFile
  PROVE  ReadingInv'
<1> DEFINE p == Flush(parsed, Top.section)
<1>1. frames # <<>> /\ Top.rest = <<>> /\ frames' = Pop /\ UNCHANGED <<files, edited>>
  BY DEF EndFile
<1>2. /\ p \in ParsedSet /\ InOwnLists(p)
      /\ UNCHANGED <<files, edited>> /\ parsed' = p => SectionsAreWhole'
  BY <1>1, TopFlushed
<1>3. frames \in Seq(FrameSet) /\ Depth = Len(frames) /\ Depth \in Nat \ {0}
  BY <1>1, TopOK DEF ReadingInv, ReadingTyped, Depth
<1> DEFINE fs == SubSeq(frames, 1, Depth - 1)
<1>4. fs \in Seq(FrameSet) /\ Len(fs) = Depth - 1 /\ \A i \in 1..Depth - 1 : fs[i] = frames[i]
  BY <1>3
<1>5. frames' = fs
  BY <1>1 DEF Pop
<1> HIDE DEF fs
<1>6. Nesting(fs)
  <2>1. Len(frames) <= IncludeLimit + 1 /\ \A i, j \in 1..Len(frames) : frames[i].file = frames[j].file => i = j
    BY DEF ReadingInv, Nesting
  <2>2. Len(fs) <= IncludeLimit + 1
    BY <1>3, <1>4, <2>1, OpenSshConfigAssumption DEF OpenSshConfigAssumption
  <2>3. \A i \in 1..Len(fs) : i \in 1..Len(frames) /\ fs[i] = frames[i]
    BY <1>3, <1>4
  <2>4. QED
    BY <2>1, <2>2, <2>3 DEF Nesting
<1>7. edited = 0 => UnderwayIn(fs, files)
  <2>1. \A i \in 1..Len(fs) : i \in 1..Len(frames) /\ fs[i] = frames[i]
    BY <1>3, <1>4
  <2>2. QED
    BY <2>1 DEF ReadingInv, UnderwayIn
<1>8. CASE Depth = 1
  <2>1. Finish(p) /\ parsed' = NothingParsed
    BY <1>8 DEF EndFile
  <2>2. fs = <<>>
    BY <1>4, <1>8
  <2>3. ReaderOK' /\ \A e \in entries' : e.file \in File
    <3>1. CASE reader.for = "list"
      <4>1. /\ reader' = Listing(reader.next + 1)
            /\ entries' = entries \cup EntriesOf(p, Configured[reader.next])
        BY <2>1, <3>1 DEF Finish
      <4>2. reader.next \in Nat \ {0} /\ reader.next \in DOMAIN Configured
        BY <1>1, <3>1, ListAt DEF ReadingInv, ReadingTyped
      <4>3. Configured[reader.next] \in File
        BY <4>2, OpenSshConfigAssumption, ElementOfSeq DEF OpenSshConfigAssumption
      <4>4. ReaderOK'
        BY <1>5, <2>2, <4>1, <4>2 DEF ReaderOK
      <4>5. \A e \in EntriesOf(p, Configured[reader.next]) : e.file \in File
        BY <4>3, EntriesOfFile
      <4>6. QED
        BY <4>1, <4>4, <4>5 DEF ReadingInv, ReadingTyped
    <3>2. CASE reader.for # "list"
      <4>1. reader' = Idle /\ entries' = entries
        BY <2>1, <3>2 DEF Finish
      <4>2. QED
        BY <1>5, <2>2, <4>1 DEF ReadingInv, ReadingTyped, ReaderOK
    <3>3. QED
      BY <3>1, <3>2
  <2>4. /\ NothingParsed \in ParsedSet /\ InOwnLists(NothingParsed)
        /\ ToSet(NothingParsed.hosts) = {} /\ ToSet(NothingParsed.matches) = {}
    BY DEF NothingParsed, ParsedSet, InOwnLists, ToSet
  <2>5. SectionsAreWhole'
    BY <2>1, <2>4 DEF SectionsAreWhole
  <2>6. ReadingTyped'
    BY <1>1, <1>4, <1>5, <2>1, <2>3, <2>4 DEF ReadingInv, ReadingTyped
  <2>7. QED
    BY <1>1, <1>5, <1>6, <1>7, <2>5, <2>6 DEF ReadingInv
<1>9. CASE Depth # 1
  <2>1. parsed' = p /\ UNCHANGED <<reader, entries>>
    BY <1>9 DEF EndFile
  <2>2. ReaderOK'
    BY <1>1, <2>1, OpenIsBusy DEF Busy, ReaderOK
  <2>3. ReadingTyped'
    BY <1>1, <1>2, <1>4, <1>5, <2>1, <2>2 DEF ReadingInv, ReadingTyped
  <2>4. QED
    BY <1>1, <1>2, <1>5, <1>6, <1>7, <2>1, <2>3 DEF ReadingInv
<1>10. QED
  BY <1>8, <1>9

LEMMA EndListKeeps ==
  ASSUME ReadingInv, EndList
  PROVE  ReadingInv'
<1>1. reader.for = "list" /\ reader.next \notin DOMAIN Configured /\ reader' = Idle
  BY DEF EndList
<1>2. frames = <<>>
  BY <1>1, ListAt DEF ReadingInv, ReadingTyped
<1>3. UNCHANGED <<files, frames, parsed, entries, edited>>
  BY DEF EndList
<1>4. ReaderOK'
  BY <1>1, <1>2, <1>3 DEF ReaderOK
<1>5. QED
  BY <1>2, <1>3, <1>4, NothingRead DEF ReadingInv, ReadingTyped

LEMMA ResolveJumpsKeeps ==
  ASSUME ReadingInv, NEW e \in entries, ResolveJumps(e)
  PROVE  ReadingInv'
<1>1. reader.for = "nothing" /\ reader' = Connecting(e.file, e.settings["proxyjump"])
  BY DEF ResolveJumps
<1>2. frames = <<>>
  BY <1>1 DEF ReadingInv, ReadingTyped, ReaderOK, Listing, Connecting
<1>3. UNCHANGED <<files, frames, parsed, entries, edited>>
  BY DEF ResolveJumps
<1>4. e.file \in File
  BY DEF ReadingInv, ReadingTyped
<1>5. ReaderOK'
  BY <1>1, <1>4 DEF ReaderOK
<1>6. QED
  BY <1>2, <1>3, <1>5, NothingRead DEF ReadingInv, ReadingTyped

\* Once somebody has written a file nothing is said of the sections.
LEMMA EditKeeps ==
  ASSUME ReadingInv, NEW e \in Edits, Edit(e.file, e.lines)
  PROVE  ReadingInv'
<1>1. /\ edited < MaxEdit /\ edited' = edited + 1
      /\ files' = [files EXCEPT ![e.file] = e.lines]
      /\ UNCHANGED <<reader, frames, parsed, entries>>
  BY DEF Edit
<1>2. e.lines \in Seq(Lines) /\ MaxEdit \in Nat
  BY OpenSshConfigAssumption DEF OpenSshConfigAssumption
<1>3. edited' \in 0..MaxEdit /\ edited' # 0
  BY <1>1, <1>2 DEF ReadingInv, ReadingTyped
<1>4. files' \in [File -> Seq(Lines)]
  BY <1>1, <1>2 DEF ReadingInv, ReadingTyped
<1>5. ReaderOK'
  BY <1>1 DEF ReadingInv, ReadingTyped, ReaderOK
<1>6. ReadingTyped'
  BY <1>1, <1>3, <1>4, <1>5 DEF ReadingInv, ReadingTyped
<1>7. Nesting(frames')
  BY <1>1 DEF ReadingInv
<1>8. SectionsAreWhole'
  BY <1>3 DEF SectionsAreWhole
<1>9. QED
  BY <1>3, <1>6, <1>7, <1>8 DEF ReadingInv

LEMMA ReadingInvStays ==
  ASSUME ReadingInv, UNCHANGED openSshVars
  PROVE  ReadingInv'
<1>1. UNCHANGED <<files, reader, frames, parsed, entries, edited>>
  BY DEF openSshVars
<1>2. ReadingTyped'
  BY <1>1 DEF ReadingInv, ReadingTyped, ReaderOK
<1>3. SectionsAreWhole'
  BY <1>1, NothingFlushed
<1>4. QED
  BY <1>1, <1>2, <1>3 DEF ReadingInv

LEMMA ReadingInvInit ==
  ASSUME OpenSshInit
  PROVE  ReadingInv
<1>1. files \in [File -> Seq(Lines)]
  BY OpenSshConfigAssumption DEF OpenSshInit, OpenSshConfigAssumption
<1>2. /\ frames = <<>> /\ parsed = NothingParsed /\ reader = Listing(1) /\ entries = {} /\ edited = 0
  BY DEF OpenSshInit
<1>3. /\ NothingParsed \in ParsedSet /\ InOwnLists(NothingParsed)
      /\ ToSet(NothingParsed.hosts) = {} /\ ToSet(NothingParsed.matches) = {}
  BY DEF NothingParsed, ParsedSet, InOwnLists, ToSet
<1>4. ReadingTyped
  <2>1. ReaderOK
    BY <1>2 DEF ReaderOK
  <2>2. frames \in Seq(FrameSet)
    BY <1>2
  <2>3. edited \in 0..MaxEdit
    BY <1>2, OpenSshConfigAssumption DEF OpenSshConfigAssumption
  <2>4. QED
    BY <1>1, <1>2, <1>3, <2>1, <2>2, <2>3 DEF ReadingTyped
<1>5. Nesting(frames) /\ UnderwayIn(frames, files)
  BY <1>2, OpenSshConfigAssumption DEF Nesting, UnderwayIn, OpenSshConfigAssumption
<1>6. SectionsAreWhole
  BY <1>2, <1>3 DEF SectionsAreWhole
<1>7. QED
  BY <1>4, <1>5, <1>6 DEF ReadingInv

LEMMA ReadingInvHolds == OpenSshSpec => []ReadingInv
<1>1. OpenSshInit => ReadingInv
  BY ReadingInvInit
<1>2. ReadingInv /\ [OpenSshNext]_openSshVars => ReadingInv'
  <2> SUFFICES ASSUME ReadingInv, [OpenSshNext]_openSshVars PROVE ReadingInv'
    OBVIOUS
  <2>1. CASE Begin \/ BeginConnect \/ OpenInclude
    BY <2>1, BeginKeeps, BeginConnectKeeps, OpenIncludeKeeps
  <2>2. CASE EndFile \/ EndList
    BY <2>2, EndFileKeeps, EndListKeeps
  <2>3. CASE ReadInclude \/ ReadSection \/ ReadSetting
    BY <2>3, ReadIncludeKeeps, ReadSectionKeeps, ReadSettingKeeps
  <2>4. CASE \E e \in entries : ResolveJumps(e)
    BY <2>4, ResolveJumpsKeeps
  <2>5. CASE \E e \in Edits : Edit(e.file, e.lines)
    BY <2>5, EditKeeps
  <2>6. CASE UNCHANGED openSshVars
    BY <2>6, ReadingInvStays
  <2>7. QED
    BY <2>1, <2>2, <2>3, <2>4, <2>5, <2>6 DEF OpenSshNext, OpenSshStep
<1>3. QED
  BY <1>1, <1>2, PTL DEF OpenSshSpec

\* The reader never has a file open twice or more files than the limit of
\* parse_openssh_config_file allows, so an Include in a circle ends; Host sections and Match
\* sections stay in their own lists.
THEOREM OpenSshTypeCorrect == OpenSshSpec => []OpenSshTypeOK
<1>1. ReadingInv => OpenSshTypeOK
  BY TypeFollows
<1>2. QED
  BY <1>1, ReadingInvHolds, PTL

\* Every section that flush_openssh_section collects is one of a file, whole: it has the
\* settings between its header and the next header of that file, the first of each, no
\* matter which files are included in the middle of it.
THEOREM ReadingSound == OpenSshSpec => []ReadingIsSound
<1>1. ReadingInv => ReadingIsSound
  BY TypeFollows DEF ReadingInv, ReadingIsSound
<1>2. QED
  BY <1>1, ReadingInvHolds, PTL
=============================================================================
