------------------------------ MODULE Helpers ------------------------------
(***************************************************************************)
(* Helper programs that the app uploads to a remote host and runs there:   *)
(* the resource monitor's agent (resources.rs), ripgrep for the searches   *)
(* of Files (files.rs) and the terminal agent (terminal.rs).  Every call   *)
(* runs on a thread of its own; the calls for one helper on one host share *)
(* what this process remembers of them and the remote file, and calls for  *)
(* different helpers or hosts share nothing.                               *)
(*                                                                         *)
(* So a behaviour is about one helper, one host, one build and one target  *)
(* (system and architecture).  Somebody else (the user, another computer's *)
(* Nocturne) may change the remote file at any time, and the user may      *)
(* configure another target for the host, whose calls write to the same    *)
(* places of the memory and, for a target of the same system, to the same  *)
(* remote file.                                                            *)
(***************************************************************************)
EXTENDS Naturals, FiniteSets

CONSTANTS Worker,     \* threads that may call
          Helper,     \* helpers a behaviour may be about
          MaxRestart  \* bound: restarts of the app

\* RemoteHelperPolicy, files.remote_helper_policy.
Policy == {"ask", "never", "allow"}
\* Where this build finds the helper's bytes: ResourceHelperBytesSource.
Source == {"bundled", "download", "unavailable"}
\* What is at the helper's remote path.
Content == {"none", "torn", "whole", "other"}

ASSUME HelpersAssumption == /\ Helper \subseteq {"monitor", "rg", "agent"}
                            /\ MaxRestart \in Nat

VARIABLES helper,    \* the helper this behaviour is about
          verified,  \* this process knows it to be deployed
          canceled,  \* the user refused the upload of the monitor
          pending,   \* its upload dialog is open
          call,      \* worker -> its call
          policy,    \* the saved policy
          source,    \* where its bytes are
          file,      \* what is at its remote path
          spoilt,    \* history: that was changed or broken since it was last verified
          checked,   \* history: its hash was verified since the app started
          restarts,
          retargeted \* history: another target recorded something since the app started

app == <<restarts, retargeted>>
memory == <<verified, canceled, pending>>
remote == <<file, spoilt, checked>>
vars == <<helper, memory, call, policy, source, remote, app>>

Step == {"idle", "source", "download", "policy", "known", "held", "record", "asking", "again",
         "truncate", "fill", "verify", "note", "run"}
\* cut: somebody truncated or replaced the file this call is writing.
\* late (history): another target replaced the hash that this search had found verified.
NoCall == [step |-> "idle", policy |-> "ask", agreed |-> FALSE, cut |-> FALSE, late |-> FALSE]
In(steps) == {w \in Worker : call[w].step \in steps}

TypeOK ==
    /\ helper \in Helper /\ policy \in Policy /\ source \in Source /\ file \in Content
    /\ verified \in BOOLEAN /\ canceled \in BOOLEAN /\ pending \in BOOLEAN
    /\ spoilt \in BOOLEAN /\ checked \in BOOLEAN
    /\ restarts \in 0..MaxRestart
    /\ retargeted \in BOOLEAN
    /\ call \in [Worker -> [step : Step, policy : Policy, agreed : BOOLEAN, cut : BOOLEAN,
                           late : BOOLEAN]]

Init ==
    /\ helper \in Helper
    /\ verified = FALSE /\ canceled = FALSE /\ pending = FALSE
    /\ call = [w \in Worker |-> NoCall]
    /\ policy \in Policy
    /\ source \in Source
    /\ file = "none"
    /\ spoilt = FALSE /\ checked = FALSE
    /\ restarts = 0 /\ retargeted = FALSE

-----------------------------------------------------------------------------
(* A call, up to the decision.                                             *)

At(w, step) == call[w].step = step
Becomes(w, step, read, agreed) ==
    call' = [call EXCEPT ![w] = [step |-> step, policy |-> read, agreed |-> agreed,
                                 cut |-> FALSE, late |-> FALSE]]
Goto(w, step) ==
    call' = [call EXCEPT ![w] = [step |-> step, policy |-> call[w].policy,
                                 agreed |-> call[w].agreed, cut |-> FALSE, late |-> call[w].late]]
\* The call answers without the helper: an error, another provider, or unavailable.
Leave(w) == call' = [call EXCEPT ![w] = NoCall]

\* The terminal agent is prepared on the main thread, one at a time; a search reads the
\* policy before all else and scans by itself under Never.
Start(w) ==
    /\ At(w, "idle")
    /\ helper = "agent" => In(Step \ {"idle"}) = {}
    /\ helper = "rg" => policy # "never"
    /\ Becomes(w, "source", IF helper = "rg" THEN policy ELSE call[w].policy, FALSE)
    /\ UNCHANGED <<helper, memory, policy, source, remote, app>>

\* The connection fails, or the host's system and architecture stay unknown.
DoesWithout(w) ==
    /\ At(w, "source")
    /\ Leave(w)
    /\ UNCHANGED <<helper, memory, policy, source, remote, app>>
TargetUnknown(w) == DoesWithout(w)

\* The provider mode wants the host's own commands, or they give every metric.
SystemCommandsSuffice(w) == helper = "monitor" /\ DoesWithout(w)

\* The host has a ripgrep of its own.
RemoteRipgrepAnswers(w) == helper = "rg" /\ DoesWithout(w)

\* The bundled resource, the release of this build, or nothing (no release, no archive).
FindsBytes(w) ==
    /\ At(w, "source")
    /\ \/ source = "bundled" /\ Goto(w, "policy")
       \/ source = "download" /\ Goto(w, "download")
       \/ source = "unavailable" /\ Leave(w)
    /\ UNCHANGED <<helper, memory, policy, source, remote, app>>
FindMonitor(w) == helper = "monitor" /\ FindsBytes(w)
FindRipgrep(w) == helper = "rg" /\ FindsBytes(w)
FindAgent(w) == helper = "agent" /\ FindsBytes(w)

\* The dialog before a download, which may fail as well.  Nothing remembers a refusal.
Downloads(w) ==
    /\ At(w, "download")
    /\ Goto(w, "policy") \/ Leave(w)
    /\ UNCHANGED <<helper, memory, policy, source, remote, app>>
DownloadMonitor(w) == helper = "monitor" /\ Downloads(w)
DownloadRipgrep(w) == helper = "rg" /\ Downloads(w)
DownloadAgent(w) == helper = "agent" /\ Downloads(w)

\* The monitor looks into its memory first and decides afterwards; a search has its policy.
ReadPolicy(w) ==
    /\ At(w, "policy")
    /\ \/ helper = "monitor" /\ Becomes(w, "known", policy, FALSE)
       \/ helper = "rg" /\ Goto(w, "known")
       \/ helper = "agent" /\ policy = "never" /\ Leave(w)
       \/ helper = "agent" /\ policy = "allow" /\ Becomes(w, "truncate", policy, FALSE)
       \/ helper = "agent" /\ policy = "ask" /\ Becomes(w, "asking", policy, FALSE)
    /\ UNCHANGED <<helper, memory, policy, source, remote, app>>

CheckMonitor(w) ==
    /\ helper = "monitor" /\ At(w, "known")
    /\ Goto(w, IF verified THEN "run" ELSE "held")
    /\ UNCHANGED <<helper, memory, policy, source, remote, app>>

CheckRipgrep(w) ==
    /\ helper = "rg" /\ At(w, "known")
    /\ Goto(w, IF call[w].policy = "ask" /\ ~verified THEN "asking" ELSE "again")
    /\ UNCHANGED <<helper, memory, policy, source, remote, app>>

\* Fault: a refusal is not looked up.
OnlyPending == pending

\* has_canceled_prompt, has_pending_prompt, then decide_resource_helper_deployment.
Held == canceled \/ pending
CheckPrompts(w) ==
    /\ At(w, "held")
    /\ IF Held \/ call[w].policy = "never"
       THEN Leave(w)
       ELSE Goto(w, IF call[w].policy = "allow" THEN "truncate" ELSE "record")
    /\ UNCHANGED <<helper, memory, policy, source, remote, app>>

\* record_pending_prompt: the first one asks.
RecordPending(w) ==
    /\ At(w, "record")
    /\ IF pending THEN Leave(w) ELSE Goto(w, "asking")
    /\ pending' = TRUE
    /\ UNCHANGED <<helper, verified, canceled, policy, source, remote, app>>

\* The upload dialog; the prompt is no longer pending while the upload goes on.
Agree(w) ==
    /\ At(w, "asking")
    /\ Becomes(w, IF helper = "rg" THEN "again" ELSE "truncate", call[w].policy, TRUE)
    /\ pending' = (pending /\ helper # "monitor")
    /\ UNCHANGED <<helper, verified, canceled, policy, source, remote, app>>

Refuse(w) ==
    /\ At(w, "asking")
    /\ Leave(w)
    /\ IF helper = "monitor"
       THEN pending' = FALSE /\ canceled' = TRUE
       ELSE UNCHANGED <<helper, pending, canceled>>
    /\ UNCHANGED <<helper, verified, policy, source, remote, app>>

\* deploy_ripgrep_helper_if_needed looks again; by then the hash may be that of another target.
CheckAgain(w) ==
    /\ At(w, "again")
    /\ Goto(w, IF verified THEN "run" ELSE "truncate")
    /\ UNCHANGED <<helper, memory, policy, source, remote, app>>

-----------------------------------------------------------------------------
(* The upload and the run.                                                 *)

Stage(v, step, cut) ==
    [step |-> step, policy |-> call[v].policy, agreed |-> call[v].agreed, cut |-> cut,
     late |-> call[v].late]
Cut(v) == Stage(v, call[v].step, At(v, "fill"))

\* write_sftp_file opens the path with TRUNCATE, also while others write or run it.
Truncate(w) ==
    /\ At(w, "truncate")
    /\ file' = "torn"
    /\ call' = [v \in Worker |-> IF v = w THEN Stage(v, "fill", FALSE) ELSE Cut(v)]
    /\ UNCHANGED <<helper, memory, policy, source, spoilt, checked, app>>

\* The bytes, the manifest and the mode.  What was written before a cut is gone.
Written(w) ==
    IF ~call[w].cut THEN {"whole"}
    ELSE IF file = "torn" THEN {"torn", "whole"} ELSE {file}
Fill(w) ==
    /\ At(w, "fill")
    /\ file' \in Written(w)
    /\ Goto(w, "verify")
    /\ UNCHANGED <<helper, memory, policy, source, spoilt, checked, app>>

\* Fault: the status of the checksum command is ignored.
VerifiedAnyway(w) ==
    /\ At(w, "verify")
    /\ Goto(w, IF helper = "agent" THEN "run" ELSE "note")
    /\ checked' = (checked \/ file = "whole")
    /\ UNCHANGED <<helper, memory, policy, source, file, spoilt, app>>

\* The checksum command runs on the remote host; another call may truncate after it.
Verify(w) ==
    /\ At(w, "verify")
    /\ IF file = "whole"
       THEN /\ Goto(w, IF helper = "agent" THEN "run" ELSE "note")
            /\ spoilt' = FALSE
            /\ checked' = TRUE
       ELSE Leave(w) /\ UNCHANGED <<helper, spoilt, checked>>
    /\ UNCHANGED <<helper, memory, policy, source, file, app>>

\* record_verified
Note(w) ==
    /\ At(w, "note")
    /\ verified' = TRUE
    /\ Goto(w, "run")
    /\ UNCHANGED <<helper, canceled, pending, policy, source, remote, app>>

\* The helper runs and answers, or fails: the memory stays as it is.
Runs(w) ==
    /\ At(w, "run")
    /\ Leave(w)
    /\ UNCHANGED <<helper, memory, policy, source, remote, app>>
CollectFromMonitor(w) == helper = "monitor" /\ Runs(w)
SearchWithRipgrep(w) == helper = "rg" /\ Runs(w)
LaunchAgent(w) == helper = "agent" /\ Runs(w)

\* The connection breaks; half a file may stay.
Breaks(w) ==
    /\ call[w].step \in {"again", "truncate", "fill", "verify", "run"}
    /\ Leave(w)
    /\ spoilt' = (spoilt \/ At(w, "fill"))
    /\ UNCHANGED <<helper, memory, policy, source, file, checked, app>>

-----------------------------------------------------------------------------
SetPolicy(p) ==
    /\ policy' = p
    /\ UNCHANGED <<helper, memory, call, source, remote, app>>

\* Somebody else removes or replaces the remote file.
Outsider(content) ==
    /\ file' = content
    /\ spoilt' = TRUE
    /\ call' = [v \in Worker |-> Cut(v)]
    /\ UNCHANGED <<helper, memory, policy, source, checked, app>>

\* One hash of a host is kept as verified, one as pending and one as refused: a call for
\* another target of the host replaces the one of this target.
Overtaken(v) == [call[v] EXCEPT !.late = @ \/ At(v, "again")]
OtherTarget ==
    /\ \/ /\ helper # "agent"
          /\ verified' = FALSE
          /\ call' = [v \in Worker |-> Overtaken(v)]
          /\ UNCHANGED <<canceled, pending>>
       \/ helper = "monitor" /\ canceled' = FALSE /\ UNCHANGED <<verified, pending, call>>
       \/ helper = "monitor" /\ pending' = FALSE /\ UNCHANGED <<verified, canceled, call>>
    /\ retargeted' = TRUE
    /\ UNCHANGED <<helper, policy, source, remote, restarts>>

\* The app ends, also in the middle of uploads, and starts again.
Restart ==
    /\ restarts < MaxRestart
    /\ restarts' = restarts + 1
    /\ verified' = FALSE /\ canceled' = FALSE /\ pending' = FALSE
    /\ call' = [w \in Worker |-> NoCall]
    /\ spoilt' = FALSE /\ checked' = FALSE /\ retargeted' = FALSE
    /\ UNCHANGED <<helper, policy, source, file>>

Proceed(w) ==
    \/ FindMonitor(w) \/ FindRipgrep(w) \/ FindAgent(w) \/ ReadPolicy(w)
    \/ CheckMonitor(w) \/ CheckPrompts(w) \/ RecordPending(w) \/ CheckRipgrep(w) \/ CheckAgain(w)
    \/ Truncate(w) \/ Fill(w) \/ Verify(w) \/ Note(w)
    \/ CollectFromMonitor(w) \/ SearchWithRipgrep(w) \/ LaunchAgent(w)
Answer(w) ==
    \/ DownloadMonitor(w) \/ DownloadRipgrep(w) \/ DownloadAgent(w)
    \/ Agree(w) \/ Refuse(w)

Next ==
    \/ \E w \in Worker : Start(w) \/ Proceed(w) \/ Answer(w) \/ Breaks(w)
                         \/ TargetUnknown(w) \/ SystemCommandsSuffice(w) \/ RemoteRipgrepAnswers(w)
    \/ \E p \in Policy : SetPolicy(p)
    \/ \E content \in {"none", "other"} : Outsider(content)
    \/ OtherTarget
    \/ Restart

\* Threads go on, and the user answers every dialog.
Fairness == \A w \in Worker : WF_vars(Proceed(w)) /\ WF_vars(Answer(w))
Spec == Init /\ [][Next]_vars /\ Fairness

-----------------------------------------------------------------------------
(* Properties.                                                             *)

\* A call uploads only if the policy it read allows it or its own dialog was agreed to: a
\* search that skipped its dialog because the helper was verified finds it verified again,
\* unless another target's upload replaced the hash in between.
UploadsHaveConsent ==
    \A w \in Worker :
        call[w].step \in {"truncate", "fill", "verify", "note"} =>
            \/ call[w].policy = "allow"
            \/ call[w].policy = "ask" /\ (call[w].agreed \/ call[w].late)

\* The monitor's prompt is pending exactly while one dialog is open: refreshes never open a
\* second one, and a pending mark never outlives its dialog and keeps the monitor waiting
\* (while the host has one target).
PendingIsOneDialog ==
    helper = "monitor" /\ ~retargeted =>
        Cardinality(In({"asking"})) = IF pending THEN 1 ELSE 0

\* What is remembered as verified, or is about to run, had the right hash since the app
\* started, and is still whole unless somebody else changed it, an upload of it broke off, or
\* another call is uploading it again.
VerifiedIsDeployed ==
    verified \/ In({"run"}) # {} =>
        /\ checked
        /\ file = "whole" \/ spoilt \/ In({"fill", "verify"}) # {}

\* Consent, dialogs and what is remembered fit the calls under way.
HelperIsSound == TypeOK /\ UploadsHaveConsent /\ PendingIsOneDialog /\ VerifiedIsDeployed

\* After the user refused, the monitor's upload dialogs end for good, however often the view
\* refreshes (until the app restarts, or another target replaces the refusal).
RefusalEndsDialogs ==
    (canceled /\ restarts = MaxRestart) ~> [](In({"asking"}) = {} \/ retargeted)

=============================================================================
