----------------------------- MODULE Deployment -----------------------------
(***************************************************************************)
(* Deployments by scripts/deploy-wired-admin-umbrel.mjs, and the server    *)
(* process that they replace while clients are connected to it.            *)
(*                                                                         *)
(* A revision is a commit: the package in it has the same number, and so   *)
(* has the image that its job has published.  Of docker-compose.yml the    *)
(* parts are kept that the script changes: the image of the web service,   *)
(* its RELAY_VERSION, the two relay services, and the settings that it     *)
(* overrides; YAML is left out.  The job of a revision, or a rerun of it,  *)
(* may be started when the revision is pushed; jobs run one at a time (the *)
(* runner of the host), in any order, and may be killed at any point.      *)
(* In production the package comes from the app-store checkout, which is   *)
(* brought to the head; on staging from the job's own checkout, which is   *)
(* copied over the one in the app store.  git, umbreld and docker are      *)
(* external.                                                               *)
(***************************************************************************)
EXTENDS RelayGateway

CONSTANTS
  Newest,      \* the last revision
  VersionOf,   \* RELAY_VERSION of each revision's package
  Mismatched,  \* revisions whose manifest has another version
  MaxRuns      \* bound on runs of the script

Revisions == 0..Newest

ASSUME DeploymentAssumption ==
  /\ Newest \in Nat /\ MaxRuns \in Nat
  /\ DOMAIN VersionOf = Revisions /\ Mismatched \subseteq Revisions

VARIABLES
  staging,    \* which of the two workflows the host serves
  origin,     \* the head of the repository
  appStore,   \* the package in the app store's directory
  files,      \* the installed docker-compose.yml and umbrel-app.yml
  backups,    \* pairs of files under backups/
  app,        \* umbreld: its state of the app, and the compose file it runs
  run,        \* the run of the script
  runs        \* runs so far

deployVars == <<staging, origin, appStore, files, backups, app, run, runs>>
vars == <<deployVars, gatewayVars>>

\* A package as it is installed by umbreld; torn holds the files that are
\* written in part.
Packaged(r) ==
  [compose |-> [image |-> r, version |-> VersionOf[r], relays |-> r, settings |-> "own"],
   manifest |-> r, torn |-> {}]

Absent == -1
NoFiles == [compose |-> [image |-> Absent, version |-> "none", relays |-> Absent,
                         settings |-> "none"], manifest |-> Absent, torn |-> {}]
NoRun == [at |-> "none", job |-> 0, dry |-> FALSE, package |-> 0, changed |-> FALSE]

Init ==
  /\ GatewayInit
  /\ staging \in BOOLEAN
  /\ origin = 0 /\ appStore = 0
  /\ IF server.at = "up"
     THEN files = Packaged(0) /\ app = [state |-> "running", started |-> files.compose]
     ELSE files = NoFiles /\ app = [state |-> "not-installed", started |-> NoFiles.compose]
  /\ backups = {} /\ run = NoRun /\ runs = 0

\* Operators named Faulty... are plausible mistakes in the definition that
\* follows them; no other definition uses them.

Push ==
  /\ origin < Newest /\ origin' = origin + 1
  /\ UNCHANGED <<staging, appStore, files, backups, app, run, runs, gatewayVars>>

----------------------------------------------------------------------------
(* main(): the package *)

Active == run.at \notin {"none", "failed", "completed"}
At(stage) == run.at = stage
Goto(stage) == run' = [run EXCEPT !.at = stage]

Start(job, dry) ==
  /\ ~Active /\ runs < MaxRuns /\ runs' = runs + 1
  /\ run' = [NoRun EXCEPT !.at = "fetch", !.job = job, !.dry = dry]
  /\ UNCHANGED <<staging, origin, appStore, files, backups, app, gatewayVars>>

\* fastForwardCheckout.
FastForward ==
  /\ At("fetch") /\ ~staging
  /\ appStore' = origin
  /\ Goto("read")
  /\ UNCHANGED <<staging, origin, files, backups, app, runs, gatewayVars>>

\* syncPackageToAppStore: the old package is removed, the new one copied.
RemovePackage ==
  /\ At("fetch") /\ staging
  /\ IF run.dry THEN Goto("read") /\ UNCHANGED appStore
                ELSE Goto("copy") /\ appStore' = Absent
  /\ UNCHANGED <<staging, origin, files, backups, app, runs, gatewayVars>>
CopyPackage ==
  /\ At("copy") /\ appStore' = run.job /\ Goto("read")
  /\ UNCHANGED <<staging, origin, files, backups, app, runs, gatewayVars>>

\* The target is read from the package.  Versions that do not match end the
\* run, except on staging (WIRED_ADMIN_ALLOW_VERSION_MISMATCH).
ReadPackage ==
  /\ At("read")
  /\ LET p == IF staging THEN run.job ELSE appStore IN
     run' = [run EXCEPT !.package = p,
                        !.at = IF p \in Mismatched /\ ~staging THEN "failed" ELSE "install"]
  /\ UNCHANGED <<staging, origin, appStore, files, backups, app, runs, gatewayVars>>

\* ensureAppInstalled: a dry run ends where it would install.
EnsureInstalled ==
  /\ At("install")
  /\ IF app.state # "not-installed" THEN Goto("update") /\ UNCHANGED <<files, app>>
     ELSE IF run.dry THEN Goto("completed") /\ UNCHANGED <<files, app>>
     ELSE /\ appStore # Absent
          /\ files' = Packaged(appStore) /\ app' = [app EXCEPT !.state = "restarting"]
          /\ Goto("update")
  /\ UNCHANGED <<staging, origin, appStore, backups, runs, gatewayVars>>

----------------------------------------------------------------------------
(* main(): the installed files *)

\* updateInstalledCompose, and the manifest of the package.
Target == [image |-> run.job, version |-> VersionOf[run.package],
           relays |-> run.package, settings |-> "set"]
Updated == [compose |-> Target, manifest |-> run.package, torn |-> {}]

\* backupInstalledFiles, before anything is written.
FaultyBackup == backups' = backups
Backup == backups' = backups \cup {files}
Prepare ==
  /\ At("update")
  /\ IF run.dry THEN Goto("completed") /\ UNCHANGED backups
     ELSE /\ Backup
          /\ run' = [run EXCEPT !.changed = Target # files.compose,
                       !.at = IF Target # files.compose THEN "compose" ELSE "manifest"]
  /\ UNCHANGED <<staging, origin, appStore, files, app, runs, gatewayVars>>

\* writeFileAtomic: the content goes to a temporary file, which replaces the
\* old one.
FaultyWriteContent(name) == files' = [files EXCEPT !.torn = @ \cup {name}]
WriteContent(name) == files' = files
Write(name, then) ==
  /\ WriteContent(name) /\ Goto(then)
  /\ UNCHANGED <<staging, origin, appStore, backups, app, runs, gatewayVars>>
Rename(name, then) ==
  /\ files' = [files EXCEPT ![name] = Updated[name], !.torn = @ \ {name}] /\ Goto(then)
  /\ UNCHANGED <<staging, origin, appStore, backups, app, runs, gatewayVars>>

WriteCompose == At("compose") /\ Write("compose", "rename compose")
RenameCompose == At("rename compose") /\ Rename("compose", "manifest")
WriteManifest == At("manifest") /\ Write("manifest", "rename manifest")
RenameManifest == At("rename manifest") /\ Rename("manifest", "restart")

----------------------------------------------------------------------------
(* main(): the restart and its checks *)

\* restartApp, whether or not the files have changed.
FaultyMustRestart == run.changed
MustRestart == TRUE
RestartApp ==
  /\ At("restart")
  /\ app' = IF MustRestart THEN [app EXCEPT !.state = "restarting"] ELSE app
  /\ Goto("ready")
  /\ UNCHANGED <<staging, origin, appStore, files, backups, runs, gatewayVars>>

\* pollAppReady.
Ready ==
  /\ At("ready") /\ app.state = "running" /\ Goto("smoke")
  /\ UNCHANGED <<staging, origin, appStore, files, backups, app, runs, gatewayVars>>

\* pollLocalStatus: a server answers, and reports the version.  The public
\* checks that follow change nothing.
Smoke ==
  /\ At("smoke") /\ server.at = "up" /\ app.started.version = Target.version
  /\ Goto("completed")
  /\ UNCHANGED <<staging, origin, appStore, files, backups, app, runs, gatewayVars>>

\* A command fails, a poll's time is over, or the job is killed.
Fails ==
  /\ Active /\ Goto("failed")
  /\ UNCHANGED <<staging, origin, appStore, files, backups, app, runs, gatewayVars>>

Proceed ==
  \/ FastForward \/ RemovePackage \/ CopyPackage \/ ReadPackage \/ EnsureInstalled
  \/ Prepare \/ WriteCompose \/ RenameCompose \/ WriteManifest \/ RenameManifest
  \/ RestartApp \/ Ready \/ Smoke

----------------------------------------------------------------------------
(* The app *)

\* docker stops the container with a signal and, when the process has ended,
\* starts one from the installed files.
StopApp == app.state = "restarting" /\ BeginShutdown /\ UNCHANGED deployVars
StartApp ==
  /\ app.state = "restarting" /\ server.at = "exited"
  /\ app' = [state |-> "running", started |-> files.compose]
  /\ Started
  /\ UNCHANGED <<staging, origin, appStore, files, backups, run, runs>>

Next ==
  \/ Push \/ (\E job \in 1..origin, dry \in BOOLEAN : Start(job, dry))
  \/ Proceed \/ Fails
  \/ StopApp \/ StartApp
  \/ (GatewayNext \/ ShutdownNext) /\ UNCHANGED deployVars

Spec == Init /\ [][Next]_vars

\* Docker acts on a restart; the server's timers and sockets are as in
\* RelayGateway.  Neither clients, nor requests, nor the script need to end.
Fairness ==
  /\ WF_vars(StopApp \/ StartApp)
  /\ WF_vars((ShutdownNext \/ Closing) /\ UNCHANGED deployVars)
FairSpec == Spec /\ Fairness

----------------------------------------------------------------------------
(* Properties *)

\* The parts stay within their sets, and the gateway counts the connections it
\* has; the installed files are whole at every
\* point, also where a run is killed.
DeploymentTypeOK ==
  /\ GatewayTypeOK /\ ConnectionsAreCounted /\ files.torn = {}
  /\ appStore \in Revisions \cup {Absent} /\ origin \in Revisions
  /\ app.state \in {"not-installed", "running", "restarting"}
  /\ run.job \in Revisions /\ run.package \in Revisions /\ runs <= MaxRuns

\* Whatever point a run is killed at, what the app was last started from is
\* installed or in a backup: a failed deployment, and a rerun after it, can be
\* undone.
StartedIsRestorable ==
  app.started \in {f.compose : f \in backups \cup {files, NoFiles}}

\* A run that reports "Deploy completed." is one whose image is being served,
\* by a process started from the files the run has left, also when an earlier
\* run of the same job wrote them and was killed before its restart, and the
\* version that is compared did not change.
CompletedIsServed ==
  [][~run.dry /\ ~At("completed") /\ run'.at = "completed" =>
       /\ app.started = files.compose /\ files = Updated
       /\ app.started.image = run.job]_vars

\* A restart brings the app up again, whatever the clients of the old process
\* and the requests it has not answered do.
RestartCompletes == app.state = "restarting" ~> app.state = "running"

\* A restart ends, and a deployment is completed only by one that served it.
RestartsServe == CompletedIsServed /\ RestartCompletes
=============================================================================
