-------------------------- MODULE ServiceLifecycle --------------------------
(***************************************************************************)
(* The daemon as the operating system sees it: the `daemon` commands       *)
(* (internal/cli/daemon.go), the service manager they drive through        *)
(* kardianos/service, the supervised process (runDaemonRun) and the        *)
(* Program inside it (internal/service/runner.go).                         *)
(*                                                                         *)
(* The client the Program runs is not described again: it takes the steps  *)
(* of ClientContract, which WSClient implements.  The commands appear once *)
(* requireAdmin has let them through.                                      *)
(***************************************************************************)
VARIABLES
  unit,       \* the service is registered with the manager
  wanted,     \* the manager keeps the process running
  order,      \* the command the manager is carrying out
  asked,      \* a stop signal is on its way to the process
  refused,    \* history: the manager failed to stop the process
  proc,       \* the process: runDaemonRun
  work,       \* the goroutine of Program.run
  exitErr,    \* Program.exitErr
  exitCode,   \* how the last process ended
  meta,       \* agent.json
  phase, ctxDone, token, answer,  \* the client and the token file
  wired, hookStops                \* what run hands to the client

service == <<unit, wanted, order, asked, refused>>
program == <<work, exitErr>>
client  == <<phase, ctxDone, token, answer, wired, hookStops>>
vars    == <<service, proc, program, exitCode, meta, client>>

Rejections == {"revoked", "invalid"}
Refusals   == {"suspended", "insecure"}
Startup    == {"config", "run", "load"}     \* errors before the client exists

Client == INSTANCE ClientContract WITH
  Rejected <- Rejections,
  Refused  <- Refusals,
  stopped  <- ctxDone

Init ==
  /\ unit = FALSE /\ wanted = FALSE /\ order = "none" /\ asked = FALSE /\ refused = FALSE
  /\ proc = "none" /\ work = "none" /\ exitErr = "nil" /\ exitCode = "none"
  /\ \E f \in {"present", "absent"} : token = f /\ meta = f
  /\ phase = "idle" /\ ctxDone = FALSE /\ answer = "none"
  /\ wired = TRUE /\ hookStops = FALSE    \* a TokenStore, and no OnServerHello

-----------------------------------------------------------------------------
(* The commands.  install, uninstall, start, stop and restart run one at a *)
(* time; stop, restart and uninstall wait for the process to be gone.      *)

Install ==
  /\ order = "none" /\ ~unit
  /\ unit' = TRUE
  /\ UNCHANGED <<wanted, order, asked, refused, proc, program, exitCode, meta, client>>

\* Starting a service that is running changes nothing.
StartCommand ==
  /\ order = "none" /\ unit
  /\ wanted' = TRUE
  /\ proc' = IF proc = "none" THEN "boot" ELSE proc
  /\ UNCHANGED <<unit, order, asked, refused, program, exitCode, meta, client>>

\* Regression: uninstall forgets the stop.
UninstallUnstopped ==
  /\ order = "none" /\ unit
  /\ unit' = FALSE
  /\ wanted' = FALSE
  /\ UNCHANGED <<order, asked, refused, proc, program, exitCode, meta, client>>

StopFirst(command) ==
  /\ order = "none" /\ unit
  /\ order' = command
  /\ wanted' = (command = "restart")
  /\ asked' = (proc # "none")
  /\ UNCHANGED <<unit, refused, proc, program, exitCode, meta, client>>

UninstallCommand == StopFirst("uninstall")

ControlCommand == StopFirst("stop") \/ StopFirst("restart")

\* The process is gone: the rest of the command.
CommandCompletes ==
  /\ order # "none" /\ proc = "none"
  /\ order' = "none"
  /\ proc' = IF order = "restart" THEN "boot" ELSE "none"
  /\ unit' = (unit /\ order # "uninstall")
  /\ UNCHANGED <<wanted, asked, refused, program, exitCode, meta, client>>

\* s.Stop fails.  stop and restart report it, uninstall goes on regardless.
StopFails ==
  /\ order # "none" /\ asked
  /\ order' = "none"
  /\ asked' = FALSE
  /\ refused' = TRUE
  /\ unit' = (unit /\ order # "uninstall")
  /\ UNCHANGED <<wanted, proc, program, exitCode, meta, client>>

\* The manager's policy: after a failure, a kill or a reboot.
ManagerRestarts ==
  /\ unit /\ wanted /\ order = "none" /\ proc = "none"
  /\ proc' = "boot"
  /\ UNCHANGED <<service, program, exitCode, meta, client>>

-----------------------------------------------------------------------------
(* The process. *)

Exits(code) ==
  /\ proc' = "none"
  /\ work' = "none"
  /\ asked' = FALSE
  /\ exitCode' = code
  /\ UNCHANGED <<unit, wanted, order, refused, meta, client>>

\* newServiceProgram: no configuration directory.
BootFails ==
  /\ proc = "boot"
  /\ exitErr' = "config"
  /\ Exits("error")

\* service.New, or s.Run before it calls Program.Start.  Start and Stop return no
\* error that s.Run could hand on.
RunFails ==
  /\ proc = "boot"
  /\ exitErr' = "run"
  /\ Exits("error")

\* s.Run calls Program.Start, which leaves the work to a goroutine.
Start ==
  /\ proc = "boot"
  /\ proc' = "up"
  /\ work' = "load"
  /\ exitErr' = "nil"
  /\ phase' = "idle" /\ ctxDone' = FALSE /\ answer' = "none"
  /\ UNCHANGED <<service, exitCode, meta, token, wired, hookStops>>

\* Regression: Program.Stop waits without cancelling.
StopUncancelled ==
  /\ proc = "up" /\ asked
  /\ proc' = "stopping"
  /\ UNCHANGED <<service, program, exitCode, meta, client>>

\* s.Run takes the signal and calls Program.Stop, which cancels the context.
Stop ==
  /\ proc = "up" /\ asked
  /\ proc' = "stopping"
  /\ ctxDone' = TRUE
  /\ UNCHANGED <<service, program, exitCode, meta, phase, token, answer, wired, hookStops>>

\* Regression: Stop does not wait for the goroutine.
StopUnawaited ==
  /\ proc = "stopping"
  /\ UNCHANGED exitErr
  /\ Exits(IF exitErr = "nil" THEN "ok" ELSE "error")

\* wg.Wait is over; runDaemonRun returns ExitError.
StopReturns ==
  /\ proc = "stopping" /\ work = "over"
  /\ UNCHANGED exitErr
  /\ Exits(IF exitErr = "nil" THEN "ok" ELSE "error")

\* A signal before s.Run listens, a stop that takes too long, a crash.
Dies ==
  /\ proc # "none"
  /\ UNCHANGED exitErr
  /\ Exits("killed")

-----------------------------------------------------------------------------
(* Program.run. *)

RunFrame == <<service, proc, exitCode>>

LoadFails ==
  /\ work = "load"
  /\ work' = "over"
  /\ exitErr' = "load"
  /\ UNCHANGED <<RunFrame, meta, client>>

\* Regression: a machine without an agent ends the process, with an error.
LoadNothingExits ==
  /\ work = "load"
  /\ token = "absent" \/ meta = "absent"
  /\ exitErr' = "load"
  /\ Exits("error")

\* No agent enrolled: logged, and not an error.
LoadNothing ==
  /\ work = "load"
  /\ token = "absent" \/ meta = "absent"
  /\ work' = "over"
  /\ UNCHANGED <<RunFrame, exitErr, meta, client>>

LoadIdentity ==
  /\ work = "load"
  /\ token = "present" /\ meta = "present"
  /\ work' = "client"
  /\ UNCHANGED <<RunFrame, exitErr, meta, client>>

\* WSClient.Run until it returns.
ClientRuns ==
  /\ work = "client"
  /\ \/ Client!Try
     \/ Client!GoLive
     \/ Client!GiveUp
     \/ Client!EndStopped
     \/ Client!EndRejected
     \/ Client!EndRefused
  /\ UNCHANGED <<RunFrame, program, meta>>

\* Regression: run does not wait for the client to return.
ClientAbandoned ==
  /\ work = "client"
  /\ answer \notin Rejections
  /\ work' = "over"
  /\ exitErr' = IF answer = "nil" THEN exitErr ELSE answer
  /\ UNCHANGED <<RunFrame, meta, client>>

\* Regression: run expects nil or a rejection from the client, and nothing else.
ClientStoppedByNil ==
  /\ work = "client" /\ phase = "ended"
  /\ answer = "nil"
  /\ work' = "over"
  /\ UNCHANGED <<RunFrame, exitErr, meta, client>>

\* Stopped, suspended or refused: the files stay.
ClientStopped ==
  /\ work = "client" /\ phase = "ended"
  /\ answer \notin Rejections
  /\ work' = "over"
  /\ exitErr' = IF answer = "nil" THEN exitErr ELSE answer
  /\ UNCHANGED <<RunFrame, meta, client>>

\* Regression: the client's rejection is logged and not recorded.
RejectionUnrecorded ==
  /\ work = "client" /\ phase = "ended"
  /\ answer \in Rejections
  /\ work' = "over"
  /\ meta' \in {"absent", meta}
  /\ UNCHANGED <<RunFrame, exitErr, client>>

\* DeleteMetadata, whose error is dropped, then setExitErr.
ClientRejected ==
  /\ work = "client" /\ phase = "ended"
  /\ answer \in Rejections
  /\ work' = "over"
  /\ meta' \in {"absent", meta}
  /\ exitErr' = answer
  /\ UNCHANGED <<RunFrame, client>>

-----------------------------------------------------------------------------
(* `login` and `logout`, step by step in Enrollment. *)

IdentityChanges ==
  /\ \E f \in {"present", "absent"} : token' = f /\ meta' = f
  /\ UNCHANGED <<service, proc, program, exitCode, phase, ctxDone, answer, wired, hookStops>>

Command == Install \/ StartCommand \/ UninstallCommand \/ ControlCommand

Manager == CommandCompletes \/ StopFails \/ ManagerRestarts

Process == BootFails \/ RunFails \/ Start \/ Stop \/ StopReturns \/ Dies

Run ==
  \/ LoadFails
  \/ LoadNothing
  \/ LoadIdentity
  \/ ClientRuns
  \/ ClientStopped
  \/ ClientRejected

Next == Command \/ Manager \/ Process \/ Run \/ IdentityChanges

Spec == Init /\ [][Next]_vars

\* A session in order may last forever; what else the goroutine does has an end,
\* as Lively of ClientContract promises for the client.
GoesOn == (phase # "live" \/ ctxDone) /\ Run

\* The goroutine goes on, a process boots, a signal is taken, Stop returns when it
\* can, and so does the manager's command.  No command has to be given, and nobody
\* has to be killed.
Fairness ==
  /\ WF_vars(GoesOn)
  /\ WF_vars(BootFails \/ Start)
  /\ WF_vars(Stop)
  /\ WF_vars(StopReturns)
  /\ WF_vars(CommandCompletes)

FairSpec == Spec /\ Fairness

-----------------------------------------------------------------------------
(* Properties *)

Switches ==
  /\ unit \in BOOLEAN /\ wanted \in BOOLEAN /\ asked \in BOOLEAN /\ refused \in BOOLEAN
  /\ ctxDone \in BOOLEAN

\* The service, its process and its goroutine are in one of their states.
TypeOK ==
  /\ Switches
  /\ order \in {"none", "stop", "restart", "uninstall"}
  /\ proc \in {"none", "boot", "up", "stopping"}
  /\ work \in {"none", "load", "client", "over"}
  /\ exitErr \in {"nil"} \cup Startup \cup Rejections \cup Refusals
  /\ exitCode \in {"none", "ok", "error", "killed"}
  /\ meta \in {"present", "absent"} /\ token \in {"present", "absent"}
  /\ phase \in {"idle", "trying", "live", "ended"}
  /\ answer \in {"none", "nil"} \cup Rejections \cup Refusals
  /\ wired = TRUE /\ hookStops = FALSE

\* The exit code of a process that ended by itself tells the manager's restart
\* policy the truth: it is an error exactly if the client was turned away or
\* never came to be, whatever raced with the stop (daemon.go:295-298).  That goes
\* for a revoked token too (runner.go:206, daemon.go:302), for which
\* ws_client.go:91 announces "purge token file + exit 0".
ExitCodeHonest ==
  proc = "none" /\ exitCode \in {"ok", "error"} =>
    (exitCode = "error" <=> exitErr \in Startup \/ answer \in Rejections \cup Refusals)

\* A process that leaves by Stop leaves no session and no purge half done: the
\* client has returned, and what it returned has been dealt with.
StopIsComplete ==
  [][ proc = "stopping" /\ proc' = "none" /\ exitCode' # "killed"
      => /\ phase \in {"idle", "ended"}
         /\ work # "client"
         /\ answer \in Rejections => exitErr = answer ]_vars

\* The client only runs in a process the manager knows of, unless stopping it
\* failed: `daemon uninstall` leaves no daemon behind.
NoUnmanagedProcess == proc # "none" => unit \/ refused

\* The manager never restarts a daemon because nobody is enrolled or the server
\* turned it away (runner.go:130-134): while it wants the service up, only a
\* kill, a missing configuration directory, a service that cannot run or a stop it
\* lost track of leaves it without a process.
NoHotRestart ==
  unit /\ wanted /\ order = "none" /\ proc = "none" =>
    exitCode = "killed" \/ exitErr \in {"config", "run"} \/ refused

\* Nobody waits for nobody: but for a session in order, the goroutine can go on
\* wherever it is and whatever the client answers; once it is over nothing holds
\* Stop back, and once the process is gone nothing holds the command.
NeverStuck ==
  /\ work \in {"load", "client"} /\ (phase # "live" \/ ctxDone) => ENABLED <<GoesOn>>_vars
  /\ proc = "boot" => ENABLED <<BootFails \/ Start>>_vars
  /\ proc = "up" /\ asked => ENABLED <<Stop>>_vars
  /\ proc = "stopping" /\ work = "over" => ENABLED <<StopReturns>>_vars
  /\ proc = "none" /\ order # "none" => ENABLED <<CommandCompletes>>_vars

\* Program.Stop returns: the client of a stopping process always ends.
StopEnds == proc = "stopping" ~> proc = "none"

\* `daemon stop`, `restart` and `uninstall` come to an end, wherever they find
\* the process and whatever its client is doing.
OrdersEnd == order # "none" ~> order = "none"

\* What is told to stop stops, and who told it to hears of it.
StopsAndOrdersEnd == StopEnds /\ OrdersEnd
=============================================================================
