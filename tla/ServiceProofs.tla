--------------------------- MODULE ServiceProofs ----------------------------
(***************************************************************************)
(* What holds of ServiceLifecycle for every run of the service, however    *)
(* many commands, restarts and processes it lives through.                 *)
(***************************************************************************)
EXTENDS ServiceLifecycle, TLAPS

\* A process has a goroutine exactly while s.Run is between Start and Stop; the
\* goroutine has recorded an error exactly if the client ended with one or was
\* never built; and a session exists only under a goroutine in the client.
Books ==
  /\ order # "none" => unit
  /\ work # "none" <=> proc \in {"up", "stopping"}
  /\ work \in {"load", "client"} => exitErr = "nil"
  /\ work = "load" => phase = "idle" /\ answer = "none"
  /\ work # "none" => (phase = "ended" <=> answer # "none")
  /\ work = "over" =>
       /\ phase \in {"idle", "ended"}
       /\ exitErr \in Startup => answer = "none"
       /\ exitErr \notin Startup /\ answer \in {"none", "nil"} => exitErr = "nil"
       /\ answer \in Rejections \cup Refusals => exitErr = answer

\* A process is stopped under a command that has not completed, or under one
\* the manager gave up; a completed stop or uninstall leaves it unwanted.
Orders ==
  /\ asked \/ proc = "stopping" => order # "none" \/ refused
  /\ order \in {"stop", "uninstall"} => ~wanted
  /\ wanted => unit
  /\ asked => proc # "none"

IInv == TypeOK /\ Books /\ Orders /\ ExitCodeHonest /\ NoUnmanagedProcess /\ NoHotRestart

LEMMA InvInit == Init => IInv
<1>1. Init => Switches
  BY Zenon DEF Init, Switches
<1> QED
  BY <1>1, SMT DEF Init, IInv, TypeOK, Books, Orders, NoHotRestart, ExitCodeHonest, NoUnmanagedProcess, Rejections, Refusals, Startup

\* The switches stay switches.
LEMMA SwitchStep == Switches /\ Next => Switches'
<1> SUFFICES ASSUME Switches, Next PROVE Switches'
  OBVIOUS
<1> USE DEF Switches, service, program, client
<1>1. CASE Command
  BY <1>1, Zenon DEF Command, Install, StartCommand, UninstallCommand, ControlCommand, StopFirst
<1>2. CASE Manager
  BY <1>2, Zenon DEF Manager, CommandCompletes, StopFails, ManagerRestarts
<1>3. CASE Process
  BY <1>3, Zenon DEF Process, BootFails, RunFails, Start, Stop, StopReturns, Dies, Exits
<1>4. CASE ClientRuns
  BY <1>4, Zenon DEF ClientRuns, Client!Try, Client!GoLive, Client!GiveUp, Client!EndStopped, Client!EndRejected, Client!EndRefused, RunFrame
<1>5. CASE Run /\ ~ClientRuns
  BY <1>5, Zenon DEF Run, LoadFails, LoadNothing, LoadIdentity, ClientStopped, ClientRejected, RunFrame
<1>6. CASE IdentityChanges
  BY <1>6, Zenon DEF IdentityChanges
<1> QED
  BY <1>1, <1>2, <1>3, <1>4, <1>5, <1>6 DEF Next

\* The commands and the manager move the registration and start processes.
LEMMA ManagementStep == IInv /\ Switches' /\ (Command \/ Manager) => IInv'
<1> SUFFICES ASSUME IInv, Switches', Command \/ Manager PROVE IInv'
  OBVIOUS
<1> USE DEF IInv, TypeOK, Books, Orders, NoHotRestart, ExitCodeHonest, NoUnmanagedProcess, program, client
<1>1. CASE Install
  BY <1>1, SMT DEF Install
<1>2. CASE StartCommand
  BY <1>2, SMT DEF StartCommand
<1>s. ASSUME NEW c \in {"stop", "uninstall"}, StopFirst(c) PROVE IInv'
  <2>1. ~wanted' /\ order' = c /\ unit /\ (asked' => proc # "none")
    BY <1>s, Zenon DEF StopFirst
  <2>2. UNCHANGED <<unit, refused, proc, work, exitErr, exitCode, meta, client>>
    BY <1>s, SMT DEF StopFirst
  <2> QED
    BY <1>s, <2>1, <2>2, SMT
<1>3. CASE UninstallCommand
  BY <1>3, <1>s DEF UninstallCommand
<1>4. CASE ControlCommand
  <2>1. CASE StopFirst("stop")
    BY <2>1, <1>s
  <2>2. CASE StopFirst("restart")
    <3>1. (wanted' => unit) /\ order' = "restart" /\ unit /\ (asked' => proc # "none")
      BY <2>2, Zenon DEF StopFirst
    <3>2. UNCHANGED <<unit, refused, proc, work, exitErr, exitCode, meta, client>>
      BY <2>2, SMT DEF StopFirst
    <3> QED
      BY <2>2, <3>1, <3>2, SMT
  <2> QED
    BY <1>4, <2>1, <2>2 DEF ControlCommand
<1>5. CASE CommandCompletes
  <2>1. proc' # "none" => unit'
    BY <1>5, Zenon DEF CommandCompletes
  <2>2. /\ order' = "none" /\ proc' \in {"none", "boot"}
        /\ proc = "none"
        /\ UNCHANGED <<asked, refused, work, exitErr, exitCode, meta, client>>
    BY <1>5, SMT DEF CommandCompletes
  <2>3. wanted' => proc' = "boot" /\ unit'
    BY <1>5, Zenon DEF CommandCompletes
  <2> QED
    BY <2>1, <2>2, <2>3, SMT
<1>6. CASE StopFails
  <2>1. (wanted' => unit') /\ ~asked' /\ refused'
    BY <1>6, Zenon DEF StopFails
  <2>2. order' = "none" /\ UNCHANGED <<proc, work, exitErr, exitCode, meta, client>>
    BY <1>6, SMT DEF StopFails
  <2> QED
    BY <2>1, <2>2, SMT
<1>7. CASE ManagerRestarts
  BY <1>7, SMT DEF ManagerRestarts, service
<1> QED
  BY <1>1, <1>2, <1>3, <1>4, <1>5, <1>6, <1>7 DEF Command, Manager

\* The process begins, is stopped, and ends.
LEMMA ProcessStep == IInv /\ Switches' /\ Process => IInv'
<1> SUFFICES ASSUME IInv, Switches', Process PROVE IInv'
  OBVIOUS
<1> USE DEF IInv, TypeOK, Books, Orders, NoHotRestart, ExitCodeHonest, NoUnmanagedProcess, client, Startup, Rejections, Refusals
<1>1. CASE BootFails
  BY <1>1, SMT DEF BootFails, Exits
<1>2. CASE RunFails
  BY <1>2, SMT DEF RunFails, Exits
<1>3. CASE Start
  BY <1>3, SMT DEF Start, service
<1>4. CASE Stop
  BY <1>4, SMT DEF Stop, service, program
<1>5. CASE StopReturns
  BY <1>5, SMT DEF StopReturns, Exits
<1>6. CASE Dies
  BY <1>6, SMT DEF Dies, Exits
<1> QED
  BY <1>1, <1>2, <1>3, <1>4, <1>5, <1>6 DEF Process

\* The client takes a step of its contract.
LEMMA ClientStep == IInv /\ Switches' /\ ClientRuns => IInv'
<1> SUFFICES ASSUME IInv, Switches', ClientRuns PROVE IInv'
  OBVIOUS
<1> USE DEF IInv, TypeOK, Books, Orders, NoHotRestart, ExitCodeHonest, NoUnmanagedProcess, RunFrame, service, program,
            Startup, Rejections, Refusals
<1>1. CASE Client!Try
  BY <1>1, SMT DEF ClientRuns, Client!Try
<1>2. CASE Client!GoLive
  BY <1>2, SMT DEF ClientRuns, Client!GoLive
<1>3. CASE Client!GiveUp
  BY <1>3, SMT DEF ClientRuns, Client!GiveUp
<1>4. CASE Client!EndStopped
  BY <1>4, SMT DEF ClientRuns, Client!EndStopped, Client!Ends
<1>5. CASE Client!EndRejected
  BY <1>5, SMT DEF ClientRuns, Client!EndRejected, Client!Ends
<1>6. CASE Client!EndRefused
  BY <1>6, SMT DEF ClientRuns, Client!EndRefused, Client!Ends
<1> QED
  BY <1>1, <1>2, <1>3, <1>4, <1>5, <1>6 DEF ClientRuns

\* The goroutine loads the identity and deals with what the client returned.
LEMMA RunStep == IInv /\ Switches' /\ Run => IInv'
<1> SUFFICES ASSUME IInv, Switches', Run PROVE IInv'
  OBVIOUS
<1> USE DEF IInv, TypeOK, Books, Orders, NoHotRestart, ExitCodeHonest, NoUnmanagedProcess, RunFrame, service, client,
            Startup, Rejections, Refusals
<1>1. CASE LoadFails
  BY <1>1, SMT DEF LoadFails
<1>2. CASE LoadNothing
  BY <1>2, SMT DEF LoadNothing
<1>3. CASE LoadIdentity
  BY <1>3, SMT DEF LoadIdentity
<1>4. CASE ClientRuns
  BY <1>4, ClientStep
<1>5. CASE ClientStopped
  BY <1>5, SMT DEF ClientStopped
<1>6. CASE ClientRejected
  BY <1>6, SMT DEF ClientRejected
<1> QED
  BY <1>1, <1>2, <1>3, <1>4, <1>5, <1>6 DEF Run

LEMMA InvNext == IInv /\ [Next]_vars => IInv'
<1> SUFFICES ASSUME IInv, [Next]_vars PROVE IInv'
  OBVIOUS
<1>0. CASE UNCHANGED vars
  <2>1. Switches'
    BY <1>0, Zenon DEF IInv, TypeOK, Switches, vars, service, client
  <2> QED
    BY <1>0, <2>1, SMT DEF IInv, TypeOK, Books, Orders, NoHotRestart, ExitCodeHonest, NoUnmanagedProcess, vars, service, program, client
<1> SUFFICES ASSUME Next PROVE IInv'
  BY <1>0
<1>a. Switches'
  BY SwitchStep DEF IInv, TypeOK
<1>1. CASE IdentityChanges
  BY <1>1, <1>a, SMT DEF IInv, TypeOK, Books, Orders, NoHotRestart, ExitCodeHonest, NoUnmanagedProcess, IdentityChanges, service, program
<1> QED
  BY <1>a, <1>1, ManagementStep, ProcessStep, RunStep DEF Next

\* The strengthened invariant holds throughout.
LEMMA InvHolds == Spec => []IInv
<1>1. Init => IInv
  BY InvInit
<1>2. IInv /\ [Next]_vars => IInv'
  BY InvNext
<1> QED
  BY <1>1, <1>2, PTL DEF Spec

\* Every variable keeps its type through installs, restarts, stops and deaths.
THEOREM TypeCorrect == Spec => []TypeOK
<1>1. IInv => TypeOK
  BY DEF IInv
<1> QED
  BY <1>1, InvHolds, PTL

\* The exit code of a process that ended by itself says whether its client was
\* turned away, however the verdict and the stop signal raced.
THEOREM ExitCodesAreHonest == Spec => []ExitCodeHonest
<1>1. IInv => ExitCodeHonest
  BY DEF IInv
<1> QED
  BY <1>1, InvHolds, PTL

\* No daemon runs that the manager does not know of, unless stopping it failed.
THEOREM NoOrphanProcess == Spec => []NoUnmanagedProcess
<1>1. IInv => NoUnmanagedProcess
  BY DEF IInv
<1> QED
  BY <1>1, InvHolds, PTL

\* Only a kill, a missing directory, a service that cannot run or a stop the manager
\* lost track of makes it start the daemon again by itself.
THEOREM NoRestartLoop == Spec => []NoHotRestart
<1>1. IInv => NoHotRestart
  BY DEF IInv
<1> QED
  BY <1>1, InvHolds, PTL

\* Stop never cuts a session or a purge short.
THEOREM StopsAreComplete == Spec => StopIsComplete
<1> DEFINE Complete == proc = "stopping" /\ proc' = "none" /\ exitCode' # "killed"
                       => /\ phase \in {"idle", "ended"}
                          /\ work # "client"
                          /\ answer \in Rejections => exitErr = answer
<1>1. IInv /\ [Next]_vars => [Complete]_vars
  <2> SUFFICES ASSUME IInv, Next, proc = "stopping", proc' = "none", exitCode' # "killed"
               PROVE  Complete
    OBVIOUS
  <2>1. StopReturns
    <3>1. ~Command /\ ~Manager /\ ~IdentityChanges
      BY SMT DEF Command, Manager, Install, StartCommand, UninstallCommand, ControlCommand, StopFirst,
                 CommandCompletes, StopFails, ManagerRestarts, IdentityChanges
    <3>2. ~Run
      BY SMT DEF Run, LoadFails, LoadNothing, LoadIdentity, ClientRuns, ClientStopped, ClientRejected, RunFrame
    <3>3. ~BootFails /\ ~RunFails /\ ~Start /\ ~Stop /\ ~Dies
      BY SMT DEF BootFails, RunFails, Start, Stop, Dies, Exits
    <3> QED
      BY <3>1, <3>2, <3>3 DEF Next, Process
  <2> QED
    BY <2>1, SMT DEF StopReturns, IInv, Books, Rejections, Refusals
<1> QED
  BY <1>1, InvHolds, PTL DEF Spec, StopIsComplete

-----------------------------------------------------------------------------
(* Stopping ends. *)

\* A stopped program has told its client so.
StopTold == proc = "stopping" => ctxDone

LEMMA StopToldHolds == Spec => []StopTold
<1>1. Init => StopTold
  BY SMT DEF Init, StopTold
<1>2. StopTold /\ [Next]_vars => StopTold'
  <2> SUFFICES ASSUME StopTold, [Next]_vars PROVE StopTold'
    OBVIOUS
  <2> USE DEF StopTold, service, program, client
  <2>1. CASE UNCHANGED vars
    BY <2>1, SMT DEF vars
  <2>2. CASE Command
    BY <2>2, SMT DEF Command, Install, StartCommand, UninstallCommand, ControlCommand, StopFirst
  <2>3. CASE Manager
    BY <2>3, SMT DEF Manager, CommandCompletes, StopFails, ManagerRestarts
  <2>4. CASE Process
    BY <2>4, SMT DEF Process, BootFails, RunFails, Start, Stop, StopReturns, Dies, Exits
  <2>5. CASE ClientRuns
    BY <2>5, Zenon DEF ClientRuns, RunFrame, Client!Try, Client!GoLive, Client!GiveUp, Client!EndStopped, Client!EndRejected, Client!EndRefused
  <2>6. CASE Run /\ ~ClientRuns
    BY <2>6, SMT DEF Run, LoadFails, LoadNothing, LoadIdentity, ClientStopped, ClientRejected, RunFrame
  <2>7. CASE IdentityChanges
    BY <2>7, SMT DEF IdentityChanges
  <2> QED
    BY <2>1, <2>2, <2>3, <2>4, <2>5, <2>6, <2>7 DEF Next
<1> QED
  BY <1>1, <1>2, PTL DEF Spec

\* While the program stops, only its goroutine moves the goroutine and its
\* client; anything else leaves them alone or ends the process.
LEMMA StoppingStep ==
  ASSUME IInv, proc = "stopping", [Next]_vars
  PROVE  \/ Run /\ proc' = "stopping"
         \/ proc' = "none"
         \/ UNCHANGED <<proc, work, phase>>
<1> USE DEF IInv, Books, service, program, client
<1>1. CASE UNCHANGED vars
  BY <1>1 DEF vars
<1>2. CASE Command
  BY <1>2, SMT DEF Command, Install, StartCommand, UninstallCommand, ControlCommand, StopFirst
<1>3. CASE Manager
  BY <1>3, SMT DEF Manager, CommandCompletes, StopFails, ManagerRestarts
<1>4. CASE Process
  BY <1>4, SMT DEF Process, BootFails, RunFails, Start, Stop, StopReturns, Dies, Exits
<1>5. CASE Run
  <2>1. proc' = proc
    BY <1>5, Zenon DEF Run, LoadFails, LoadNothing, LoadIdentity, ClientRuns, ClientStopped, ClientRejected, RunFrame
  <2> QED
    BY <1>5, <2>1
<1>6. CASE IdentityChanges
  BY <1>6, SMT DEF IdentityChanges
<1> QED
  BY <1>1, <1>2, <1>3, <1>4, <1>5, <1>6 DEF Next

\* What is left to do, from the load to the return of wg.Wait.
Loading   == proc = "stopping" /\ work = "load"
Trying    == proc = "stopping" /\ work = "client" /\ phase = "trying"
Live      == proc = "stopping" /\ work = "client" /\ phase = "live"
Idle      == proc = "stopping" /\ work = "client" /\ phase = "idle"
Ended     == proc = "stopping" /\ work = "client" /\ phase = "ended"
Over      == proc = "stopping" /\ work = "over"
Gone      == proc = "none"

\* Every step of a stopped goroutine brings it nearer to its end: no attempt
\* begins any more.
LEMMA RunDescends ==
  ASSUME IInv, StopTold, Run, proc = "stopping"
  PROVE  /\ Loading => Over' \/ Idle'
         /\ Trying  => Live' \/ Idle'
         /\ Live    => Idle'
         /\ Idle    => Ended'
         /\ Ended   => Over'
         /\ ~Over
<1> USE DEF IInv, TypeOK, Books, StopTold, RunFrame, program, client, service, Loading, Trying, Live, Idle, Ended, Over
<1>1. CASE LoadFails \/ LoadNothing \/ LoadIdentity
  <2>1. work = "load" /\ work' \in {"over", "client"} /\ proc' = "stopping" /\ phase' = phase
    BY <1>1, Zenon DEF LoadFails, LoadNothing, LoadIdentity
  <2> QED
    BY <2>1, SMT
<1>2. CASE ClientStopped \/ ClientRejected
  <2>1. work = "client" /\ phase = "ended" /\ work' = "over" /\ proc' = "stopping"
    BY <1>2, Zenon DEF ClientStopped, ClientRejected
  <2> QED
    BY <2>1, SMT
<1>3. CASE ClientRuns
  <2>1. work = "client" /\ work' = "client" /\ proc' = "stopping"
    BY <1>3, Zenon DEF ClientRuns
  <2>2. CASE Client!Try
    BY <2>1, <2>2, SMT DEF Client!Try
  <2>3. CASE Client!GoLive
    BY <2>1, <2>3, SMT DEF Client!GoLive
  <2>4. CASE Client!GiveUp
    BY <2>1, <2>4, SMT DEF Client!GiveUp
  <2>5. CASE Client!EndStopped
    BY <2>1, <2>5, SMT DEF Client!EndStopped, Client!Ends
  <2>6. CASE Client!EndRejected
    BY <2>1, <2>6, SMT DEF Client!EndRejected, Client!Ends
  <2>7. CASE Client!EndRefused
    BY <2>1, <2>7, SMT DEF Client!EndRefused, Client!Ends
  <2> QED
    BY <1>3, <2>2, <2>3, <2>4, <2>5, <2>6, <2>7 DEF ClientRuns
<1> QED
  BY <1>1, <1>2, <1>3 DEF Run

\* Program.Stop returns: from wherever the stop finds the goroutine, loading,
\* dialling, in a session or purging, it reaches its end, and the process with it.
THEOREM StopsEnd == FairSpec /\ []NeverStuck => StopEnds
<1> DEFINE I == IInv /\ StopTold
<1>1. I /\ proc = "stopping" => Loading \/ Trying \/ Live \/ Idle \/ Ended \/ Over
  BY SMT DEF IInv, TypeOK, Books, Loading, Trying, Live, Idle, Ended, Over
<1>2. I /\ Loading /\ [Next]_vars => Loading' \/ Idle' \/ Over' \/ Gone'
  BY StoppingStep, RunDescends DEF Loading, Gone
<1>3. I /\ Loading /\ <<GoesOn>>_vars => Idle' \/ Over'
  BY RunDescends DEF GoesOn, Loading
<1>4. I /\ Trying /\ [Next]_vars => Trying' \/ Live' \/ Idle' \/ Gone'
  BY StoppingStep, RunDescends DEF Trying, Gone
<1>5. I /\ Trying /\ <<GoesOn>>_vars => Live' \/ Idle'
  BY RunDescends DEF GoesOn, Trying
<1>6. I /\ Live /\ [Next]_vars => Live' \/ Idle' \/ Gone'
  BY StoppingStep, RunDescends DEF Live, Gone
<1>7. I /\ Live /\ <<GoesOn>>_vars => Idle'
  BY RunDescends DEF GoesOn, Live
<1>8. I /\ Idle /\ [Next]_vars => Idle' \/ Ended' \/ Gone'
  BY StoppingStep, RunDescends DEF Idle, Gone
<1>9. I /\ Idle /\ <<GoesOn>>_vars => Ended'
  BY RunDescends DEF GoesOn, Idle
<1>10. I /\ Ended /\ [Next]_vars => Ended' \/ Over' \/ Gone'
  BY StoppingStep, RunDescends DEF Ended, Gone
<1>11. I /\ Ended /\ <<GoesOn>>_vars => Over'
  BY RunDescends DEF GoesOn, Ended
<1>12. I /\ Over /\ [Next]_vars => Over' \/ Gone'
  BY StoppingStep, RunDescends DEF Over, Gone
<1>13. I /\ Over /\ <<StopReturns>>_vars => Gone'
  BY SMT DEF Over, Gone, StopReturns, Exits
<1>14. I /\ NeverStuck /\ (Loading \/ Trying \/ Live \/ Idle \/ Ended) => ENABLED <<GoesOn>>_vars
  BY DEF NeverStuck, StopTold, Loading, Trying, Live, Idle, Ended
<1>15. NeverStuck /\ Over => ENABLED <<StopReturns>>_vars
  BY DEF NeverStuck, Over
<1>16. FairSpec => []I
  BY InvHolds, StopToldHolds, PTL DEF FairSpec
<1>17. Gone => proc = "none"
  BY DEF Gone
<1>18. FairSpec => [][Next]_vars /\ WF_vars(GoesOn) /\ WF_vars(StopReturns)
  BY PTL DEF FairSpec, Spec, Fairness
<1> HIDE DEF I
<1> QED
  BY <1>1, <1>2, <1>3, <1>4, <1>5, <1>6, <1>7, <1>8, <1>9, <1>10, <1>11, <1>12, <1>13, <1>14, <1>15, <1>16, <1>17, <1>18, PTL DEF StopEnds

\* While the manager stops a process, the process has been told.
OrderHeard == order # "none" /\ proc # "none" => asked

LEMMA OrderHeardHolds == Spec => []OrderHeard
<1>1. Init => OrderHeard
  BY SMT DEF Init, OrderHeard
<1>2. TypeOK /\ OrderHeard /\ [Next]_vars => OrderHeard'
  <2> SUFFICES ASSUME TypeOK, OrderHeard, [Next]_vars PROVE OrderHeard'
    OBVIOUS
  <2> USE DEF OrderHeard, service, program, client
  <2>1. CASE UNCHANGED vars \/ Run
    <3>1. UNCHANGED <<order, proc, asked>>
      BY <2>1, Zenon DEF vars, Run, LoadFails, LoadNothing, LoadIdentity, ClientRuns, ClientStopped, ClientRejected, RunFrame
    <3> QED
      BY <3>1
  <2>2. CASE Command
    <3>1. CASE Install \/ StartCommand
      BY <3>1, SMT DEF Install, StartCommand
    <3>2. CASE UninstallCommand \/ ControlCommand
      <4>1. asked' = (proc # "none") /\ proc' = proc
        BY <3>2, Zenon DEF UninstallCommand, ControlCommand, StopFirst
      <4> QED
        BY <4>1
    <3> QED
      BY <2>2, <3>1, <3>2 DEF Command
  <2>3. CASE Manager
    BY <2>3, SMT DEF Manager, CommandCompletes, StopFails, ManagerRestarts
  <2>4. CASE Process
    BY <2>4, SMT DEF Process, BootFails, RunFails, Start, Stop, StopReturns, Dies, Exits
  <2>5. CASE IdentityChanges
    BY <2>5, SMT DEF IdentityChanges
  <2> QED
    BY <2>1, <2>2, <2>3, <2>4, <2>5 DEF Next
<1> QED
  BY <1>1, <1>2, TypeCorrect, PTL DEF Spec

\* Until the command is over, the process only goes the way it has to go.
LEMMA OrderStep ==
  ASSUME [Next]_vars, order # "none", order' # "none"
  PROVE  /\ proc = "boot" => proc' \in {"boot", "up", "none"}
         /\ proc = "up"   => proc' \in {"up", "stopping", "none"}
         /\ proc = "none" => proc' = "none"
<1> USE DEF service, program, client
<1>1. CASE UNCHANGED vars \/ Run
  <2>1. proc' = proc
    BY <1>1, Zenon DEF vars, Run, LoadFails, LoadNothing, LoadIdentity, ClientRuns, ClientStopped, ClientRejected, RunFrame
  <2> QED
    BY <2>1
<1>2. CASE Command
  BY <1>2 DEF Command, Install, StartCommand, UninstallCommand, ControlCommand, StopFirst
<1>3. CASE Manager
  BY <1>3, SMT DEF Manager, CommandCompletes, StopFails, ManagerRestarts
<1>4. CASE Process
  BY <1>4, SMT DEF Process, BootFails, RunFails, Start, Stop, StopReturns, Dies, Exits
<1>5. CASE IdentityChanges
  BY <1>5, SMT DEF IdentityChanges
<1> QED
  BY <1>1, <1>2, <1>3, <1>4, <1>5 DEF Next

\* A command that stops the daemon ends: the process boots before it can take
\* the signal, takes it, winds its client up and is gone.
THEOREM OrdersAreCarriedOut == FairSpec /\ []NeverStuck => OrdersEnd
<1> DEFINE I       == TypeOK /\ OrderHeard
           Ordered == order # "none"
<1>1. I => proc = "boot" \/ proc = "up" \/ proc = "stopping" \/ proc = "none"
  BY DEF TypeOK
<1>2. I /\ Ordered /\ proc = "boot" /\ [Next]_vars => (proc = "boot")' \/ (proc = "up")' \/ (proc = "none")' \/ ~Ordered'
  BY OrderStep
<1>3. proc = "boot" /\ <<BootFails \/ Start>>_vars => (proc = "up")' \/ (proc = "none")'
  BY SMT DEF BootFails, Start, Exits
<1>4. I /\ Ordered /\ proc = "up" /\ [Next]_vars => (proc = "up")' \/ (proc = "stopping")' \/ (proc = "none")' \/ ~Ordered'
  BY OrderStep
<1>5. <<Stop>>_vars => (proc = "stopping")'
  BY SMT DEF Stop
<1>6. I /\ Ordered /\ proc = "none" /\ [Next]_vars => (proc = "none")' \/ ~Ordered'
  BY OrderStep
<1>7. <<CommandCompletes>>_vars => ~Ordered'
  BY SMT DEF CommandCompletes
<1>8. I /\ NeverStuck => /\ proc = "boot" => ENABLED <<BootFails \/ Start>>_vars
                         /\ Ordered /\ proc = "up" => ENABLED <<Stop>>_vars
                         /\ Ordered /\ proc = "none" => ENABLED <<CommandCompletes>>_vars
  BY DEF NeverStuck, OrderHeard
<1>9. FairSpec => []I
  BY TypeCorrect, OrderHeardHolds, PTL DEF FairSpec
<1>10. FairSpec => [][Next]_vars /\ WF_vars(BootFails \/ Start) /\ WF_vars(Stop) /\ WF_vars(CommandCompletes)
  BY PTL DEF FairSpec, Spec, Fairness
<1>11. Ordered <=> order # "none"
  OBVIOUS
<1>12. ~Ordered <=> order = "none"
  OBVIOUS
<1> HIDE DEF I, Ordered
<1> QED
  BY <1>1, <1>2, <1>3, <1>4, <1>5, <1>6, <1>7, <1>8, <1>9, <1>10, <1>11, <1>12, StopsEnd, PTL DEF OrdersEnd, StopEnds

\* What is told to stop stops, and who told it to hears of it.
THEOREM StopsAndOrdersAreCarriedOut == FairSpec /\ []NeverStuck => StopsAndOrdersEnd
BY StopsEnd, OrdersAreCarriedOut, PTL DEF StopsAndOrdersEnd
=============================================================================
