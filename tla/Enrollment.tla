----------------------------- MODULE Enrollment -----------------------------
(***************************************************************************)
(* The enrolled identity of one machine - the token file and the metadata  *)
(* file next to it - and every process that reads, writes or deletes them: *)
(* `login`/`enroll` (internal/cli/login.go, enroll.go), `logout`, `status` *)
(* and the daemon (internal/service/runner.go).  The two files are written *)
(* one after the other, and nothing locks them.                            *)
(*                                                                         *)
(* What each process asks of the server is abstract: WSClient.Run appears  *)
(* as its contract (ClientContract) - it goes on until it is stopped, the  *)
(* server rejects the token, or nothing can be retried.                    *)
(***************************************************************************)
EXTENDS FiniteSets

CONSTANTS
  Tokens,        \* the agent tokens the server may issue
  InsecureURLs,  \* the tokens issued with a ws_url the client refuses
  None,
  Enrollers,     \* runs of `login` and `enroll`
  Logouts,       \* runs of `logout`
  Probes,        \* runs of `status`
  Daemon,        \* the service process
  Exclusive,     \* TRUE: an enrollment has the machine to itself (see MayBegin)
  Faults         \* TRUE: file operations fail and processes are killed

ASSUME IdentityAssumption ==
  /\ None \notin Tokens
  /\ InsecureURLs \subseteq Tokens
  /\ Exclusive \in BOOLEAN
  /\ Faults \in BOOLEAN

ASSUME ActorsAssumption ==
  /\ Enrollers \cap Logouts = {} /\ Enrollers \cap Probes = {} /\ Logouts \cap Probes = {}
  /\ Daemon \notin Enrollers \cup Logouts \cup Probes

Commands == Enrollers \cup Logouts \cup Probes
Actors   == Commands \cup {Daemon}

VARIABLES
  registry,   \* the server's view of each token
  token,      \* the token file
  meta,       \* agent.json, named by the token it was issued with
  pc,         \* where each process is
  have,       \* the token each process holds in memory
  about,      \* the metadata each process holds in memory
  answer,     \* what a `status` run learned, and said
  purged      \* history: tokens deleted by a process that held them

vars == <<registry, token, meta, pc, have, about, answer, purged>>

Init ==
  /\ registry = [t \in Tokens |-> "unissued"]
  /\ token = None /\ meta = None
  /\ pc = [a \in Actors |-> IF a = Daemon THEN "stopped" ELSE "idle"]
  /\ have = [a \in Actors |-> None]
  /\ about = [a \in Actors |-> None]
  /\ answer = [p \in Probes |-> "none"]
  /\ purged = {}

Goto(a, label) == pc' = [pc EXCEPT ![a] = label]
Move(a, from, to) == pc[a] = from /\ Goto(a, to)

Idle == {"idle", "done", "stopped", "parked"}

\* A command can begin: nothing holds it back.  Exclusive is an assumption of the
\* operator's and no rule of the program's: an enrollment begins while the daemon
\* is stopped or parked and no command is under way, and none begins beside it.
\* daemon.go:99 and src/README.md:70-72 ask for less, a restart afterwards.
MayBegin(a) ==
  /\ a \in Enrollers => (Exclusive => \A b \in Actors : pc[b] \in Idle)
  /\ Exclusive => \A e \in Enrollers : pc[e] \in Idle

-----------------------------------------------------------------------------
(* login, enroll *)

\* POST /cli/device/token or /cli/enroll answers with a fresh identity.
Issue(e) ==
  /\ e \in Enrollers
  /\ MayBegin(e)
  /\ Move(e, "idle", "saveToken")
  /\ \E t \in Tokens :
       /\ registry[t] = "unissued"
       /\ registry' = [registry EXCEPT ![t] = "active"]
       /\ have' = [have EXCEPT ![e] = t]
       /\ about' = [about EXCEPT ![e] = t]
  /\ UNCHANGED <<token, meta, answer, purged>>

\* Regression: a token file that is already there is not replaced.
SaveTokenOnce(e) ==
  /\ Move(e, "saveToken", "saveMeta")
  /\ token' = IF token = None THEN have[e] ELSE token
  /\ UNCHANGED <<registry, meta, have, about, answer, purged>>

SaveToken(e) ==
  /\ Move(e, "saveToken", "saveMeta")
  /\ token' = have[e]
  /\ UNCHANGED <<registry, meta, have, about, answer, purged>>

\* Regression: metadata that is already there is not replaced.
SaveMetadataOnce(e) ==
  /\ Move(e, "saveMeta", "verify")
  /\ meta' = IF meta = None THEN about[e] ELSE meta
  /\ UNCHANGED <<registry, token, have, about, answer, purged>>

SaveMetadata(e) ==
  /\ Move(e, "saveMeta", "verify")
  /\ meta' = about[e]
  /\ UNCHANGED <<registry, token, have, about, answer, purged>>

\* Neither failure undoes what was saved before it.
SaveFails(e) ==
  /\ Faults
  /\ pc[e] \in {"saveToken", "saveMeta"}
  /\ Goto(e, "done")
  /\ UNCHANGED <<registry, token, meta, have, about, answer, purged>>

\* server.hello arrived, or nothing conclusive did within 15 s, or the
\* organisation is suspended, or auto-connect is off: the files stay.
VerifyKeeps(e) ==
  /\ e \in Enrollers
  /\ Move(e, "verify", "done")
  /\ UNCHANGED <<registry, token, meta, have, about, answer, purged>>

\* A rejected token, or a ws_url that is refused, is wiped.
VerifyPurges(e) ==
  /\ e \in Enrollers
  /\ Move(e, "verify", "purge")
  /\ registry[have[e]] = "revoked" \/ about[e] \in InsecureURLs
  /\ UNCHANGED <<registry, token, meta, have, about, answer, purged>>

-----------------------------------------------------------------------------
(* Reading the pair: two reads, with anything in between. *)

LoadToken(a) ==
  /\ have' = [have EXCEPT ![a] = token]
  /\ UNCHANGED <<registry, token, meta, about, answer, purged>>

LoadMetadata(a) ==
  /\ about' = [about EXCEPT ![a] = meta]
  /\ UNCHANGED <<registry, token, meta, have, answer, purged>>

\* A client whose URL passes reaches the server, which turns the token down.
Rejectable(a) == registry[have[a]] = "revoked" /\ about[a] \notin InsecureURLs

-----------------------------------------------------------------------------
(* logout *)

\* Regression: the early return of a machine without a token is missing.
LogoutUnenrolled(l) ==
  /\ l \in Logouts
  /\ MayBegin(l)
  /\ Move(l, "idle", "revoke")
  /\ LoadToken(l)

LogoutLoads(l) ==
  /\ l \in Logouts
  /\ MayBegin(l)
  /\ Move(l, "idle", IF token = None THEN "done" ELSE "revoke")
  /\ LoadToken(l)

\* POST /cli/logout reaches the server, whether or not the answer comes back.
LogoutRevokes(l) ==
  /\ Move(l, "revoke", "purge")
  /\ registry' = [registry EXCEPT ![have[l]] = "revoked"]
  /\ UNCHANGED <<token, meta, have, about, answer, purged>>

\* The request is lost or refused: the local purge goes on regardless.
LogoutUnheard(l) ==
  /\ Move(l, "revoke", "purge")
  /\ UNCHANGED <<registry, token, meta, have, about, answer, purged>>

-----------------------------------------------------------------------------
(* status *)

StatusLoadsToken(p) ==
  /\ p \in Probes
  /\ MayBegin(p)
  /\ Move(p, "idle", "loadMeta")
  /\ LoadToken(p)

\* "no agent enrolled" unless both files were there.
StatusLoadsMetadata(p) ==
  /\ p \in Probes
  /\ Move(p, "loadMeta", IF have[p] = None \/ meta = None THEN "done" ELSE "run")
  /\ LoadMetadata(p)

\* The client of probeWS is rejected; WSClient.Run will purge the token file
\* and the caller the metadata.
StatusRejected(p) ==
  /\ p \in Probes
  /\ Move(p, "run", "purge")
  /\ Rejectable(p)
  /\ answer' = [answer EXCEPT ![p] = "rejected"]
  /\ UNCHANGED <<registry, token, meta, have, about, purged>>

\* server.hello came first: probeWS reports online and stops the client.
StatusOnline(p) ==
  /\ p \in Probes
  /\ Move(p, "run", "stopping")
  /\ registry[have[p]] = "active"
  /\ about[p] \notin InsecureURLs
  /\ answer' = [answer EXCEPT ![p] = "online"]
  /\ UNCHANGED <<registry, token, meta, have, about, purged>>

\* Run returns nil, or what it returns is dropped.
StatusStopped(p) ==
  /\ Move(p, "stopping", "done")
  /\ UNCHANGED <<registry, token, meta, have, about, answer, purged>>

\* The close 4401 was read before the cancellation: Run purges the token, and
\* its sentinel is dropped with the rest of `<-errCh`.
StatusStoppedTooLate(p) ==
  /\ pc[p] = "stopping"
  /\ Rejectable(p)
  /\ Goto(p, "purgeUnreported")
  /\ UNCHANGED <<registry, token, meta, have, about, answer, purged>>

\* Run gave up: the organisation is suspended or the ws_url is refused.
StatusOffline(p) ==
  /\ p \in Probes
  /\ Move(p, "run", "done")
  /\ answer' = [answer EXCEPT ![p] = "offline"]
  /\ UNCHANGED <<registry, token, meta, have, about, purged>>

\* Ten seconds without a conclusion: the client is stopped here too.
StatusTimesOut(p) ==
  /\ p \in Probes
  /\ Move(p, "run", "stopping")
  /\ answer' = [answer EXCEPT ![p] = "offline"]
  /\ UNCHANGED <<registry, token, meta, have, about, purged>>

-----------------------------------------------------------------------------
(* The daemon *)

DaemonStarts ==
  /\ MayBegin(Daemon)
  /\ Move(Daemon, "stopped", "loadMeta")
  /\ LoadToken(Daemon)

DaemonLoadsMetadata ==
  /\ Move(Daemon, "loadMeta", IF have[Daemon] = None \/ meta = None THEN "parked" ELSE "run")
  /\ LoadMetadata(Daemon)

\* Revoked or invalid: WSClient purges the token, the runner the metadata.
DaemonRejected ==
  /\ Move(Daemon, "run", "purge")
  /\ Rejectable(Daemon)
  /\ UNCHANGED <<registry, token, meta, have, about, answer, purged>>

\* Suspended, or an insecure ws_url: both files stay.
DaemonRefused ==
  /\ Move(Daemon, "run", "parked")
  /\ UNCHANGED <<registry, token, meta, have, about, answer, purged>>

\* requireSecureScheme's refusal, which no server can prevent.
DaemonRefusesURL == about[Daemon] \in InsecureURLs /\ DaemonRefused

\* Stop cancels the context and waits for the goroutine; a purge under way
\* completes first.
DaemonStops ==
  /\ pc[Daemon] \in {"run", "parked"}
  /\ Goto(Daemon, "stopped")
  /\ UNCHANGED <<registry, token, meta, have, about, answer, purged>>

-----------------------------------------------------------------------------
(* Deleting the pair *)

Rest(a) == IF a = Daemon THEN "parked" ELSE "done"

AfterPurge(a) ==
  CASE pc[a] = "purge"           -> "dropMeta"
    [] pc[a] = "purgeUnreported" -> "done"

\* Regression: the token file is left behind (no TokenStore wired).
PurgeSkipsToken(a) ==
  /\ pc[a] \in {"purge", "purgeUnreported"}
  /\ Goto(a, AfterPurge(a))
  /\ purged' = purged \cup {have[a]}
  /\ UNCHANGED <<registry, token, meta, have, about, answer>>

\* TokenStore.Delete removes the file, whatever it holds by now.
PurgeToken(a) ==
  /\ pc[a] \in {"purge", "purgeUnreported"}
  /\ token' = None
  /\ Goto(a, AfterPurge(a))
  /\ purged' = purged \cup {have[a]}
  /\ UNCHANGED <<registry, meta, have, about, answer>>

\* `logout` gives up on the error, the other callers go on to the metadata.
PurgeFails(a) ==
  /\ Faults
  /\ pc[a] \in {"purge", "purgeUnreported"}
  /\ Goto(a, IF a \in Logouts THEN "done" ELSE AfterPurge(a))
  /\ UNCHANGED <<registry, token, meta, have, about, answer, purged>>

\* Regression: the metadata is left behind.
DropNothing(a) ==
  /\ Move(a, "dropMeta", Rest(a))
  /\ UNCHANGED <<registry, token, meta, have, about, answer, purged>>

\* Regression: metadata that is already gone counts as a failure and is tried again.
DropMetadataOnce(a) ==
  /\ Move(a, "dropMeta", Rest(a))
  /\ meta # None /\ meta' = None
  /\ UNCHANGED <<registry, token, have, about, answer, purged>>

DropMetadata(a) ==
  /\ Move(a, "dropMeta", Rest(a))
  /\ meta' = None
  /\ UNCHANGED <<registry, token, have, about, answer, purged>>

DropFails(a) ==
  /\ Faults
  /\ Move(a, "dropMeta", Rest(a))
  /\ UNCHANGED <<registry, token, meta, have, about, answer, purged>>

-----------------------------------------------------------------------------
(* The world around them *)

\* A read fails, or agent.json does not decode.
LoadFails(a) ==
  /\ Faults
  /\ Move(a, "loadMeta", Rest(a))
  /\ UNCHANGED <<registry, token, meta, have, about, answer, purged>>

\* A process is killed between two steps.
Killed(a) ==
  /\ Faults
  /\ pc[a] \notin Idle
  /\ Goto(a, IF a = Daemon THEN "stopped" ELSE "done")
  /\ UNCHANGED <<registry, token, meta, have, about, answer, purged>>

\* Revocation from the dashboard.
ServerRevokes(t) ==
  /\ registry[t] = "active"
  /\ registry' = [registry EXCEPT ![t] = "revoked"]
  /\ UNCHANGED <<token, meta, pc, have, about, answer, purged>>

ActorStep(a) ==
  \/ SaveToken(a)
  \/ SaveMetadata(a)
  \/ VerifyKeeps(a)
  \/ VerifyPurges(a)
  \/ LogoutRevokes(a)
  \/ LogoutUnheard(a)
  \/ StatusLoadsMetadata(a)
  \/ StatusRejected(a)
  \/ StatusOnline(a)
  \/ StatusStopped(a)
  \/ StatusStoppedTooLate(a)
  \/ StatusOffline(a)
  \/ StatusTimesOut(a)
  \/ PurgeToken(a)
  \/ DropMetadata(a)

DaemonStep == DaemonLoadsMetadata \/ DaemonRejected \/ DaemonRefused \/ DaemonStops

Begin(a) == Issue(a) \/ LogoutLoads(a) \/ StatusLoadsToken(a)

Fault(a) == SaveFails(a) \/ PurgeFails(a) \/ DropFails(a) \/ LoadFails(a) \/ Killed(a)

Next ==
  \/ \E c \in Commands : Begin(c)
  \/ DaemonStarts
  \/ DaemonStep
  \/ \E a \in Actors : ActorStep(a) \/ Fault(a)
  \/ \E t \in Tokens : ServerRevokes(t)

Spec == Init /\ [][Next]_vars

\* A process that has begun goes on, and a rejected daemon hears of it; nobody
\* has to begin, to stop the daemon or to revoke anything.
GoesOn(a) == WF_vars(ActorStep(a))
EverybodyGoesOn == \A a \in Actors : GoesOn(a)

Fairness ==
  /\ EverybodyGoesOn
  /\ WF_vars(DaemonLoadsMetadata)
  /\ WF_vars(DaemonRejected)
  /\ WF_vars(DaemonRefusesURL)

FairSpec == Spec /\ Fairness

-----------------------------------------------------------------------------
(* Properties *)

Labels == {"idle", "saveToken", "saveMeta", "verify", "revoke", "loadMeta", "run", "stopping",
           "purge", "purgeUnreported", "dropMeta", "done", "stopped", "parked"}

\* Files and memories hold identities the server issued, or nothing.
TypeOK ==
  /\ registry \in [Tokens -> {"unissued", "active", "revoked"}]
  /\ token \in Tokens \cup {None}
  /\ meta \in Tokens \cup {None}
  /\ pc \in [Actors -> Labels]
  /\ have \in [Actors -> Tokens \cup {None}]
  /\ about \in [Actors -> Tokens \cup {None}]
  /\ answer \in [Probes -> {"none", "online", "rejected", "offline"}]
  /\ purged \subseteq Tokens

\* The token and the agent_id a client presents to the server were issued
\* together, although they are saved, loaded and deleted one after the other:
\* true where enrollments are exclusive and no file operation fails.
ClientPairMatches ==
  \A a \in Probes \cup {Daemon} : pc[a] = "run" => have[a] = about[a]

\* Between commands the machine is either enrolled or not: both files are of one
\* identity or both are gone - but for the metadata a `status` run leaves when
\* the revocation arrives just after it gave up waiting, or saw the agent online.
PairWhole ==
  (\A a \in Actors : pc[a] \in Idle \cup {"run"}) =>
     \/ token = meta
     \/ /\ token = None
        /\ \E p \in Probes : answer[p] \in {"online", "offline"} /\ have[p] = meta /\ registry[meta] = "revoked"

\* No process deletes a token other than the one it was working with.
DeletesOwnToken ==
  [][ \A a \in Actors :
        (pc[a] \in {"purge", "purgeUnreported"} /\ pc'[a] # pc[a] /\ token # None /\ token' = None)
        => have[a] = token ]_vars

\* A token the server still honours leaves the disk in three ways only: another
\* enrollment replaces it, `logout` deletes the token it read, or the client that
\* enrolled refuses the ws_url it came with.
ActiveTokensKept ==
  [][ \A t \in Tokens : (token = t /\ token' # t /\ registry[t] = "active") =>
        \/ \E e \in Enrollers : pc[e] = "saveToken" /\ token' = have[e]
        \/ \E l \in Logouts : pc[l] = "purge" /\ have[l] = t
        \/ \E e \in Enrollers : pc[e] = "purge" /\ have[e] = t /\ t \in InsecureURLs ]_vars

\* No token disappears without a reason of its own.
DeletionsReasoned == DeletesOwnToken /\ ActiveTokensKept

\* A token that was purged never comes back to the disk, so no later daemon or
\* `status` presents it again - whatever runs concurrently, fails or is killed.
PurgedStaysGone == token \notin purged

\* Nobody waits for anybody: a command that has begun, and a daemon that is
\* starting, rejected or refused, has a next step, whatever the other processes
\* did to the files meanwhile.
NeverStuck ==
  /\ \A c \in Commands : pc[c] \notin {"idle", "done"} => ENABLED <<ActorStep(c)>>_vars
  /\ pc[Daemon] = "loadMeta" => ENABLED <<DaemonLoadsMetadata>>_vars
  /\ pc[Daemon] = "run" /\ Rejectable(Daemon) => ENABLED <<DaemonRejected>>_vars
  /\ pc[Daemon] = "run" /\ about[Daemon] \in InsecureURLs => ENABLED <<DaemonRefusesURL>>_vars
  /\ pc[Daemon] \in {"purge", "dropMeta"} => ENABLED <<ActorStep(Daemon)>>_vars

\* A revocation takes the token off the disk, unless the daemon was stopped or
\* refused before the server told it.
RevocationCleansUp ==
  \A t \in Tokens :
    (pc[Daemon] = "run" /\ have[Daemon] = t /\ token = t /\ registry[t] = "revoked")
    ~> (token # t \/ (pc[Daemon] \in {"parked", "stopped"} /\ t \notin purged))

\* Every `login`, `enroll`, `logout` and `status` that has begun comes to its end.
CommandsEnd == \A c \in Commands : pc[c] # "idle" ~> pc[c] = "done"

\* What was set going comes to rest: commands, and revocations.
EverythingSettles == RevocationCleansUp /\ CommandsEnd

\* internal/transport/ws_client.go:254 "purgeToken deletes the on-disk token when
\* the server explicitly invalidated it".
PurgesInvalidatedToken ==
  [][ \A a \in Probes \cup {Daemon} :
        (pc[a] \in {"purge", "purgeUnreported"} /\ pc'[a] # pc[a] /\ token # None /\ token' = None)
        => registry[token] = "revoked" ]_vars

\* internal/cli/status.go:120 "the caller still gets the sentinel back to render
\* the right status line, but the file is gone by the time runStatus returns".
PurgeIsReported ==
  [][ \A p \in Probes : (pc[p] \in {"purge", "purgeUnreported"} /\ pc'[p] # pc[p])
                        => answer[p] = "rejected" ]_vars
=============================================================================
