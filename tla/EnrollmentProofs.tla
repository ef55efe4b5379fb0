-------------------------- MODULE EnrollmentProofs --------------------------
(***************************************************************************)
(* What holds of Enrollment for every set of tokens, commands and faults,  *)
(* and what holds besides when the operator enrolls alone and no file      *)
(* operation fails.                                                        *)
(***************************************************************************)
EXTENDS Enrollment, Naturals, TLAPS

-----------------------------------------------------------------------------
(* A token that was purged is gone: it is in no memory that will be saved. *)

\* Where a process works with a token it holds.
Holding == {"saveToken", "saveMeta", "verify", "revoke", "run", "stopping", "purge", "purgeUnreported"}

Holds == \A a \in Actors : pc[a] \in Holding => have[a] \in Tokens

UnissuedUnknown ==
  \A t \in Tokens : registry[t] = "unissued" =>
     t # token /\ t \notin purged /\ \A a \in Actors : have[a] # t

\* Only the process that was issued a token knows it before it is on the disk.
UnsavedPrivate ==
  \A a \in Actors : pc[a] = "saveToken" =>
     have[a] # token /\ have[a] \notin purged /\ \A b \in Actors \ {a} : have[b] # have[a]

IInv == TypeOK /\ Holds /\ UnissuedUnknown /\ UnsavedPrivate /\ PurgedStaysGone

LEMMA InvInit == Init => IInv
<1> SUFFICES ASSUME Init PROVE IInv
  OBVIOUS
<1>1. TypeOK
  BY IdentityAssumption DEF Init, TypeOK, Actors, Commands, Labels
<1>2. Holds /\ UnsavedPrivate
  BY DEF Init, Holds, Holding, UnsavedPrivate
<1>3. UnissuedUnknown /\ PurgedStaysGone
  BY IdentityAssumption DEF Init, UnissuedUnknown, PurgedStaysGone
<1> QED
  BY <1>1, <1>2, <1>3 DEF IInv

\* The steps that only move one process on.
MovesOn(a) ==
  /\ \E l \in Labels \ {"saveToken"} :
       /\ pc' = [pc EXCEPT ![a] = l]
       /\ l \in Holding => have[a] \in Tokens
  /\ UNCHANGED <<token, have, purged>>

LEMMA MoveKeeps ==
  ASSUME IInv, NEW a \in Actors, MovesOn(a), TypeOK',
         \A t \in Tokens : registry'[t] = "unissued" => registry[t] = "unissued"
  PROVE  IInv'
<1>1. Holds'
  BY DEF IInv, TypeOK, Holds, MovesOn
<1>2. UnissuedUnknown' /\ PurgedStaysGone'
  BY DEF IInv, UnissuedUnknown, PurgedStaysGone, MovesOn
<1>3. UnsavedPrivate'
  BY DEF IInv, TypeOK, UnsavedPrivate, MovesOn
<1> QED
  BY <1>1, <1>2, <1>3 DEF IInv

LEMMA CommandMoves ==
  ASSUME IInv, NEW a \in Actors,
         \/ SaveMetadata(a) \/ VerifyKeeps(a) \/ VerifyPurges(a)
         \/ LogoutRevokes(a) \/ LogoutUnheard(a)
         \/ DropMetadata(a) \/ Fault(a)
  PROVE  IInv'
<1> USE DEF MovesOn, IInv, Holds, Holding, Labels, Move, Goto
<1>1. CASE SaveMetadata(a)
  BY <1>1, MoveKeeps DEF SaveMetadata, TypeOK
<1>2. CASE VerifyKeeps(a) \/ VerifyPurges(a)
  BY <1>2, MoveKeeps DEF VerifyKeeps, VerifyPurges, TypeOK
<1>3. CASE LogoutRevokes(a)
  <2>1. MovesOn(a)
    BY <1>3 DEF LogoutRevokes, TypeOK
  <2>2. TypeOK' /\ \A t \in Tokens : registry'[t] = "unissued" => registry[t] = "unissued"
    BY <1>3 DEF LogoutRevokes, TypeOK
  <2> QED
    BY <2>1, <2>2, MoveKeeps
<1>4. CASE LogoutUnheard(a)
  BY <1>4, MoveKeeps DEF LogoutUnheard, TypeOK
<1>5. CASE DropMetadata(a)
  <2>1. MovesOn(a)
    <3>1. Rest(a) \in {"parked", "done"}
      BY DEF Rest
    <3> QED
      BY <1>5, <3>1 DEF DropMetadata
  <2>2. TypeOK' /\ registry' = registry
    BY <1>5 DEF DropMetadata, Rest, TypeOK
  <2> QED
    BY <2>1, <2>2, MoveKeeps
<1>6. CASE Fault(a)
  <2>1. CASE SaveFails(a) \/ DropFails(a) \/ LoadFails(a) \/ Killed(a)
    BY <1>6, <2>1, MoveKeeps DEF SaveFails, DropFails, LoadFails, Killed, Rest, TypeOK
  <2>2. CASE PurgeFails(a)
    BY <2>2, MoveKeeps DEF PurgeFails, AfterPurge, TypeOK
  <2> QED
    BY <1>6, <2>1, <2>2 DEF Fault
<1> QED
  BY <1>1, <1>2, <1>3, <1>4, <1>5, <1>6

LEMMA ReaderMoves ==
  ASSUME IInv, NEW a \in Actors,
         \/ StatusLoadsMetadata(a) \/ StatusRejected(a) \/ StatusOnline(a) \/ StatusStopped(a)
         \/ StatusStoppedTooLate(a) \/ StatusOffline(a) \/ StatusTimesOut(a)
  PROVE  IInv'
<1> USE DEF MovesOn, IInv, Holds, Holding, Labels, Move, Goto
<1>1. CASE StatusLoadsMetadata(a)
  <2>1. MovesOn(a)
    <3>1. UNCHANGED <<token, have, purged>>
      BY <1>1 DEF StatusLoadsMetadata, LoadMetadata
    <3>2. PICK l \in {"done", "run"} : pc' = [pc EXCEPT ![a] = l] /\ (l = "run" => have[a] # None)
      BY <1>1 DEF StatusLoadsMetadata
    <3> QED
      BY <3>1, <3>2 DEF TypeOK
  <2>2. TypeOK' /\ registry' = registry
    BY <1>1 DEF StatusLoadsMetadata, LoadMetadata, TypeOK
  <2> QED
    BY <2>1, <2>2, MoveKeeps
<1>2. CASE StatusRejected(a) \/ StatusOnline(a)
  BY <1>2, MoveKeeps DEF StatusRejected, StatusOnline, TypeOK
<1>3. CASE StatusStopped(a) \/ StatusStoppedTooLate(a)
  BY <1>3, MoveKeeps DEF StatusStopped, StatusStoppedTooLate, TypeOK
<1>4. CASE StatusOffline(a) \/ StatusTimesOut(a)
  BY <1>4, MoveKeeps DEF StatusOffline, StatusTimesOut, TypeOK
<1> QED
  BY <1>1, <1>2, <1>3, <1>4

LEMMA DaemonMoves ==
  ASSUME IInv, DaemonStep
  PROVE  IInv'
<1> USE DEF MovesOn, IInv, Holds, Holding, Labels, Move, Goto, Actors
<1>1. CASE DaemonLoadsMetadata
  <2>1. MovesOn(Daemon)
    <3>1. UNCHANGED <<token, have, purged>>
      BY <1>1 DEF DaemonLoadsMetadata, LoadMetadata
    <3>2. PICK l \in {"parked", "run"} : pc' = [pc EXCEPT ![Daemon] = l] /\ (l = "run" => have[Daemon] # None)
      BY <1>1 DEF DaemonLoadsMetadata
    <3> QED
      BY <3>1, <3>2 DEF TypeOK
  <2>2. TypeOK' /\ registry' = registry
    BY <1>1 DEF DaemonLoadsMetadata, LoadMetadata, TypeOK
  <2> QED
    BY <2>1, <2>2, MoveKeeps
<1>2. CASE DaemonRejected \/ DaemonRefused \/ DaemonStops
  BY <1>2, MoveKeeps DEF DaemonRejected, DaemonRefused, DaemonStops, TypeOK
<1> QED
  BY <1>1, <1>2 DEF DaemonStep

\* Reading the token file brings back no token that was never issued, and none
\* that is not saved yet.
LEMMA TokenLoads ==
  ASSUME IInv, NEW a \in Actors, LoadToken(a),
         NEW l \in Labels \ {"saveToken"}, l \in Holding => token # None,
         pc' = [pc EXCEPT ![a] = l]
  PROVE  IInv'
<1>1. TypeOK'
  BY DEF IInv, TypeOK, LoadToken
<1>2. Holds'
  BY DEF IInv, TypeOK, Holds, LoadToken
<1>3. UnissuedUnknown' /\ PurgedStaysGone'
  BY DEF IInv, TypeOK, UnissuedUnknown, PurgedStaysGone, LoadToken
<1>4. UnsavedPrivate'
  BY DEF IInv, TypeOK, UnsavedPrivate, LoadToken
<1> QED
  BY <1>1, <1>2, <1>3, <1>4 DEF IInv

LEMMA BeginKeeps ==
  ASSUME IInv, NEW c \in Commands, Begin(c)
  PROVE  IInv'
<1>0. c \in Actors
  BY DEF Actors
<1>1. CASE Issue(c)
  <2>1. PICK t \in Tokens : /\ registry[t] = "unissued"
                            /\ registry' = [registry EXCEPT ![t] = "active"]
                            /\ have' = [have EXCEPT ![c] = t]
                            /\ about' = [about EXCEPT ![c] = t]
    BY <1>1 DEF Issue
  <2>2. /\ pc' = [pc EXCEPT ![c] = "saveToken"]
        /\ UNCHANGED <<token, meta, answer, purged>>
    BY <1>1 DEF Issue, Move, Goto
  <2>3. t # token /\ t \notin purged /\ \A b \in Actors : have[b] # t
    BY <2>1 DEF IInv, UnissuedUnknown
  <2>4. TypeOK'
    BY <1>0, <2>1, <2>2 DEF IInv, TypeOK, Labels
  <2>5. Holds'
    BY <1>0, <2>1, <2>2 DEF IInv, TypeOK, Holds
  <2>6. UnissuedUnknown' /\ PurgedStaysGone'
    BY <1>0, <2>1, <2>2, <2>3 DEF IInv, TypeOK, UnissuedUnknown, PurgedStaysGone
  <2>7. UnsavedPrivate'
    BY <1>0, <2>1, <2>2, <2>3 DEF IInv, TypeOK, UnsavedPrivate
  <2> QED
    BY <2>4, <2>5, <2>6, <2>7 DEF IInv
<1>2. CASE LogoutLoads(c)
  BY <1>0, <1>2, TokenLoads DEF LogoutLoads, Move, Goto, Labels, Holding
<1>3. CASE StatusLoadsToken(c)
  BY <1>0, <1>3, TokenLoads DEF StatusLoadsToken, Move, Goto, Labels, Holding
<1> QED
  BY <1>1, <1>2, <1>3 DEF Begin

LEMMA SaveKeeps ==
  ASSUME IInv, NEW a \in Actors, SaveToken(a)
  PROVE  IInv'
<1>1. /\ pc[a] = "saveToken" /\ pc' = [pc EXCEPT ![a] = "saveMeta"]
      /\ token' = have[a]
      /\ UNCHANGED <<registry, meta, have, about, answer, purged>>
  BY DEF SaveToken, Move, Goto
<1>2. have[a] \in Tokens /\ have[a] \notin purged /\ \A b \in Actors \ {a} : have[b] # have[a]
  BY <1>1 DEF IInv, Holds, Holding, UnsavedPrivate
<1>3. TypeOK' /\ PurgedStaysGone'
  BY <1>1, <1>2 DEF IInv, TypeOK, PurgedStaysGone, Labels
<1>4. Holds'
  BY <1>1, <1>2 DEF IInv, TypeOK, Holds
<1>5. UnissuedUnknown'
  BY <1>1, <1>2 DEF IInv, TypeOK, UnissuedUnknown
<1>6. UnsavedPrivate'
  BY <1>1, <1>2 DEF IInv, TypeOK, UnsavedPrivate
<1> QED
  BY <1>3, <1>4, <1>5, <1>6 DEF IInv

LEMMA PurgeKeeps ==
  ASSUME IInv, NEW a \in Actors, PurgeToken(a)
  PROVE  IInv'
<1>1. PICK l \in {"dropMeta", "done"} : pc' = [pc EXCEPT ![a] = l]
  BY DEF PurgeToken, AfterPurge, Goto
<1>2. /\ pc[a] \in {"purge", "purgeUnreported"}
      /\ token' = None /\ purged' = purged \cup {have[a]}
      /\ UNCHANGED <<registry, meta, have, about, answer>>
  BY DEF PurgeToken
<1>3. have[a] \in Tokens
  BY <1>2 DEF IInv, Holds, Holding
<1>4. TypeOK'
  BY <1>1, <1>2, <1>3 DEF IInv, TypeOK, Labels
<1>5. PurgedStaysGone'
  BY <1>2, <1>3, IdentityAssumption DEF IInv, TypeOK, PurgedStaysGone
<1>6. Holds'
  BY <1>1, <1>2 DEF IInv, TypeOK, Holds, Holding
<1>7. UnissuedUnknown'
  BY <1>2, <1>3, IdentityAssumption DEF IInv, UnissuedUnknown
<1>8. UnsavedPrivate'
  BY <1>1, <1>2, <1>3, IdentityAssumption DEF IInv, TypeOK, Holds, Holding, UnsavedPrivate
<1> QED
  BY <1>4, <1>5, <1>6, <1>7, <1>8 DEF IInv

LEMMA RevokeKeeps ==
  ASSUME IInv, NEW t \in Tokens, ServerRevokes(t)
  PROVE  IInv'
BY DEF ServerRevokes, IInv, TypeOK, Holds, UnissuedUnknown, UnsavedPrivate, PurgedStaysGone

LEMMA InvNext == IInv /\ [Next]_vars => IInv'
<1> SUFFICES ASSUME IInv, [Next]_vars PROVE IInv'
  OBVIOUS
<1>1. ASSUME NEW c \in Commands, Begin(c) PROVE IInv'
  BY <1>1, BeginKeeps
<1>2. CASE DaemonStarts
  BY <1>2, TokenLoads DEF DaemonStarts, Move, Goto, Labels, Holding, Actors
<1>3. CASE DaemonStep
  BY <1>3, DaemonMoves
<1>4. ASSUME NEW a \in Actors, ActorStep(a) \/ Fault(a) PROVE IInv'
  BY <1>4, CommandMoves, ReaderMoves, SaveKeeps, PurgeKeeps DEF ActorStep
<1>5. ASSUME NEW t \in Tokens, ServerRevokes(t) PROVE IInv'
  BY <1>5, RevokeKeeps
<1>6. CASE UNCHANGED vars
  BY <1>6 DEF vars, IInv, TypeOK, Holds, UnissuedUnknown, UnsavedPrivate, PurgedStaysGone
<1> QED
  BY <1>1, <1>2, <1>3, <1>4, <1>5, <1>6 DEF Next

\* The strengthened invariant holds throughout.
LEMMA InvHolds == Spec => []IInv
BY InvInit, InvNext, PTL DEF Spec

\* Files and memories hold identities the server issued, or nothing.
THEOREM TypeCorrect == Spec => []TypeOK
BY InvHolds, PTL DEF IInv

\* A purged token never comes back to the disk, whatever runs, fails or dies.
THEOREM PurgedTokensStayGone == Spec => []PurgedStaysGone
BY InvHolds, PTL DEF IInv

-----------------------------------------------------------------------------
(* The pair of files, when the operator enrolls alone and nothing fails.   *)

Roles ==
  /\ \A e \in Enrollers : pc[e] \in {"idle", "saveToken", "saveMeta", "verify", "purge", "dropMeta", "done"}
  /\ \A a \in Actors \ Enrollers : pc[a] \in Labels \ {"saveToken", "saveMeta", "verify"}
  /\ \A a \in Actors : pc[a] \in {"stopping", "purgeUnreported"} => a \in Probes
  /\ \A p \in Probes : pc[p] \in {"idle", "loadMeta", "run"} => answer[p] = "none"

\* An enrolling process has the machine to itself.
Alone == \A e \in Enrollers : pc[e] \notin Idle => \A b \in Actors \ {e} : pc[b] \in Idle

Enrolling ==
  \A e \in Enrollers :
    /\ pc[e] \in {"saveToken", "saveMeta"} => about[e] = have[e]
    /\ pc[e] \in {"saveMeta", "verify", "purge"} => token = have[e]
    /\ pc[e] \in {"verify", "purge"} => meta = have[e]

Dropping == \A a \in Actors : pc[a] = "dropMeta" => token = None

\* What any other process holds is what the files hold, or held before they
\* were deleted.
Reading ==
  \A a \in Actors \ Enrollers :
    /\ pc[a] \notin Idle /\ have[a] # None => token \in {None, have[a]} /\ meta \in {None, have[a]}
    /\ pc[a] = "run" => about[a] = have[a]
    /\ pc[a] \in {"stopping", "purgeUnreported"} => answer[a] \in {"online", "offline"}
    /\ pc[a] = "purgeUnreported" => registry[have[a]] = "revoked"

Leftover ==
  \E p \in Probes : answer[p] \in {"online", "offline"} /\ have[p] = meta /\ registry[meta] = "revoked"

\* One file alone is on its way out, or the metadata of PairWhole's exception.
Whole ==
  (\A e \in Enrollers : pc[e] \in Idle) =>
    \/ token = meta
    \/ token = None /\ ((\E a \in Actors : pc[a] = "dropMeta") \/ Leftover)

PairInv == Roles /\ Alone /\ Enrolling /\ Dropping /\ Reading /\ Whole

LEMMA PairInit == Init => PairInv
<1> SUFFICES ASSUME Init PROVE PairInv
  OBVIOUS
<1>1. Roles
  BY ActorsAssumption DEF Init, Roles, Actors, Commands, Labels
<1>2. Alone /\ Dropping /\ Whole
  BY DEF Init, Alone, Dropping, Whole, Idle
<1>0. \A a \in Actors : pc[a] \in {"idle", "stopped"}
  BY DEF Init
<1>3. Enrolling
  BY <1>0 DEF Enrolling, Actors, Commands
<1>4. Reading
  BY <1>0 DEF Reading, Idle
<1> QED
  BY <1>1, <1>2, <1>3, <1>4 DEF PairInv

\* A step of a process that does not enroll, and leaves the files alone.
LEMMA ReaderStep ==
  ASSUME IInv, PairInv, NEW a \in Actors \ Enrollers, NEW l \in Labels \ {"saveToken", "saveMeta", "verify", "dropMeta"},
         pc[a] # "dropMeta", pc' = [pc EXCEPT ![a] = l], l \notin Idle => pc[a] \notin Idle,
         UNCHANGED <<token, meta, have>>,
         \A b \in Actors \ {a} : about'[b] = about[b],
         \A p \in Probes \ {a} : answer'[p] = answer[p],
         a \in Probes => answer'[a] = answer[a] \/ answer[a] = "none",
         \A t \in Tokens : registry[t] = "revoked" => registry'[t] = "revoked",
         l = "run" => about'[a] = have[a],
         l \in {"idle", "loadMeta", "run"} /\ a \in Probes => answer'[a] = "none",
         l \in {"stopping", "purgeUnreported"} => a \in Probes /\ answer'[a] \in {"online", "offline"},
         l = "purgeUnreported" => registry'[have[a]] = "revoked"
  PROVE  PairInv'
<1>0. /\ pc \in [Actors -> Labels] /\ meta \in Tokens \cup {None}
      /\ pc'[a] = l /\ \A b \in Actors \ {a} : pc'[b] = pc[b]
  BY DEF IInv, TypeOK
<1>1. Roles'
  BY <1>0 DEF PairInv, Roles, Actors, Commands
<1>2. Alone'
  BY <1>0 DEF PairInv, Alone
<1>3. Enrolling'
  <2>1. \A e \in Enrollers : e \in Actors \ {a}
    BY DEF Actors, Commands
  <2> QED
    BY <1>0, <2>1 DEF PairInv, Enrolling
<1>4. Dropping'
  BY <1>0 DEF PairInv, Dropping
<1>5. Reading'
  <2> SUFFICES ASSUME NEW b \in Actors \ Enrollers
               PROVE  /\ pc'[b] \notin Idle /\ have[b] # None => token \in {None, have[b]} /\ meta \in {None, have[b]}
                      /\ pc'[b] = "run" => about'[b] = have[b]
                      /\ pc'[b] \in {"stopping", "purgeUnreported"} => answer'[b] \in {"online", "offline"}
                      /\ pc'[b] = "purgeUnreported" => registry'[have[b]] = "revoked"
    BY DEF Reading
  <2>1. CASE b = a
    BY <1>0, <2>1 DEF PairInv, Reading
  <2>2. CASE b # a
    <3>1. pc'[b] = pc[b] /\ about'[b] = about[b] /\ (pc[b] = "purgeUnreported" => have[b] \in Tokens)
      BY <1>0, <2>2 DEF IInv, Holds, Holding
    <3>2. pc[b] \in {"stopping", "purgeUnreported"} => answer'[b] = answer[b]
      BY <2>2 DEF PairInv, Roles
    <3> QED
      BY <3>1, <3>2 DEF PairInv, Reading
  <2> QED
    BY <2>1, <2>2
<1>6. Whole'
  <2> SUFFICES ASSUME \A e \in Enrollers : pc'[e] \in Idle, token # meta
               PROVE  token = None /\ ((\E b \in Actors : pc'[b] = "dropMeta") \/ Leftover')
    BY DEF Whole
  <2>1. token = None /\ ((\E b \in Actors : pc[b] = "dropMeta") \/ Leftover)
    BY <1>0 DEF PairInv, Whole, Actors, Commands
  <2>2. ASSUME NEW b \in Actors, pc[b] = "dropMeta" PROVE pc'[b] = "dropMeta"
    BY <1>0, <2>2
  <2>3. ASSUME NEW p \in Probes, answer[p] \in {"online", "offline"}, have[p] = meta, registry[meta] = "revoked"
        PROVE  Leftover'
    <3>1. answer'[p] = answer[p]
      BY <2>3
    <3>2. registry'[meta] = "revoked"
      BY <1>0, <2>1, <2>3
    <3> QED
      BY <2>3, <3>1, <3>2 DEF Leftover
  <2> QED
    BY <2>1, <2>2, <2>3 DEF Leftover
<1> QED
  BY <1>1, <1>2, <1>3, <1>4, <1>5, <1>6 DEF PairInv

LEMMA EnrollersRest ==
  ASSUME PairInv, NEW a \in Actors \ Enrollers, pc[a] \notin Idle
  PROVE  \A e \in Enrollers : pc[e] \in Idle
BY DEF PairInv, Alone

\* Reading the token file, nobody enrolling: what it holds is what agent.json
\* says, or agent.json is on its way out.
LEMMA ReaderLoads ==
  ASSUME IInv, PairInv, NEW a \in Actors \ Enrollers, \A e \in Enrollers : pc[e] \in Idle,
         pc[a] \in {"idle", "stopped"}, a \in Probes => pc[a] = "idle",
         NEW l \in {"done", "revoke", "loadMeta"}, l = "loadMeta" \/ a \notin Probes,
         pc' = [pc EXCEPT ![a] = l], LoadToken(a)
  PROVE  PairInv'
<1>0. /\ pc'[a] = l /\ \A b \in Actors \ {a} : pc'[b] = pc[b]
      /\ have'[a] = token /\ \A b \in Actors \ {a} : have'[b] = have[b]
      /\ UNCHANGED <<registry, token, meta, about, answer>>
  BY DEF IInv, TypeOK, LoadToken
<1>e. \A e \in Enrollers : e \in Actors \ {a} /\ pc'[e] = pc[e] /\ have'[e] = have[e]
  BY <1>0 DEF Actors, Commands
<1>1. Roles'
  BY <1>0 DEF PairInv, Roles, Labels, Actors, Commands
<1>2. Alone' /\ Enrolling'
  BY <1>0, <1>e DEF PairInv, Alone, Enrolling
<1>3. Dropping'
  BY <1>0 DEF PairInv, Dropping
<1>4. Reading'
  <2> SUFFICES ASSUME NEW b \in Actors \ Enrollers
               PROVE  /\ pc'[b] \notin Idle /\ have'[b] # None => token \in {None, have'[b]} /\ meta \in {None, have'[b]}
                      /\ pc'[b] = "run" => about[b] = have'[b]
                      /\ pc'[b] \in {"stopping", "purgeUnreported"} => answer[b] \in {"online", "offline"}
                      /\ pc'[b] = "purgeUnreported" => registry[have'[b]] = "revoked"
    BY <1>0 DEF Reading
  <2>1. CASE b = a
    BY <1>0, <2>1 DEF PairInv, Whole
  <2>2. CASE b # a
    BY <1>0, <2>2 DEF PairInv, Reading
  <2> QED
    BY <2>1, <2>2
<1>5. Whole'
  <2> SUFFICES ASSUME token # meta
               PROVE  token = None /\ ((\E b \in Actors : pc'[b] = "dropMeta") \/ Leftover')
    BY <1>0 DEF Whole
  <2>1. token = None /\ ((\E b \in Actors : pc[b] = "dropMeta") \/ Leftover)
    BY DEF PairInv, Whole
  <2>2. ASSUME NEW b \in Actors, pc[b] = "dropMeta" PROVE pc'[b] = "dropMeta"
    BY <1>0, <2>2
  <2>3. ASSUME NEW p \in Probes, answer[p] \in {"online", "offline"}, have[p] = meta, registry[meta] = "revoked"
        PROVE  Leftover'
    <3>1. p # a /\ p \in Actors
      BY <2>3 DEF PairInv, Roles, Actors, Commands
    <3> QED
      BY <1>0, <2>3, <3>1 DEF Leftover
  <2> QED
    BY <2>1, <2>2, <2>3 DEF Leftover
<1> QED
  BY <1>1, <1>2, <1>3, <1>4, <1>5 DEF PairInv

\* The two deletions, by whoever makes them.
LEMMA PurgeStep ==
  ASSUME IInv, PairInv, NEW a \in Actors, PurgeToken(a)
  PROVE  PairInv'
<1>1. PICK l \in {"dropMeta", "done"} :
        /\ pc' = [pc EXCEPT ![a] = l]
        /\ pc[a] = "purge" => l = "dropMeta"
        /\ pc[a] = "purgeUnreported" => l = "done"
  BY DEF PurgeToken, AfterPurge, Goto
<1>0. /\ pc[a] \in {"purge", "purgeUnreported"}
      /\ pc'[a] = l /\ \A b \in Actors \ {a} : pc'[b] = pc[b]
      /\ token' = None /\ UNCHANGED <<registry, meta, have, about, answer>>
  BY <1>1 DEF PurgeToken, IInv, TypeOK
<1>e. \A e \in Enrollers : e \in Actors /\ (e # a => pc[e] \in Idle /\ pc'[e] = pc[e])
  BY <1>0 DEF Actors, Commands, PairInv, Alone, Idle
<1>2. Roles'
  BY <1>0 DEF PairInv, Roles, Labels, Actors, Commands
<1>3. Alone'
  <2>1. a \in Enrollers => \A b \in Actors \ {a} : pc[b] \in Idle
    BY <1>0 DEF PairInv, Alone, Idle
  <2> QED
    BY <1>0, <1>e, <2>1 DEF Alone
<1>4. Enrolling'
  BY <1>0, <1>e DEF Enrolling, Idle
<1>5. Dropping'
  BY <1>0 DEF Dropping
<1>6. Reading'
  BY <1>0 DEF PairInv, Reading, Idle
<1>7. Whole'
  <2>1. CASE l = "dropMeta"
    BY <1>0, <2>1 DEF Whole
  <2>2. CASE l = "done"
    <3>1. /\ pc[a] = "purgeUnreported" /\ a \in Probes \ Enrollers
          /\ have[a] \in Tokens /\ answer[a] \in {"online", "offline"}
          /\ registry[have[a]] = "revoked" /\ meta \in {None, have[a]}
      BY <1>0, <1>1, <2>2, IdentityAssumption, ActorsAssumption
      DEF PairInv, Roles, Reading, Idle, IInv, Holds, Holding
    <3> QED
      BY <1>0, <3>1 DEF Whole, Leftover
  <2> QED
    BY <2>1, <2>2
<1> QED
  BY <1>2, <1>3, <1>4, <1>5, <1>6, <1>7 DEF PairInv

LEMMA DropStep ==
  ASSUME IInv, PairInv, NEW a \in Actors, DropMetadata(a)
  PROVE  PairInv'
<1>1. PICK l \in {"parked", "done"} :
        /\ pc' = [pc EXCEPT ![a] = l]
        /\ l = "parked" => a = Daemon
  BY DEF DropMetadata, Rest, Move, Goto
<1>0. /\ pc[a] = "dropMeta"
      /\ pc'[a] = l /\ \A b \in Actors \ {a} : pc'[b] = pc[b]
      /\ meta' = None /\ UNCHANGED <<registry, token, have, about, answer>>
  BY <1>1 DEF DropMetadata, Move, IInv, TypeOK
<1>t. token = None
  BY <1>0 DEF PairInv, Dropping
<1>e. \A e \in Enrollers : e \in Actors /\ (e # a => pc[e] \in Idle /\ pc'[e] = pc[e])
  BY <1>0 DEF Actors, Commands, PairInv, Alone, Idle
<1>2. Roles'
  BY <1>0, <1>1, ActorsAssumption DEF PairInv, Roles, Labels, Actors, Commands
<1>3. Alone'
  <2>1. a \in Enrollers => \A b \in Actors \ {a} : pc[b] \in Idle
    BY <1>0 DEF PairInv, Alone, Idle
  <2> QED
    BY <1>0, <1>e, <2>1 DEF Alone
<1>4. Enrolling'
  BY <1>0, <1>e DEF Enrolling, Idle
<1>5. Dropping' /\ Whole'
  BY <1>0, <1>t DEF Dropping, Whole
<1>6. Reading'
  BY <1>0, <1>t DEF PairInv, Reading, Idle
<1> QED
  BY <1>2, <1>3, <1>4, <1>5, <1>6 DEF PairInv

LEMMA RevokeStep ==
  ASSUME IInv, PairInv, NEW t \in Tokens, ServerRevokes(t)
  PROVE  PairInv'
<1>1. UNCHANGED <<token, meta, pc, have, about, answer>>
  BY DEF ServerRevokes
<1>2. \A u : registry[u] = "revoked" => registry'[u] = "revoked"
  BY DEF ServerRevokes, IInv, TypeOK
<1>3. Roles' /\ Alone' /\ Enrolling' /\ Dropping'
  BY <1>1 DEF PairInv, Roles, Alone, Enrolling, Dropping
<1>4. Reading'
  BY <1>1, <1>2 DEF PairInv, Reading
<1>5. Whole'
  BY <1>1, <1>2 DEF PairInv, Whole, Leftover
<1> QED
  BY <1>3, <1>4, <1>5 DEF PairInv

\* An enrolling process: the others are at rest.
LEMMA EnrollerStep ==
  ASSUME IInv, PairInv, Exclusive, NEW e \in Enrollers,
         Issue(e) \/ SaveToken(e) \/ SaveMetadata(e) \/ VerifyKeeps(e) \/ VerifyPurges(e)
  PROVE  PairInv'
<1>1. e \in Actors /\ (\A b \in Enrollers : b \in Actors) /\ \A p \in Probes : p # e
  BY ActorsAssumption DEF Actors, Commands
<1>2. PICK l \in {"saveToken", "saveMeta", "verify", "purge", "done"} : pc' = [pc EXCEPT ![e] = l]
  BY DEF Issue, SaveToken, SaveMetadata, VerifyKeeps, VerifyPurges, Move, Goto
<1>3. pc'[e] = l /\ \A b \in Actors \ {e} : pc'[b] = pc[b] /\ pc[b] \in Idle
  <2>1. \A b \in Actors \ {e} : pc[b] \in Idle
    BY <1>1 DEF Issue, MayBegin, SaveToken, SaveMetadata, VerifyKeeps, VerifyPurges, Move, PairInv, Alone, Idle
  <2> QED
    BY <1>1, <1>2, <2>1 DEF IInv, TypeOK
<1>4. answer' = answer
  BY DEF Issue, SaveToken, SaveMetadata, VerifyKeeps, VerifyPurges
<1>5. Roles'
  BY <1>1, <1>3, <1>4 DEF PairInv, Roles, Idle, Labels, Actors, Commands
<1>6. Alone'
  BY <1>1, <1>3 DEF Alone, Idle
<1>7. Dropping'
  BY <1>1, <1>3 DEF Dropping, Idle
<1>8. Reading'
  <2> SUFFICES ASSUME NEW b \in Actors \ Enrollers PROVE pc'[b] \in Idle
    BY DEF Reading, Idle
  <2> QED
    BY <1>3
<1>9. Enrolling'
  <2> SUFFICES /\ l \in {"saveToken", "saveMeta"} => about'[e] = have'[e]
               /\ l \in {"saveMeta", "verify", "purge"} => token' = have'[e]
               /\ l \in {"verify", "purge"} => meta' = have'[e]
    BY <1>1, <1>3 DEF Enrolling, Idle
  <2> USE <1>1, <1>2, <1>3 DEF IInv, TypeOK, PairInv, Enrolling
  <2>1. CASE Issue(e)
    BY <2>1 DEF Issue, Move, Goto
  <2>2. CASE SaveToken(e)
    BY <2>2 DEF SaveToken, Move, Goto
  <2>3. CASE SaveMetadata(e)
    BY <2>3 DEF SaveMetadata, Move, Goto
  <2>4. CASE VerifyKeeps(e) \/ VerifyPurges(e)
    BY <2>4 DEF VerifyKeeps, VerifyPurges, Move, Goto
  <2> QED
    BY <2>1, <2>2, <2>3, <2>4
<1>10. Whole'
  <2>1. CASE VerifyKeeps(e)
    BY <2>1 DEF VerifyKeeps, Move, PairInv, Enrolling, Whole
  <2>2. CASE ~VerifyKeeps(e)
    <3>1. l # "done"
      BY <1>1, <1>2, <2>2 DEF Issue, SaveToken, SaveMetadata, VerifyPurges, Move, Goto, IInv, TypeOK
    <3> QED
      BY <1>3, <3>1 DEF Whole, Idle
  <2> QED
    BY <2>1, <2>2
<1> QED
  BY <1>5, <1>6, <1>7, <1>8, <1>9, <1>10 DEF PairInv

LEMMA StatusSteps ==
  ASSUME IInv, PairInv, NEW p \in Probes,
         \/ StatusLoadsMetadata(p) \/ StatusRejected(p) \/ StatusOnline(p) \/ StatusStopped(p)
         \/ StatusStoppedTooLate(p) \/ StatusOffline(p) \/ StatusTimesOut(p)
  PROVE  PairInv'
<1> DEFINE Step(l) ==
      /\ pc[p] \notin Idle \cup {"dropMeta"} /\ pc' = [pc EXCEPT ![p] = l]
      /\ UNCHANGED <<registry, token, meta, have>>
      /\ \A b \in Actors \ {p} : about'[b] = about[b]
      /\ \A q \in Probes \ {p} : answer'[q] = answer[q]
      /\ answer'[p] = answer[p] \/ answer[p] = "none"
<1>0. p \in Actors \ Enrollers
  BY ActorsAssumption DEF Actors, Commands
<1>1. ASSUME NEW l \in {"done", "run", "purge", "stopping", "purgeUnreported"}, Step(l),
             l = "run" => about'[p] = have[p] /\ answer'[p] = "none",
             l \in {"stopping", "purgeUnreported"} => answer'[p] \in {"online", "offline"},
             l = "purgeUnreported" => registry[have[p]] = "revoked"
      PROVE  PairInv'
  BY <1>0, <1>1, ReaderStep DEF Labels
<1> USE <1>0 DEF Move, Goto, Idle, IInv, TypeOK
<1>n. pc[p] \in {"loadMeta", "run"} => answer[p] = "none"
  BY DEF PairInv, Roles
<1>2. CASE StatusLoadsMetadata(p)
  <2>1. have[p] = None \/ meta = None \/ meta = have[p]
    BY <1>2 DEF StatusLoadsMetadata, PairInv, Reading
  <2>2. PICK l \in {"done", "run"} : pc' = [pc EXCEPT ![p] = l] /\ (l = "run" => have[p] # None /\ meta # None)
    BY <1>2 DEF StatusLoadsMetadata
  <2>3. Step(l)
    BY <1>2, <2>2 DEF StatusLoadsMetadata, LoadMetadata
  <2>4. l = "run" => about'[p] = have[p] /\ answer'[p] = "none"
    BY <1>2, <1>n, <2>1, <2>2 DEF StatusLoadsMetadata, LoadMetadata
  <2> QED
    BY <1>1, <2>3, <2>4
<1>3. CASE StatusRejected(p)
  <2>1. Step("purge")
    BY <1>3, <1>n DEF StatusRejected
  <2> QED
    BY <1>1, <2>1
<1>4. CASE StatusOnline(p) \/ StatusTimesOut(p)
  <2>1. Step("stopping") /\ answer'[p] \in {"online", "offline"}
    BY <1>4, <1>n DEF StatusOnline, StatusTimesOut
  <2> QED
    BY <1>1, <2>1
<1>5. CASE StatusStopped(p) \/ StatusOffline(p)
  <2>1. Step("done")
    BY <1>5, <1>n DEF StatusStopped, StatusOffline
  <2> QED
    BY <1>1, <2>1
<1>6. CASE StatusStoppedTooLate(p)
  <2>1. Step("purgeUnreported") /\ answer'[p] \in {"online", "offline"} /\ registry[have[p]] = "revoked"
    BY <1>6 DEF StatusStoppedTooLate, Rejectable, PairInv, Reading
  <2> QED
    BY <1>1, <2>1
<1> QED
  BY <1>2, <1>3, <1>4, <1>5, <1>6

LEMMA LogoutSteps ==
  ASSUME IInv, PairInv, NEW a \in Actors \ Enrollers, LogoutRevokes(a) \/ LogoutUnheard(a)
  PROVE  PairInv'
<1>1. /\ pc[a] = "revoke" /\ pc' = [pc EXCEPT ![a] = "purge"]
      /\ UNCHANGED <<token, meta, have, about, answer>>
  BY DEF LogoutRevokes, LogoutUnheard, Move, Goto
<1>2. \A t \in Tokens : registry[t] = "revoked" => registry'[t] = "revoked"
  BY DEF LogoutRevokes, LogoutUnheard, IInv, TypeOK
<1> QED
  BY <1>1, <1>2, ReaderStep DEF Labels, Idle

LEMMA DaemonSteps ==
  ASSUME IInv, PairInv, DaemonStep
  PROVE  PairInv'
<1> DEFINE Step(l) ==
      /\ pc' = [pc EXCEPT ![Daemon] = l]
      /\ UNCHANGED <<registry, token, meta, have, answer>>
      /\ \A b \in Actors \ {Daemon} : about'[b] = about[b]
<1>0. Daemon \in Actors \ Enrollers /\ Daemon \notin Probes
  BY ActorsAssumption DEF Actors, Commands
<1>1. ASSUME NEW l \in {"parked", "stopped", "run", "purge"}, Step(l), pc[Daemon] # "dropMeta",
             l \notin Idle => pc[Daemon] \notin Idle, l = "run" => about'[Daemon] = have[Daemon]
      PROVE  PairInv'
  BY <1>0, <1>1, ReaderStep DEF Labels
<1> USE <1>0 DEF Move, Goto, Idle, IInv, TypeOK
<1>2. CASE DaemonLoadsMetadata
  <2>1. have[Daemon] = None \/ meta = None \/ meta = have[Daemon]
    BY <1>2 DEF DaemonLoadsMetadata, PairInv, Reading
  <2>2. PICK l \in {"parked", "run"} :
          pc' = [pc EXCEPT ![Daemon] = l] /\ (l = "run" => have[Daemon] # None /\ meta # None)
    BY <1>2 DEF DaemonLoadsMetadata
  <2>3. Step(l) /\ pc[Daemon] = "loadMeta"
    BY <1>2, <2>2 DEF DaemonLoadsMetadata, LoadMetadata
  <2>4. l = "run" => about'[Daemon] = have[Daemon]
    BY <1>2, <2>1, <2>2 DEF DaemonLoadsMetadata, LoadMetadata
  <2> QED
    BY <1>1, <2>3, <2>4
<1>3. CASE DaemonRejected
  BY <1>1, <1>3 DEF DaemonRejected
<1>4. CASE DaemonRefused
  BY <1>1, <1>4 DEF DaemonRefused
<1>5. CASE DaemonStops
  BY <1>1, <1>5 DEF DaemonStops
<1> QED
  BY <1>2, <1>3, <1>4, <1>5 DEF DaemonStep

LEMMA BeginStep ==
  ASSUME IInv, PairInv, Exclusive, NEW c \in Commands, Begin(c)
  PROVE  PairInv'
<1>1. CASE Issue(c)
  BY <1>1, EnrollerStep DEF Issue
<1>2. CASE LogoutLoads(c)
  <2>1. c \in Actors \ Enrollers /\ c \notin Probes
    BY <1>2, ActorsAssumption DEF LogoutLoads, Actors, Commands
  <2>2. \A e \in Enrollers : pc[e] \in Idle
    BY <1>2 DEF LogoutLoads, MayBegin
  <2>3. PICK l \in {"done", "revoke"} : pc' = [pc EXCEPT ![c] = l]
    BY <1>2 DEF LogoutLoads, Move, Goto
  <2> QED
    BY <1>2, <2>1, <2>2, <2>3, ReaderLoads DEF LogoutLoads, Move
<1>3. CASE StatusLoadsToken(c)
  <2>1. c \in Actors \ Enrollers
    BY <1>3, ActorsAssumption DEF StatusLoadsToken, Actors, Commands
  <2> QED
    BY <1>3, <2>1, ReaderLoads DEF StatusLoadsToken, MayBegin, Move, Goto
<1> QED
  BY <1>1, <1>2, <1>3 DEF Begin

LEMMA PairNext ==
  ASSUME Exclusive, ~Faults
  PROVE  IInv /\ PairInv /\ [Next]_vars => PairInv'
<1> SUFFICES ASSUME IInv, PairInv, [Next]_vars PROVE PairInv'
  OBVIOUS
<1>1. ASSUME NEW c \in Commands, Begin(c) PROVE PairInv'
  BY <1>1, BeginStep
<1>2. CASE DaemonStarts
  <2>1. Daemon \in Actors \ Enrollers /\ Daemon \notin Probes
    BY ActorsAssumption DEF Actors, Commands
  <2> QED
    BY <1>2, <2>1, ReaderLoads DEF DaemonStarts, MayBegin, Move, Goto
<1>3. CASE DaemonStep
  BY <1>3, DaemonSteps
<1>4. ASSUME NEW a \in Actors, ActorStep(a) PROVE PairInv'
  <2>1. CASE SaveToken(a) \/ SaveMetadata(a) \/ VerifyKeeps(a) \/ VerifyPurges(a)
    <3>1. a \in Enrollers
      BY <2>1 DEF SaveToken, SaveMetadata, VerifyKeeps, VerifyPurges, Move, PairInv, Roles
    <3> QED
      BY <2>1, <3>1, EnrollerStep
  <2>2. CASE LogoutRevokes(a) \/ LogoutUnheard(a)
    <3>1. a \notin Enrollers
      BY <2>2 DEF LogoutRevokes, LogoutUnheard, Move, PairInv, Roles
    <3> QED
      BY <2>2, <3>1, LogoutSteps
  <2>3. CASE \/ StatusLoadsMetadata(a) \/ StatusRejected(a) \/ StatusOnline(a) \/ StatusStopped(a)
             \/ StatusStoppedTooLate(a) \/ StatusOffline(a) \/ StatusTimesOut(a)
    <3>1. a \in Probes
      BY <2>3 DEF StatusLoadsMetadata, StatusRejected, StatusOnline, StatusStopped,
                  StatusStoppedTooLate, StatusOffline, StatusTimesOut, Move, PairInv, Roles
    <3> QED
      BY <2>3, <3>1, StatusSteps
  <2>4. CASE PurgeToken(a) \/ DropMetadata(a)
    BY <2>4, PurgeStep, DropStep
  <2> QED
    BY <1>4, <2>1, <2>2, <2>3, <2>4 DEF ActorStep
<1>5. ASSUME NEW a \in Actors, Fault(a) PROVE FALSE
  BY <1>5 DEF Fault, SaveFails, PurgeFails, DropFails, LoadFails, Killed
<1>6. ASSUME NEW t \in Tokens, ServerRevokes(t) PROVE PairInv'
  BY <1>6, RevokeStep
<1>7. CASE UNCHANGED vars
  BY <1>7 DEF vars, PairInv, Roles, Alone, Enrolling, Dropping, Reading, Whole, Leftover
<1> QED
  BY <1>1, <1>2, <1>3, <1>4, <1>5, <1>6, <1>7 DEF Next

\* So does the one about the pair of files, when enrolling is exclusive.
LEMMA PairInvHolds ==
  ASSUME Exclusive, ~Faults
  PROVE  Spec => [](IInv /\ PairInv)
<1>1. Init => IInv /\ PairInv
  BY InvInit, PairInit
<1>2. IInv /\ PairInv /\ [Next]_vars => IInv' /\ PairInv'
  BY InvNext, PairNext
<1> QED
  BY <1>1, <1>2, PTL DEF Spec

\* The token and the agent_id of a running client were issued together.
THEOREM ClientPairsMatch ==
  ASSUME Exclusive, ~Faults
  PROVE  Spec => []ClientPairMatches
<1>1. PairInv => ClientPairMatches
  <2> SUFFICES ASSUME PairInv, NEW a \in Probes \cup {Daemon}, pc[a] = "run" PROVE have[a] = about[a]
    BY DEF ClientPairMatches
  <2>1. a \in Actors \ Enrollers
    BY ActorsAssumption DEF Actors, Commands
  <2> QED
    BY <2>1 DEF PairInv, Reading
<1> QED
  BY <1>1, PairInvHolds, PTL

\* Between commands both files are of one identity, or both are gone.
THEOREM PairsAreWhole ==
  ASSUME Exclusive, ~Faults
  PROVE  Spec => []PairWhole
<1>1. PairInv => PairWhole
  <2> SUFFICES ASSUME PairInv, \A a \in Actors : pc[a] \in Idle \cup {"run"}, token # meta
               PROVE  token = None /\ Leftover
    BY DEF PairWhole, Leftover
  <2>1. \A e \in Enrollers : pc[e] \in Idle
    BY DEF PairInv, Roles, Actors, Commands, Idle
  <2> QED
    BY <2>1 DEF PairInv, Whole, Idle
<1> QED
  BY <1>1, PairInvHolds, PTL

-----------------------------------------------------------------------------
(* Whose step it is.                                                       *)

\* Nobody else moves a process or writes to its memory.
LEMMA OthersLeave ==
  ASSUME IInv, [Next]_vars, NEW b \in Actors
  PROVE  \/ UNCHANGED <<pc[b], have[b], about[b]>>
         \/ b = Daemon /\ (DaemonStarts \/ DaemonStep)
         \/ b \in Commands /\ Begin(b)
         \/ ActorStep(b) \/ Fault(b)
<1> DEFINE Still == UNCHANGED <<pc[b], have[b], about[b]>>
<1>0. ASSUME NEW a \in Actors, a # b,
             \E l : pc' = [pc EXCEPT ![a] = l],
             have' = have \/ \E t : have' = [have EXCEPT ![a] = t],
             about' = about \/ \E t : about' = [about EXCEPT ![a] = t]
      PROVE  Still
  <2>1. /\ pc \in [Actors -> Labels]
        /\ have \in [Actors -> Tokens \cup {None}] /\ about \in [Actors -> Tokens \cup {None}]
    BY DEF IInv, TypeOK
  <2>2. pc'[b] = pc[b]
    BY <1>0, <2>1
  <2>3. have'[b] = have[b]
    BY <1>0, <2>1
  <2>4. about'[b] = about[b]
    BY <1>0, <2>1
  <2> QED
    BY <2>2, <2>3, <2>4
<1> USE DEF Move, Goto
<1>1. ASSUME NEW c \in Commands, c # b, Begin(c) PROVE Still
  <2>1. c \in Actors
    BY DEF Actors
  <2>2. /\ \E l : pc' = [pc EXCEPT ![c] = l]
        /\ \E t : have' = [have EXCEPT ![c] = t]
        /\ about' = about \/ \E t : about' = [about EXCEPT ![c] = t]
    BY <1>1, Zenon DEF Begin, Issue, LogoutLoads, StatusLoadsToken, LoadToken
  <2> QED
    BY <1>0, <1>1, <2>1, <2>2
<1>2. ASSUME NEW a \in Actors \ {b}, ActorStep(a) PROVE Still
  <2>1. CASE StatusLoadsMetadata(a)
    BY <1>0, <2>1, Zenon DEF StatusLoadsMetadata, LoadMetadata
  <2>2. CASE SaveToken(a) \/ SaveMetadata(a) \/ VerifyKeeps(a) \/ VerifyPurges(a) \/ LogoutRevokes(a) \/ LogoutUnheard(a)
    BY <1>0, <2>2, Zenon DEF SaveToken, SaveMetadata, VerifyKeeps, VerifyPurges, LogoutRevokes, LogoutUnheard
  <2>3. CASE StatusRejected(a) \/ StatusOnline(a) \/ StatusStopped(a) \/ StatusStoppedTooLate(a) \/ StatusOffline(a) \/ StatusTimesOut(a)
    BY <1>0, <2>3, Zenon DEF StatusRejected, StatusOnline, StatusStopped, StatusStoppedTooLate, StatusOffline, StatusTimesOut
  <2>4. CASE PurgeToken(a) \/ DropMetadata(a)
    BY <1>0, <2>4, Zenon DEF PurgeToken, DropMetadata
  <2> QED
    BY <1>2, <2>1, <2>2, <2>3, <2>4 DEF ActorStep
<1>3. ASSUME NEW a \in Actors \ {b}, Fault(a) PROVE Still
  BY <1>0, <1>3, Zenon DEF Fault, SaveFails, PurgeFails, DropFails, LoadFails, Killed
<1>4. ASSUME b # Daemon, DaemonStarts \/ DaemonStep PROVE Still
  <2>1. Daemon \in Actors
    BY DEF Actors
  <2> QED
    BY <1>0, <1>4, <2>1, Zenon DEF DaemonStarts, DaemonStep, DaemonLoadsMetadata, DaemonRejected, DaemonRefused,
       DaemonStops, LoadToken, LoadMetadata
<1>5. ASSUME NEW u \in Tokens, ServerRevokes(u) PROVE Still
  BY <1>5, Zenon DEF ServerRevokes
<1>6. CASE UNCHANGED vars
  BY <1>6, Zenon DEF vars
<1> QED
  BY <1>1, <1>2, <1>3, <1>4, <1>5, <1>6 DEF Next

-----------------------------------------------------------------------------
(* Who may purge.                                                          *)

\* A revoked token stays revoked.
LEMMA RevokedForGood ==
  ASSUME IInv, [Next]_vars, NEW t \in Tokens, registry[t] = "revoked"
  PROVE  registry'[t] = "revoked"
<1>1. ASSUME NEW c \in Commands, Begin(c) PROVE registry'[t] = "revoked"
  BY <1>1 DEF Begin, Issue, LogoutLoads, StatusLoadsToken, LoadToken, IInv, TypeOK
<1>2. ASSUME NEW a \in Actors, ActorStep(a) \/ Fault(a) PROVE registry'[t] = "revoked"
  <2>1. CASE LogoutRevokes(a)
    BY <2>1 DEF LogoutRevokes, IInv, TypeOK
  <2>2. CASE ~LogoutRevokes(a)
    <3>1. registry' = registry
      BY <1>2, <2>2 DEF ActorStep, Fault, SaveToken, SaveMetadata, VerifyKeeps, VerifyPurges, LogoutUnheard,
         StatusLoadsMetadata, LoadMetadata, StatusRejected, StatusOnline, StatusStopped, StatusStoppedTooLate,
         StatusOffline, StatusTimesOut, PurgeToken, DropMetadata, SaveFails, PurgeFails, DropFails, LoadFails, Killed
    <3> QED
      BY <3>1
  <2> QED
    BY <2>1, <2>2
<1>3. CASE DaemonStarts \/ DaemonStep
  BY <1>3 DEF DaemonStarts, LoadToken, DaemonStep, DaemonLoadsMetadata, LoadMetadata, DaemonRejected, DaemonRefused, DaemonStops
<1>4. ASSUME NEW u \in Tokens, ServerRevokes(u) PROVE registry'[t] = "revoked"
  BY <1>4 DEF ServerRevokes, IInv, TypeOK
<1>5. CASE UNCHANGED vars
  BY <1>5 DEF vars
<1> QED
  BY <1>1, <1>2, <1>3, <1>4, <1>5 DEF Next

Purging(a) == pc[a] \in {"purge", "purgeUnreported"}

\* Only `logout` asks the server to revoke.
Revokers == \A a \in Actors : pc[a] = "revoke" => a \in Logouts

LEMMA RevokersStep == IInv /\ Revokers /\ [Next]_vars => Revokers'
<1> SUFFICES ASSUME IInv, Revokers, [Next]_vars, NEW a \in Actors, pc'[a] = "revoke" PROVE a \in Logouts
  BY DEF Revokers
<1> USE DEF Revokers, Move, Goto, IInv, TypeOK
<1>1. ASSUME NEW c \in Commands, Begin(c) PROVE a \in Logouts
  BY <1>1 DEF Begin, Issue, LogoutLoads, StatusLoadsToken, Actors
<1>2. CASE DaemonStarts \/ DaemonStep
  BY <1>2 DEF DaemonStarts, DaemonStep, DaemonLoadsMetadata, DaemonRejected, DaemonRefused, DaemonStops, Actors
<1>3. ASSUME NEW b \in Actors, ActorStep(b) PROVE a \in Logouts
  BY <1>3 DEF ActorStep, SaveToken, SaveMetadata, VerifyKeeps, VerifyPurges, LogoutRevokes, LogoutUnheard,
     StatusLoadsMetadata, StatusRejected, StatusOnline, StatusStopped, StatusStoppedTooLate, StatusOffline,
     StatusTimesOut, PurgeToken, DropMetadata, AfterPurge, Rest
<1>4. ASSUME NEW b \in Actors, Fault(b) PROVE a \in Logouts
  BY <1>4 DEF Fault, SaveFails, PurgeFails, DropFails, LoadFails, Killed, AfterPurge, Rest
<1>5. ASSUME NEW t \in Tokens, ServerRevokes(t) PROVE a \in Logouts
  BY <1>5 DEF ServerRevokes
<1>6. CASE UNCHANGED vars
  BY <1>6 DEF vars
<1> QED
  BY <1>1, <1>2, <1>3, <1>4, <1>5, <1>6 DEF Next

\* The daemon and `status` only purge for a token the server has revoked.
Deserved == \A a \in Probes \cup {Daemon} : Purging(a) => registry[have[a]] = "revoked"

\* Only a rejection takes the daemon or a `status` run to its purge, and what it
\* holds does not change on the way.
LEMMA PurgeBegins ==
  ASSUME IInv, Revokers, [Next]_vars, NEW a \in Probes \cup {Daemon}, Purging(a)'
  PROVE  /\ have'[a] = have[a]
         /\ Purging(a) \/ (Rejectable(a) /\ registry' = registry)
<1> USE DEF Purging, Move, Goto, IInv, TypeOK
<1>0. a \in Actors /\ a \notin Enrollers /\ a \notin Logouts
  BY ActorsAssumption DEF Actors, Commands
<1>1. ASSUME NEW c \in Commands, Begin(c)
      PROVE  have'[a] = have[a] /\ Purging(a)
  BY <1>0, <1>1 DEF Begin, Issue, LogoutLoads, StatusLoadsToken, LoadToken, Actors, Commands
<1>2. CASE DaemonStarts
  BY <1>0, <1>2 DEF DaemonStarts, LoadToken
<1>3. CASE DaemonStep
  BY <1>0, <1>3 DEF DaemonStep, DaemonLoadsMetadata, LoadMetadata, DaemonRejected, DaemonRefused, DaemonStops
<1>4. ASSUME NEW b \in Actors, ActorStep(b)
      PROVE  have'[a] = have[a] /\ (Purging(a) \/ (Rejectable(a) /\ registry' = registry))
  <2>1. have'[a] = have[a]
    BY <1>4 DEF ActorStep, SaveToken, SaveMetadata, VerifyKeeps, VerifyPurges, LogoutRevokes, LogoutUnheard,
       StatusLoadsMetadata, LoadMetadata, StatusRejected, StatusOnline, StatusStopped, StatusStoppedTooLate,
       StatusOffline, StatusTimesOut, PurgeToken, DropMetadata
  <2>2. CASE SaveToken(b) \/ SaveMetadata(b) \/ VerifyKeeps(b) \/ StatusLoadsMetadata(b)
    <3>1. PICK l \in {"saveMeta", "verify", "done", "run"} : pc' = [pc EXCEPT ![b] = l]
      BY <2>2, Zenon DEF SaveToken, SaveMetadata, VerifyKeeps, StatusLoadsMetadata
    <3>2. pc'[b] = l /\ (a # b => pc'[a] = pc[a])
      BY <1>0, <3>1
    <3>3. a # b
      BY <3>2
    <3>4. Purging(a)
      BY <3>2, <3>3, Zenon
    <3> QED
      BY <2>1, <3>4, Zenon
  <2>3. CASE VerifyPurges(b)
    BY <1>0, <2>3 DEF VerifyPurges
  <2>4. CASE LogoutRevokes(b) \/ LogoutUnheard(b)
    <3>1. pc[b] = "revoke" /\ pc' = [pc EXCEPT ![b] = "purge"]
      BY <2>4 DEF LogoutRevokes, LogoutUnheard
    <3>2. b \in Logouts
      BY <3>1 DEF Revokers
    <3> QED
      BY <1>0, <2>1, <3>1, <3>2
  <2>5. CASE StatusRejected(b) \/ StatusStoppedTooLate(b)
    BY <1>0, <2>5 DEF StatusRejected, StatusStoppedTooLate
  <2>6. CASE StatusOnline(b) \/ StatusStopped(b) \/ StatusOffline(b) \/ StatusTimesOut(b)
    BY <1>0, <2>6 DEF StatusOnline, StatusStopped, StatusOffline, StatusTimesOut
  <2>7. CASE PurgeToken(b) \/ DropMetadata(b)
    BY <1>0, <2>7 DEF PurgeToken, DropMetadata, AfterPurge, Rest
  <2> QED
    BY <1>4, <2>1, <2>2, <2>3, <2>4, <2>5, <2>6, <2>7 DEF ActorStep
<1>5. ASSUME NEW b \in Actors, Fault(b)
      PROVE  have'[a] = have[a] /\ Purging(a)
  BY <1>0, <1>5 DEF Fault, SaveFails, PurgeFails, DropFails, LoadFails, Killed, AfterPurge, Rest
<1>6. ASSUME NEW t \in Tokens, ServerRevokes(t)
      PROVE  have'[a] = have[a] /\ Purging(a)
  BY <1>6 DEF ServerRevokes
<1>7. CASE UNCHANGED vars
  BY <1>7 DEF vars
<1> QED
  BY <1>1, <1>2, <1>3, <1>4, <1>5, <1>6, <1>7 DEF Next

LEMMA DeservedHolds == Spec => [](Revokers /\ Deserved)
<1>1. Init => Revokers /\ Deserved
  BY DEF Init, Revokers, Deserved, Purging, Actors, Commands
<1>2. IInv /\ Revokers /\ Deserved /\ [Next]_vars => (Revokers /\ Deserved)'
  <2> SUFFICES ASSUME IInv, Revokers, Deserved, [Next]_vars, NEW a \in Probes \cup {Daemon}, Purging(a)'
               PROVE  registry'[have'[a]] = "revoked"
    BY RevokersStep DEF Deserved
  <2>1. have'[a] = have[a] /\ (Purging(a) \/ (Rejectable(a) /\ registry' = registry))
    BY PurgeBegins
  <2>2. CASE Purging(a)
    <3>1. have[a] \in Tokens
      BY <2>2 DEF IInv, Holds, Holding, Purging, Actors, Commands
    <3>2. registry[have[a]] = "revoked"
      BY <2>2 DEF Deserved
    <3> QED
      BY <2>1, <3>1, <3>2, RevokedForGood
  <2>3. CASE Rejectable(a) /\ registry' = registry
    BY <2>1, <2>3 DEF Rejectable
  <2> QED
    BY <2>1, <2>2, <2>3
<1> QED
  BY <1>1, <1>2, InvHolds, PTL DEF Spec

-----------------------------------------------------------------------------
(* An operator who enrolls alone finds on the disk the token he works with, *)
(* although file operations fail and processes are killed.                 *)

\* What each command may be at.
Sorts ==
  \A a \in Actors :
    /\ pc[a] = "saveToken" => a \in Enrollers
    /\ pc[a] \in {"stopping", "purgeUnreported"} => a \in Probes

\* An enrollment has just saved the token it holds; what any other process holds
\* is what the file holds, or held before it was deleted.
OnDisk ==
  /\ \A e \in Enrollers : pc[e] \in {"saveMeta", "verify", "purge"} => token = have[e]
  /\ \A a \in Actors \ Enrollers : pc[a] \notin Idle /\ have[a] # None => token \in {None, have[a]}

OwnInv == Sorts /\ Alone /\ OnDisk

\* A process begins, or keeps what it holds.
LEMMA Wakes ==
  ASSUME IInv, [Next]_vars, NEW b \in Actors
  PROVE  \/ /\ \A a \in Actors \ {b} : pc'[a] = pc[a]
            /\ MayBegin(b) /\ pc[b] \in Idle /\ token' = token
            /\ have'[b] = token \/ (b \in Enrollers /\ pc'[b] = "saveToken")
         \/ have'[b] = have[b] /\ (pc[b] \in Idle => pc'[b] \in Idle)
<1> USE DEF Move, Goto, IInv, TypeOK
<1>1. CASE UNCHANGED <<pc[b], have[b], about[b]>>
  BY <1>1
<1>2. CASE DaemonStarts /\ b = Daemon
  BY <1>2 DEF DaemonStarts, LoadToken, Idle
<1>3. CASE DaemonStep /\ b = Daemon
  BY <1>3 DEF DaemonStep, DaemonLoadsMetadata, LoadMetadata, DaemonRejected, DaemonRefused, DaemonStops, Idle
<1>4. CASE b \in Commands /\ Begin(b)
  BY <1>4 DEF Begin, Issue, LogoutLoads, StatusLoadsToken, LoadToken, Idle
<1>5. CASE ActorStep(b)
  <2>1. have' = have
    BY <1>5 DEF ActorStep, SaveToken, SaveMetadata, VerifyKeeps, VerifyPurges, LogoutRevokes, LogoutUnheard,
       StatusLoadsMetadata, LoadMetadata, StatusRejected, StatusOnline, StatusStopped, StatusStoppedTooLate,
       StatusOffline, StatusTimesOut, PurgeToken, DropMetadata
  <2>2. pc[b] \notin Idle
    BY <1>5 DEF ActorStep, SaveToken, SaveMetadata, VerifyKeeps, VerifyPurges, LogoutRevokes, LogoutUnheard,
       StatusLoadsMetadata, StatusRejected, StatusOnline, StatusStopped, StatusStoppedTooLate,
       StatusOffline, StatusTimesOut, PurgeToken, DropMetadata, Idle
  <2> QED
    BY <2>1, <2>2
<1>6. CASE Fault(b)
  BY <1>6 DEF Fault, SaveFails, PurgeFails, DropFails, LoadFails, Killed, Idle
<1> QED
  BY <1>1, <1>2, <1>3, <1>4, <1>5, <1>6, OthersLeave

\* Who writes to the token file.
LEMMA TokenMoves ==
  ASSUME [Next]_vars, token' # token
  PROVE  \E a \in Actors : SaveToken(a) \/ PurgeToken(a)
<1>1. ASSUME NEW c \in Commands, Begin(c) PROVE FALSE
  BY <1>1 DEF Begin, Issue, LogoutLoads, StatusLoadsToken, LoadToken
<1>2. ~DaemonStarts /\ ~DaemonStep
  BY DEF DaemonStarts, LoadToken, DaemonStep, DaemonLoadsMetadata, LoadMetadata, DaemonRejected, DaemonRefused, DaemonStops
<1>3. ASSUME NEW a \in Actors, Fault(a) PROVE FALSE
  BY <1>3 DEF Fault, SaveFails, PurgeFails, DropFails, LoadFails, Killed
<1>4. ASSUME NEW u \in Tokens, ServerRevokes(u) PROVE FALSE
  BY <1>4 DEF ServerRevokes
<1>5. ASSUME NEW a \in Actors, ActorStep(a) PROVE SaveToken(a) \/ PurgeToken(a)
  BY <1>5 DEF ActorStep, SaveMetadata, VerifyKeeps, VerifyPurges, LogoutRevokes, LogoutUnheard,
     StatusLoadsMetadata, LoadMetadata, StatusRejected, StatusOnline, StatusStopped, StatusStoppedTooLate,
     StatusOffline, StatusTimesOut, DropMetadata
<1>6. ~UNCHANGED vars
  BY DEF vars
<1> QED
  BY <1>1, <1>2, <1>3, <1>4, <1>5, <1>6 DEF Next

LEMMA SortsStep ==
  ASSUME IInv, Sorts, [Next]_vars
  PROVE  Sorts'
<1> SUFFICES ASSUME NEW a \in Actors
             PROVE  /\ pc'[a] = "saveToken" => a \in Enrollers
                    /\ pc'[a] \in {"stopping", "purgeUnreported"} => a \in Probes
  BY DEF Sorts
<1> USE DEF Move, Goto, IInv, TypeOK
<1>1. CASE UNCHANGED <<pc[a], have[a], about[a]>>
  BY <1>1 DEF Sorts
<1>2. CASE DaemonStarts \/ DaemonStep
  BY <1>2 DEF DaemonStarts, DaemonStep, DaemonLoadsMetadata, DaemonRejected, DaemonRefused, DaemonStops, Sorts
<1>3. CASE Begin(a)
  BY <1>3 DEF Begin, Issue, LogoutLoads, StatusLoadsToken
<1>4. CASE ActorStep(a)
  <2>1. CASE StatusOnline(a) \/ StatusTimesOut(a) \/ StatusStoppedTooLate(a)
    BY <2>1 DEF StatusOnline, StatusTimesOut, StatusStoppedTooLate, Sorts
  <2>2. CASE ~StatusOnline(a) /\ ~StatusTimesOut(a) /\ ~StatusStoppedTooLate(a)
    <3>1. PICK l \in Labels \ {"saveToken", "stopping", "purgeUnreported"} : pc' = [pc EXCEPT ![a] = l]
      BY <1>4, <2>2, Zenon DEF ActorStep, SaveToken, SaveMetadata, VerifyKeeps, VerifyPurges, LogoutRevokes, LogoutUnheard,
         StatusLoadsMetadata, StatusRejected, StatusStopped, StatusOffline, PurgeToken, AfterPurge, DropMetadata, Rest, Labels
    <3> QED
      BY <3>1
  <2> QED
    BY <2>1, <2>2
<1>5. CASE Fault(a)
  BY <1>5 DEF Fault, SaveFails, PurgeFails, DropFails, LoadFails, Killed, AfterPurge, Rest
<1> QED
  BY <1>1, <1>2, <1>3, <1>4, <1>5, OthersLeave

LEMMA AloneStep ==
  ASSUME Exclusive, IInv, Alone, [Next]_vars
  PROVE  Alone'
<1> SUFFICES ASSUME NEW e \in Enrollers, NEW b \in Actors \ {e}, pc'[e] \notin Idle, pc'[b] \notin Idle
             PROVE  FALSE
  BY DEF Alone
<1>0. e \in Actors
  BY DEF Actors, Commands
<1>1. CASE pc[e] \in Idle
  <2>1. pc'[b] = pc[b] /\ MayBegin(e)
    BY <1>0, <1>1, Wakes
  <2> QED
    BY <1>0, <2>1 DEF MayBegin
<1>2. CASE pc[e] \notin Idle
  <2>1. pc[b] \in Idle
    BY <1>2 DEF Alone
  <2>2. MayBegin(b)
    BY <2>1, Wakes
  <2> QED
    BY <1>2, <2>2 DEF MayBegin
<1> QED
  BY <1>1, <1>2

LEMMA OnDiskStep ==
  ASSUME Exclusive, IInv, Revokers, OwnInv, [Next]_vars
  PROVE  OnDisk'
<1> USE DEF Move, Goto, IInv, TypeOK
<1>1. ASSUME NEW e \in Enrollers, pc'[e] \in {"saveMeta", "verify", "purge"}
      PROVE  token' = have'[e]
  <2>0. e \in Actors /\ e # Daemon /\ e \notin Logouts /\ e \notin Probes
    BY ActorsAssumption DEF Actors, Commands
  <2>1. CASE UNCHANGED <<pc[e], have[e], about[e]>>
    <3>1. token = have[e] /\ \A b \in Actors \ {e} : pc[b] \in Idle
      BY <1>1, <2>1 DEF OwnInv, OnDisk, Alone, Idle
    <3>2. \A a \in Actors : ~SaveToken(a) /\ ~PurgeToken(a)
      BY <1>1, <2>0, <2>1, <3>1 DEF SaveToken, PurgeToken, AfterPurge, Idle
    <3> QED
      BY <2>1, <3>1, <3>2, TokenMoves
  <2>2. CASE Begin(e)
    BY <1>1, <2>0, <2>2 DEF Begin, Issue, LogoutLoads, StatusLoadsToken
  <2>3. CASE ActorStep(e)
    <3>1. CASE SaveToken(e) \/ SaveMetadata(e) \/ VerifyKeeps(e) \/ VerifyPurges(e)
      BY <1>1, <2>0, <3>1 DEF SaveToken, SaveMetadata, VerifyKeeps, VerifyPurges, OwnInv, OnDisk
    <3>2. ~LogoutRevokes(e) /\ ~LogoutUnheard(e)
      BY <2>0 DEF LogoutRevokes, LogoutUnheard, Revokers
    <3>3. CASE PurgeToken(e) \/ DropMetadata(e)
      BY <1>1, <2>0, <3>3 DEF PurgeToken, AfterPurge, DropMetadata, Rest
    <3>4. CASE StatusStopped(e) \/ StatusStoppedTooLate(e)
      BY <1>1, <2>0, <3>4 DEF StatusStopped, StatusStoppedTooLate
    <3> QED
      BY <2>0, <2>3, <3>1, <3>2, <3>3, <3>4 DEF ActorStep, StatusLoadsMetadata, StatusRejected, StatusOnline,
         StatusOffline, StatusTimesOut
  <2>4. CASE Fault(e)
    BY <1>1, <2>0, <2>4 DEF Fault, SaveFails, PurgeFails, AfterPurge, DropFails, LoadFails, Killed, Rest
  <2> QED
    BY <2>0, <2>1, <2>2, <2>3, <2>4, OthersLeave
<1>2. ASSUME NEW b \in Actors \ Enrollers, pc'[b] \notin Idle, have'[b] # None
      PROVE  token' \in {None, have'[b]}
  <2>1. CASE pc[b] \in Idle
    BY <1>2, <2>1, Wakes
  <2>2. CASE pc[b] \notin Idle
    <3>1. have'[b] = have[b]
      BY <2>2, Wakes
    <3>2. \A a \in Actors : ~SaveToken(a)
      BY <2>2 DEF SaveToken, OwnInv, Sorts, Alone, Idle
    <3>3. token' = token \/ token' = None
      BY <3>2, TokenMoves DEF PurgeToken
    <3> QED
      BY <1>2, <2>2, <3>1, <3>3 DEF OwnInv, OnDisk
  <2> QED
    BY <2>1, <2>2
<1> QED
  BY <1>1, <1>2 DEF OnDisk

LEMMA OwnInvHolds ==
  ASSUME Exclusive
  PROVE  Spec => [](IInv /\ Revokers /\ OwnInv)
<1>1. Init => OwnInv
  BY DEF Init, OwnInv, Sorts, Alone, OnDisk, Idle, Actors, Commands
<1>2. IInv /\ Revokers /\ OwnInv /\ [Next]_vars => OwnInv'
  BY SortsStep, AloneStep, OnDiskStep DEF OwnInv
<1> QED
  BY <1>1, <1>2, InvHolds, DeservedHolds, PTL DEF Spec

\* Whoever is about to delete a token holds it.
LEMMA PurgesOwn ==
  ASSUME IInv, OwnInv, NEW a \in Actors, pc[a] \in {"purge", "purgeUnreported"}, token # None
  PROVE  have[a] = token
<1>1. have[a] # None
  BY IdentityAssumption DEF IInv, Holds, Holding
<1>2. CASE a \in Enrollers
  BY <1>2, ActorsAssumption DEF OwnInv, Sorts, OnDisk
<1>3. CASE a \notin Enrollers
  BY <1>1, <1>3 DEF OwnInv, OnDisk, Idle
<1> QED
  BY <1>2, <1>3

\* A process deletes the token it was working with, and no other, also when a
\* deletion failed or a command was killed before it.
THEOREM DeletionsAreOwn ==
  ASSUME Exclusive
  PROVE  Spec => DeletesOwnToken
<1> DEFINE Own == \A a \in Actors : pc[a] \in {"purge", "purgeUnreported"} /\ token # None => have[a] = token
<1>1. IInv /\ OwnInv => Own
  BY PurgesOwn
<1>2. Own => (\A a \in Actors :
        (pc[a] \in {"purge", "purgeUnreported"} /\ pc'[a] # pc[a] /\ token # None /\ token' = None)
        => have[a] = token)
  OBVIOUS
<1>3. [][Next]_vars /\ []Own => DeletesOwnToken
  BY <1>2, PTL DEF DeletesOwnToken
<1> QED
  BY <1>1, <1>3, OwnInvHolds, PTL DEF Spec

-----------------------------------------------------------------------------
(* When an identity is saved.                                              *)

\* A client is under way: the process has read the token it presents, and has
\* not got rid of it.
Presenting == {"loadMeta", "run", "stopping", "purge", "purgeUnreported"}

ClientUnderWay == \E a \in Probes \cup {Daemon} : pc[a] \in Presenting

\* A new identity is saved while no client is under way: the service is stopped
\* or parked by then, not restarted afterwards.
SavesUndisturbed == [][ (token' # token /\ token' # None) => ~ClientUnderWay ]_vars

\* The token file still holds what a client read there, or nothing.
Current == \A a \in Probes \cup {Daemon} : pc[a] \in Presenting => token \in {None, have[a]}

\* A client comes from rest: from the read of the token file.
LEMMA PresentingBegins ==
  ASSUME IInv, Revokers, [Next]_vars, NEW a \in Probes \cup {Daemon}, pc'[a] \in Presenting
  PROVE  pc[a] \in Presenting \cup Idle
<1> USE DEF Presenting, Idle, Move, Goto, IInv, TypeOK
<1>0. a \in Actors /\ a \notin Enrollers /\ a \notin Logouts
  BY ActorsAssumption DEF Actors, Commands
<1>1. CASE UNCHANGED <<pc[a], have[a], about[a]>>
  BY <1>1
<1>2. CASE a = Daemon /\ (DaemonStarts \/ DaemonStep)
  BY <1>2 DEF DaemonStarts, DaemonStep, DaemonLoadsMetadata, DaemonRejected, DaemonRefused, DaemonStops
<1>3. CASE Begin(a)
  BY <1>3 DEF Begin, Issue, LogoutLoads, StatusLoadsToken
<1>4. CASE ActorStep(a)
  <2>1. CASE SaveToken(a) \/ SaveMetadata(a) \/ VerifyKeeps(a) \/ VerifyPurges(a)
    BY <1>0, <2>1 DEF SaveToken, SaveMetadata, VerifyKeeps, VerifyPurges
  <2>2. ~LogoutRevokes(a) /\ ~LogoutUnheard(a)
    BY <1>0 DEF LogoutRevokes, LogoutUnheard, Revokers
  <2>3. CASE \/ StatusLoadsMetadata(a) \/ StatusRejected(a) \/ StatusOnline(a) \/ StatusStopped(a)
             \/ StatusStoppedTooLate(a) \/ StatusOffline(a) \/ StatusTimesOut(a)
    BY <2>3 DEF StatusLoadsMetadata, StatusRejected, StatusOnline, StatusStopped, StatusStoppedTooLate,
       StatusOffline, StatusTimesOut
  <2>4. CASE PurgeToken(a)
    BY <2>4 DEF PurgeToken
  <2>5. CASE DropMetadata(a)
    BY <1>0, <2>5 DEF DropMetadata, Rest
  <2> QED
    BY <1>4, <2>1, <2>2, <2>3, <2>4, <2>5 DEF ActorStep
<1>5. CASE Fault(a)
  BY <1>0, <1>5 DEF Fault, SaveFails, PurgeFails, AfterPurge, DropFails, LoadFails, Killed, Rest
<1> QED
  BY <1>0, <1>1, <1>2, <1>3, <1>4, <1>5, OthersLeave

LEMMA CurrentStep ==
  ASSUME IInv, Revokers, Current, [Next]_vars,
         (token' # token /\ token' # None) => ~ClientUnderWay
  PROVE  Current'
<1> SUFFICES ASSUME NEW a \in Probes \cup {Daemon}, pc'[a] \in Presenting
             PROVE  token' \in {None, have'[a]}
  BY DEF Current
<1>0. a \in Actors /\ a \notin Enrollers
  BY ActorsAssumption DEF Actors, Commands
<1>1. CASE pc[a] \in Presenting
  <2>1. pc[a] \notin Idle
    BY <1>1 DEF Presenting, Idle
  <2>2. have'[a] = have[a]
    BY <1>0, <2>1, Wakes
  <2>3. token' = token \/ token' = None
    BY <1>1 DEF ClientUnderWay
  <2> QED
    BY <1>1, <2>2, <2>3 DEF Current
<1>2. CASE pc[a] \in Idle
  <2>1. pc'[a] \notin Idle
    BY DEF Presenting, Idle
  <2> QED
    BY <1>0, <1>2, <2>1, Wakes
<1> QED
  BY <1>1, <1>2, PresentingBegins

\* What purgeToken's comment promises (ws_client.go:254) and a login at the
\* wrong moment breaks holds of every machine on which a new identity is saved
\* only while no client is under way - whatever else runs beside, fails or is
\* killed: the token that is deleted is one the server revoked.  Restarting the
\* service after `login`, as src/README.md:70-72 asks, is too late for that: it
\* would have to be stopped before.
THEOREM PurgesAreDeserved == Spec /\ SavesUndisturbed => PurgesInvalidatedToken
<1> DEFINE Just == \A a \in Probes \cup {Daemon} : Purging(a) /\ token # None => registry[token] = "revoked"
<1>1. Current /\ Deserved => Just
  BY DEF Current, Deserved, Purging, Presenting
<1>2. Just =>
        (\A a \in Probes \cup {Daemon} :
           (pc[a] \in {"purge", "purgeUnreported"} /\ pc'[a] # pc[a] /\ token # None /\ token' = None)
           => registry[token] = "revoked")
  BY DEF Purging
<1>3. Init => Current
  BY DEF Init, Current, Presenting, Actors, Commands
<1>4. /\ IInv /\ Revokers /\ Current /\ [Next]_vars
      /\ [ (token' # token /\ token' # None) => ~ClientUnderWay ]_vars
      => Current'
  <2>1. CASE UNCHANGED vars
    BY <2>1 DEF vars, Current
  <2>2. CASE (token' # token /\ token' # None) => ~ClientUnderWay
    BY <2>2, CurrentStep
  <2> QED
    BY <2>1, <2>2
<1> HIDE DEF Just
<1>5. Spec /\ SavesUndisturbed => []Current
  BY <1>3, <1>4, InvHolds, DeservedHolds, PTL DEF Spec, SavesUndisturbed
<1>6. Spec /\ SavesUndisturbed => []Just
  BY <1>1, <1>5, DeservedHolds, PTL
<1> QED
  BY <1>2, <1>6, PTL DEF Spec, PurgesInvalidatedToken

-----------------------------------------------------------------------------
(* Reasons to delete.                                                      *)

\* An enrollment holds one identity from beginning to end, and purges it only
\* when the server revoked it or its ws_url is refused.
Enrolls(e) ==
  /\ pc[e] \in {"saveToken", "saveMeta", "verify"} => about[e] = have[e]
  /\ pc[e] = "purge" => registry[have[e]] = "revoked" \/ have[e] \in InsecureURLs

Enrollments == \A e \in Enrollers : Enrolls(e)

LEMMA EnrollStep ==
  ASSUME IInv, Revokers, [Next]_vars, NEW e \in Enrollers, Enrolls(e)
  PROVE  Enrolls(e)'
<1>0. /\ e \in Actors /\ e # Daemon /\ e \notin Logouts /\ e \notin Probes /\ pc \in [Actors -> Labels]
      /\ have \in [Actors -> Tokens \cup {None}] /\ about \in [Actors -> Tokens \cup {None}]
  BY ActorsAssumption DEF Actors, Commands, IInv, TypeOK
<1>1. pc[e] = "purge" => have[e] \in Tokens
  BY <1>0 DEF IInv, Holds, Holding
<1> USE DEF Enrolls, Move, Goto
<1>2. CASE UNCHANGED <<pc[e], have[e], about[e]>>
  BY <1>1, <1>2, RevokedForGood
<1>3. CASE Begin(e)
  <2>1. Issue(e)
    BY <1>0, <1>3 DEF Begin, LogoutLoads, StatusLoadsToken
  <2> QED
    BY <1>0, <2>1 DEF Issue
<1>4. CASE ActorStep(e)
  <2>1. CASE SaveToken(e) \/ SaveMetadata(e) \/ VerifyKeeps(e)
    BY <1>0, <2>1 DEF SaveToken, SaveMetadata, VerifyKeeps
  <2>2. CASE VerifyPurges(e)
    BY <1>0, <2>2 DEF VerifyPurges
  <2>3. CASE LogoutRevokes(e) \/ LogoutUnheard(e)
    BY <1>0, <2>3 DEF LogoutRevokes, LogoutUnheard, Revokers
  <2>4. CASE StatusStopped(e) \/ StatusStoppedTooLate(e)
    BY <1>0, <2>4 DEF StatusStopped, StatusStoppedTooLate
  <2>5. CASE PurgeToken(e) \/ DropMetadata(e)
    <3>1. PICK l \in {"dropMeta", "done"} : pc' = [pc EXCEPT ![e] = l]
      BY <1>0, <2>5 DEF PurgeToken, AfterPurge, DropMetadata, Rest
    <3> QED
      BY <1>0, <3>1
  <2> QED
    BY <1>0, <1>4, <2>1, <2>2, <2>3, <2>4, <2>5 DEF ActorStep, StatusLoadsMetadata, StatusRejected, StatusOnline,
       StatusOffline, StatusTimesOut
<1>5. CASE Fault(e)
  <2>1. PICK l \in {"dropMeta", "done"} : pc' = [pc EXCEPT ![e] = l]
    BY <1>0, <1>5 DEF Fault, SaveFails, PurgeFails, AfterPurge, DropFails, LoadFails, Killed, Rest
  <2> QED
    BY <1>0, <2>1
<1> QED
  BY <1>0, <1>2, <1>3, <1>4, <1>5, OthersLeave

LEMMA EnrollmentsHold == Spec => []Enrollments
<1>1. Init => Enrollments
  BY DEF Init, Enrollments, Enrolls, Actors, Commands
<1>2. IInv /\ Revokers /\ Enrollments /\ [Next]_vars => Enrollments'
  BY EnrollStep DEF Enrollments
<1> QED
  BY <1>1, <1>2, InvHolds, DeservedHolds, PTL DEF Spec

\* With the operator enrolling alone, no token the server still honours leaves
\* the disk but by another enrollment, a `logout` or a refused ws_url.
THEOREM ActiveTokensAreKept ==
  ASSUME Exclusive
  PROVE  Spec => ActiveTokensKept
<1> DEFINE Good == IInv /\ OwnInv /\ Deserved /\ Enrollments
           Kept(t) == (token = t /\ token' # t /\ registry[t] = "active") =>
              \/ \E e \in Enrollers : pc[e] = "saveToken" /\ token' = have[e]
              \/ \E l \in Logouts : pc[l] = "purge" /\ have[l] = t
              \/ \E e \in Enrollers : pc[e] = "purge" /\ have[e] = t /\ t \in InsecureURLs
<1>1. ASSUME Good, [Next]_vars, NEW t \in Tokens, token = t, token' # t, registry[t] = "active"
      PROVE  \/ \E e \in Enrollers : pc[e] = "saveToken" /\ token' = have[e]
             \/ \E l \in Logouts : pc[l] = "purge" /\ have[l] = t
             \/ \E e \in Enrollers : pc[e] = "purge" /\ have[e] = t /\ t \in InsecureURLs
  <2>1. PICK a \in Actors : SaveToken(a) \/ PurgeToken(a)
    BY <1>1, TokenMoves
  <2>2. CASE SaveToken(a)
    BY <1>1, <2>2 DEF SaveToken, Move, OwnInv, Sorts
  <2>3. CASE PurgeToken(a)
    <3>1. Purging(a) /\ token # None
      BY <1>1, <2>3, IdentityAssumption DEF PurgeToken, Purging
    <3>2. have[a] = t
      BY <1>1, <3>1, PurgesOwn DEF Purging
    <3>3. a \notin Probes \cup {Daemon}
      BY <1>1, <3>1, <3>2 DEF Deserved
    <3>4. pc[a] = "purge"
      BY <1>1, <3>1, <3>3 DEF Purging, OwnInv, Sorts
    <3> QED
      BY <1>1, <3>2, <3>3, <3>4 DEF Enrollments, Enrolls, Actors, Commands
  <2> QED
    BY <2>1, <2>2, <2>3
<1>2. Good /\ [Next]_vars => \A t \in Tokens : Kept(t)
  BY <1>1
<1>3. Spec => []Good
  BY OwnInvHolds, DeservedHolds, EnrollmentsHold, PTL
<1> HIDE DEF Good
<1> QED
  BY <1>2, <1>3, PTL DEF Spec, ActiveTokensKept

\* No token disappears but by a process that works with it, and none the server
\* honours without the operator's doing.
THEOREM DeletionsHaveReasons ==
  ASSUME Exclusive
  PROVE  Spec => DeletionsReasoned
BY DeletionsAreOwn, ActiveTokensAreKept, PTL DEF DeletionsReasoned

-----------------------------------------------------------------------------
(* The token file is used as the register that TokenStore implements.      *)

\* A token is saved once, by the process it was issued to.
Unsaved(t) == registry[t] = "unissued" \/ \E a \in Actors : pc[a] = "saveToken" /\ have[a] = t

TokenFile == INSTANCE FileRegister WITH
  Writers <- Tokens,
  Old     <- None,
  value   <- token,
  kept    <- None,
  save    <- [t \in Tokens |-> IF Unsaved(t) THEN "open" ELSE "ok"]

\* A step that neither issues a token nor begins or ends a Save.
LEMMA SavesStay ==
  ASSUME IInv, NEW a \in Actors, NEW l, pc' = [pc EXCEPT ![a] = l], l # "saveToken", pc[a] # "saveToken",
         \A b \in Actors \ {a} : have'[b] = have[b],
         \A t \in Tokens : registry'[t] = "unissued" <=> registry[t] = "unissued"
  PROVE  UNCHANGED [t \in Tokens |-> IF Unsaved(t) THEN "open" ELSE "ok"]
<1>1. pc'[a] = l /\ \A b \in Actors \ {a} : pc'[b] = pc[b]
  BY DEF IInv, TypeOK
<1>2. ASSUME NEW t \in Tokens PROVE Unsaved(t)' <=> Unsaved(t)
  BY <1>1 DEF Unsaved
<1> QED
  BY <1>2

\* The exception: a Save that succeeds is the only one of its token.
LEMMA SaveWrites ==
  ASSUME IInv, NEW e \in Actors, SaveToken(e)
  PROVE  TokenFile!Write(have[e])
<1> DEFINE w == have[e]
<1>0. /\ pc \in [Actors -> Labels] /\ pc[e] = "saveToken" /\ pc' = [pc EXCEPT ![e] = "saveMeta"]
      /\ token' = w /\ UNCHANGED <<registry, have>>
  BY DEF IInv, TypeOK, SaveToken, Move, Goto
<1>1. w \in Tokens
  BY <1>0 DEF IInv, Holds, Holding
<1>2. pc'[e] = "saveMeta" /\ \A b \in Actors \ {e} : pc'[b] = pc[b] /\ have[b] # w
  BY <1>0 DEF IInv, UnsavedPrivate
<1>3. Unsaved(w)
  BY <1>0 DEF Unsaved
<1>4. registry[w] # "unissued"
  BY <1>1 DEF IInv, UnissuedUnknown
<1>5. ~Unsaved(w)'
  BY <1>0, <1>2, <1>4 DEF Unsaved
<1>6. ASSUME NEW t \in Tokens \ {w} PROVE Unsaved(t)' <=> Unsaved(t)
  BY <1>0, <1>2, <1>6 DEF Unsaved
<1> QED
  BY <1>0, <1>1, <1>3, <1>5, <1>6 DEF TokenFile!Write

LEMMA RegisterStep ==
  ASSUME ~Faults
  PROVE  IInv /\ [Next]_vars => [TokenFile!Next]_(TokenFile!registerVars)
<1> SUFFICES ASSUME IInv, [Next]_vars PROVE [TokenFile!Next]_(TokenFile!registerVars)
  OBVIOUS
<1> DEFINE saves == [t \in Tokens |-> IF Unsaved(t) THEN "open" ELSE "ok"]
<1>s. UNCHANGED <<token, saves>> => UNCHANGED TokenFile!registerVars
  BY DEF TokenFile!registerVars
<1>r. ASSUME token' = None, UNCHANGED saves PROVE TokenFile!Next
  BY <1>r DEF TokenFile!Next, TokenFile!Remove
<1> HIDE DEF saves
<1>1. ASSUME NEW c \in Commands, Issue(c) PROVE UNCHANGED <<token, saves>>
  <2>1. PICK t \in Tokens : /\ registry[t] = "unissued" /\ registry' = [registry EXCEPT ![t] = "active"]
                            /\ have' = [have EXCEPT ![c] = t]
    BY <1>1 DEF Issue
  <2>2. c \in Actors /\ pc' = [pc EXCEPT ![c] = "saveToken"] /\ pc[c] = "idle" /\ token' = token
    BY <1>1 DEF Issue, Move, Goto, Actors
  <2>3. /\ pc'[c] = "saveToken" /\ have'[c] = t /\ registry'[t] = "active"
        /\ \A b \in Actors \ {c} : pc'[b] = pc[b] /\ have'[b] = have[b]
        /\ \A u \in Tokens \ {t} : registry'[u] = registry[u]
    BY <2>1, <2>2 DEF IInv, TypeOK
  <2>4. Unsaved(t) /\ Unsaved(t)'
    BY <2>1, <2>2, <2>3 DEF Unsaved
  <2>5. ASSUME NEW u \in Tokens \ {t} PROVE Unsaved(u)' <=> Unsaved(u)
    BY <2>2, <2>3 DEF Unsaved
  <2> QED
    BY <2>2, <2>4, <2>5 DEF saves
<1>2. ASSUME NEW c \in Commands, LogoutLoads(c) \/ StatusLoadsToken(c) PROVE UNCHANGED <<token, saves>>
  <2>1. PICK l \in {"done", "revoke", "loadMeta"} : pc' = [pc EXCEPT ![c] = l]
    BY <1>2, Zenon DEF LogoutLoads, StatusLoadsToken, Move, Goto
  <2>2. /\ c \in Actors /\ pc[c] = "idle" /\ UNCHANGED <<token, registry>>
        /\ \A b \in Actors \ {c} : have'[b] = have[b]
    BY <1>2 DEF LogoutLoads, StatusLoadsToken, LoadToken, Move, Actors, IInv, TypeOK
  <2> QED
    BY <2>1, <2>2, SavesStay DEF saves
<1>3. CASE DaemonStarts \/ DaemonStep
  <2>1. PICK l \in {"loadMeta", "parked", "run", "purge", "stopped"} : pc' = [pc EXCEPT ![Daemon] = l]
    BY <1>3, Zenon DEF DaemonStarts, DaemonStep, DaemonLoadsMetadata, DaemonRejected, DaemonRefused, DaemonStops, Move, Goto
  <2>2. /\ Daemon \in Actors /\ pc[Daemon] # "saveToken" /\ UNCHANGED <<token, registry>>
        /\ \A b \in Actors \ {Daemon} : have'[b] = have[b]
    BY <1>3 DEF DaemonStarts, DaemonStep, DaemonLoadsMetadata, DaemonRejected, DaemonRefused, DaemonStops,
       LoadToken, LoadMetadata, Move, Goto, Actors, IInv, TypeOK
  <2> QED
    BY <2>1, <2>2, SavesStay, <1>s DEF saves
<1>4. ASSUME NEW a \in Actors, ActorStep(a), ~SaveToken(a), ~PurgeToken(a) PROVE UNCHANGED <<token, saves>>
  <2>1. \E l \in Labels \ {"saveToken"} : pc' = [pc EXCEPT ![a] = l]
    BY <1>4, Zenon DEF ActorStep, SaveMetadata, VerifyKeeps, VerifyPurges, LogoutRevokes, LogoutUnheard,
       StatusLoadsMetadata, StatusRejected, StatusOnline, StatusStopped, StatusStoppedTooLate, StatusOffline,
       StatusTimesOut, DropMetadata, Rest, Move, Goto, Labels
  <2>2. pc[a] # "saveToken" /\ UNCHANGED <<token, have>>
    BY <1>4 DEF ActorStep, SaveMetadata, VerifyKeeps, VerifyPurges, LogoutRevokes, LogoutUnheard,
       StatusLoadsMetadata, LoadMetadata, StatusRejected, StatusOnline, StatusStopped, StatusStoppedTooLate, StatusOffline,
       StatusTimesOut, DropMetadata, Move, Goto
  <2>3. \A t \in Tokens : registry'[t] = "unissued" <=> registry[t] = "unissued"
    <3>1. CASE LogoutRevokes(a)
      <4>1. have[a] \in Tokens /\ registry[have[a]] # "unissued"
        BY <3>1 DEF LogoutRevokes, Move, IInv, Holds, Holding, UnissuedUnknown
      <4> QED
        BY <3>1, <4>1 DEF LogoutRevokes, IInv, TypeOK
    <3>2. CASE ~LogoutRevokes(a)
      BY <1>4, <3>2 DEF ActorStep, SaveMetadata, VerifyKeeps, VerifyPurges, LogoutUnheard,
         StatusLoadsMetadata, LoadMetadata, StatusRejected, StatusOnline, StatusStopped, StatusStoppedTooLate,
         StatusOffline, StatusTimesOut, DropMetadata
    <3> QED
      BY <3>1, <3>2
  <2> QED
    BY <2>1, <2>2, <2>3, SavesStay DEF saves
<1>5. ASSUME NEW a \in Actors, SaveToken(a) PROVE TokenFile!Next
  <2>1. have[a] \in Tokens
    BY <1>5 DEF SaveToken, Move, IInv, Holds, Holding
  <2> QED
    BY <1>5, <2>1, SaveWrites DEF TokenFile!Next
<1>6. ASSUME NEW a \in Actors, PurgeToken(a) PROVE TokenFile!Next
  <2>1. PICK l \in {"dropMeta", "done"} : pc' = [pc EXCEPT ![a] = l]
    BY <1>6 DEF PurgeToken, AfterPurge, Goto
  <2>2. pc[a] # "saveToken" /\ token' = None /\ UNCHANGED <<registry, have>>
    BY <1>6 DEF PurgeToken
  <2>3. UNCHANGED saves
    BY <2>1, <2>2, SavesStay DEF saves
  <2> QED
    BY <1>r, <2>2, <2>3
<1>7. ASSUME NEW a \in Actors, Fault(a) PROVE FALSE
  BY <1>7 DEF Fault, SaveFails, PurgeFails, DropFails, LoadFails, Killed
<1>8. ASSUME NEW t \in Tokens, ServerRevokes(t) PROVE UNCHANGED <<token, saves>>
  <2>1. /\ UNCHANGED <<token, pc, have>> /\ registry[t] = "active"
        /\ registry' = [registry EXCEPT ![t] = "revoked"]
    BY <1>8 DEF ServerRevokes
  <2>2. ASSUME NEW u \in Tokens PROVE Unsaved(u)' <=> Unsaved(u)
    BY <2>1 DEF Unsaved, IInv, TypeOK
  <2> QED
    BY <2>1, <2>2 DEF saves
<1>9. CASE UNCHANGED vars
  BY <1>9, <1>s DEF vars, saves, Unsaved
<1> QED
  BY <1>1, <1>2, <1>3, <1>4, <1>5, <1>6, <1>7, <1>8, <1>9, <1>s DEF Next, Begin

\* While nothing fails, the processes use the token file as the register
\* FileRegister specifies and AtomicFile implements: each token is saved at most
\* once, by the command it was issued to, and nothing but a save or a deletion
\* changes the file.
THEOREM TokenFileIsRegister ==
  ASSUME ~Faults
  PROVE  Spec => TokenFile!Spec
<1>1. Init => TokenFile!Init
  BY DEF Init, TokenFile!Init, Unsaved
<1> QED
  BY <1>1, InvHolds, RegisterStep, PTL DEF Spec, TokenFile!Spec

-----------------------------------------------------------------------------
(* A revocation reaches the disk, whatever else runs and fails.            *)

\* Where the daemon goes from a session, from the purge and from the metadata.
LEMMA DaemonMoveOn ==
  ASSUME IInv, [Next]_vars
  PROVE  /\ pc[Daemon] = "run" =>
              \/ UNCHANGED <<pc[Daemon], have[Daemon], about[Daemon]>>
              \/ pc'[Daemon] = "purge" /\ UNCHANGED have[Daemon]
              \/ pc'[Daemon] \in {"parked", "stopped"}
         /\ pc[Daemon] = "purge" =>
              \/ UNCHANGED <<pc[Daemon], have[Daemon]>>
              \/ pc'[Daemon] = "dropMeta" /\ UNCHANGED have[Daemon]
              \/ pc'[Daemon] = "stopped"
         /\ pc[Daemon] = "dropMeta" =>
              \/ UNCHANGED <<pc[Daemon], have[Daemon]>>
              \/ pc'[Daemon] \in {"parked", "stopped"}
<1> USE DEF Move, Goto, IInv, TypeOK
<1>0. /\ Daemon \in Actors /\ Daemon \notin Enrollers /\ Daemon \notin Logouts /\ Daemon \notin Probes
      /\ Daemon \notin Commands
  BY ActorsAssumption DEF Actors, Commands
<1>1. CASE UNCHANGED <<pc[Daemon], have[Daemon], about[Daemon]>>
  BY <1>1
<1>2. CASE DaemonStarts
  BY <1>2 DEF DaemonStarts
<1>3. CASE DaemonStep
  <2>1. CASE DaemonLoadsMetadata
    BY <2>1 DEF DaemonLoadsMetadata
  <2>2. CASE DaemonRejected \/ DaemonRefused \/ DaemonStops
    BY <1>0, <2>2 DEF DaemonRejected, DaemonRefused, DaemonStops
  <2> QED
    BY <1>3, <2>1, <2>2 DEF DaemonStep
<1>4. CASE ActorStep(Daemon)
  <2>1. ~StatusLoadsMetadata(Daemon) /\ ~StatusRejected(Daemon) /\ ~StatusOnline(Daemon)
        /\ ~StatusOffline(Daemon) /\ ~StatusTimesOut(Daemon) /\ ~VerifyKeeps(Daemon) /\ ~VerifyPurges(Daemon)
    BY <1>0 DEF StatusLoadsMetadata, StatusRejected, StatusOnline, StatusOffline, StatusTimesOut, VerifyKeeps, VerifyPurges
  <2>2. CASE SaveToken(Daemon) \/ SaveMetadata(Daemon) \/ LogoutRevokes(Daemon) \/ LogoutUnheard(Daemon)
             \/ StatusStopped(Daemon) \/ StatusStoppedTooLate(Daemon)
    BY <2>2 DEF SaveToken, SaveMetadata, LogoutRevokes, LogoutUnheard, StatusStopped, StatusStoppedTooLate
  <2>3. CASE PurgeToken(Daemon)
    BY <1>0, <2>3 DEF PurgeToken, AfterPurge
  <2>4. CASE DropMetadata(Daemon)
    BY <1>0, <2>4 DEF DropMetadata, Rest
  <2> QED
    BY <1>4, <2>1, <2>2, <2>3, <2>4 DEF ActorStep
<1>5. CASE Fault(Daemon)
  <2>1. CASE SaveFails(Daemon) \/ LoadFails(Daemon)
    BY <2>1 DEF SaveFails, LoadFails
  <2>2. CASE PurgeFails(Daemon)
    BY <1>0, <2>2 DEF PurgeFails, AfterPurge
  <2>3. CASE DropFails(Daemon) \/ Killed(Daemon)
    BY <1>0, <2>3 DEF DropFails, Killed, Rest
  <2> QED
    BY <1>5, <2>1, <2>2, <2>3 DEF Fault
<1> QED
  BY <1>0, <1>1, <1>2, <1>3, <1>4, <1>5, OthersLeave

\* A revoked token the daemon still works with, until it is off the disk or the
\* daemon has stopped looking.
Doomed(t)  == have[Daemon] = t /\ token = t /\ registry[t] = "revoked"
Settled(t) == token # t \/ (pc[Daemon] \in {"parked", "stopped"} /\ t \notin purged)

InSession(t) == Doomed(t) /\ pc[Daemon] = "run" /\ about[Daemon] \notin InsecureURLs
TurnedOff(t) == Doomed(t) /\ pc[Daemon] = "run" /\ about[Daemon] \in InsecureURLs
InPurge(t)   == Doomed(t) /\ pc[Daemon] = "purge"
InDrop(t)    == Doomed(t) /\ pc[Daemon] = "dropMeta"

\* One step of anybody, seen by a doomed token.
LEMMA DoomedStep ==
  ASSUME IInv, [Next]_vars, NEW t \in Tokens
  PROVE  /\ InSession(t) => InSession(t)' \/ InPurge(t)' \/ Settled(t)'
         /\ TurnedOff(t) => TurnedOff(t)' \/ InPurge(t)' \/ Settled(t)'
         /\ InPurge(t)   => InPurge(t)' \/ InDrop(t)' \/ Settled(t)'
         /\ InDrop(t)    => InDrop(t)' \/ Settled(t)'
<1> SUFFICES ASSUME Doomed(t), ~Settled(t)'
             PROVE  /\ InSession(t) => InSession(t)' \/ InPurge(t)'
                    /\ TurnedOff(t) => TurnedOff(t)' \/ InPurge(t)'
                    /\ InPurge(t)   => InPurge(t)' \/ InDrop(t)'
                    /\ InDrop(t)    => InDrop(t)'
  BY DEF InSession, TurnedOff, InPurge, InDrop
<1>1. registry'[t] = "revoked"
  BY RevokedForGood DEF Doomed
<1>2. token' = t
  BY DEF Settled
<1>3. t \notin purged'
  <2>1. token' \notin purged'
    BY InvNext DEF IInv, PurgedStaysGone
  <2> QED
    BY <1>2, <2>1
<1>4. pc'[Daemon] \notin {"parked", "stopped"}
  BY <1>3 DEF Settled
<1>5. /\ pc[Daemon] = "run" => \/ UNCHANGED <<pc[Daemon], have[Daemon], about[Daemon]>>
                               \/ pc'[Daemon] = "purge" /\ UNCHANGED have[Daemon]
      /\ pc[Daemon] = "purge" => pc'[Daemon] \in {"purge", "dropMeta"} /\ UNCHANGED have[Daemon]
      /\ pc[Daemon] = "dropMeta" => UNCHANGED <<pc[Daemon], have[Daemon]>>
  BY <1>4, DaemonMoveOn
<1> QED
  BY <1>1, <1>2, <1>5 DEF Doomed, InSession, TurnedOff, InPurge, InDrop

\* The step the daemon owes it.
LEMMA DoomedProgress ==
  ASSUME IInv, [Next]_vars, NEW t \in Tokens
  PROVE  /\ InSession(t) /\ DaemonRejected   => InPurge(t)' \/ Settled(t)'
         /\ TurnedOff(t) /\ DaemonRefusesURL => Settled(t)'
         /\ InPurge(t) /\ ActorStep(Daemon)  => InDrop(t)' \/ Settled(t)'
         /\ InDrop(t) /\ ActorStep(Daemon)   => Settled(t)'
<1>1. IInv'
  BY InvNext
<1>2. Daemon \in Actors /\ Daemon \notin Enrollers /\ Daemon \notin Probes /\ pc \in [Actors -> Labels] /\ None # t
  BY ActorsAssumption, IdentityAssumption DEF Actors, Commands, IInv, TypeOK
<1>3. pc'[Daemon] \in {"parked", "stopped"} => Settled(t)'
  BY <1>1 DEF Settled, IInv, PurgedStaysGone
<1>4. ASSUME InSession(t), DaemonRejected PROVE InPurge(t)' \/ Settled(t)'
  BY <1>2, <1>4 DEF InSession, InPurge, Doomed, DaemonRejected, Move, Goto
<1>5. ASSUME TurnedOff(t), DaemonRefusesURL PROVE Settled(t)'
  BY <1>2, <1>3, <1>5 DEF DaemonRefusesURL, DaemonRefused, Move, Goto
<1>6. ASSUME pc[Daemon] \in {"purge", "dropMeta"}, ActorStep(Daemon) PROVE Settled(t)'
  <2>1. PurgeToken(Daemon) \/ DropMetadata(Daemon)
    BY <1>2, <1>6 DEF ActorStep, SaveToken, SaveMetadata, VerifyKeeps, VerifyPurges, LogoutRevokes, LogoutUnheard,
       StatusLoadsMetadata, StatusRejected, StatusOnline, StatusStopped, StatusStoppedTooLate, StatusOffline,
       StatusTimesOut, Move
  <2>2. CASE PurgeToken(Daemon)
    BY <1>2, <2>2 DEF PurgeToken, Settled
  <2>3. CASE DropMetadata(Daemon)
    BY <1>2, <1>3, <2>3 DEF DropMetadata, Rest, Move, Goto
  <2> QED
    BY <2>1, <2>2, <2>3
<1> QED
  BY <1>4, <1>5, <1>6 DEF InPurge, InDrop

\* A revocation takes the token off the disk, or finds the daemon no longer
\* running - with logins, logouts and status checks beside it, and although file
\* operations fail and processes are killed.
THEOREM RevocationsCleanUp == FairSpec /\ []NeverStuck => RevocationCleansUp
<1> SUFFICES ASSUME NEW t \in Tokens
             PROVE  FairSpec /\ []NeverStuck =>
                      ((pc[Daemon] = "run" /\ have[Daemon] = t /\ token = t /\ registry[t] = "revoked")
                       ~> (token # t \/ (pc[Daemon] \in {"parked", "stopped"} /\ t \notin purged)))
  BY DEF RevocationCleansUp
<1>1. pc[Daemon] = "run" /\ have[Daemon] = t /\ token = t /\ registry[t] = "revoked"
        => InSession(t) \/ TurnedOff(t)
  BY DEF InSession, TurnedOff, Doomed
<1>2. Settled(t) => token # t \/ (pc[Daemon] \in {"parked", "stopped"} /\ t \notin purged)
  BY DEF Settled
<1>3. IInv /\ InSession(t) /\ [Next]_vars => InSession(t)' \/ InPurge(t)' \/ Settled(t)'
  BY DoomedStep
<1>4. IInv /\ TurnedOff(t) /\ [Next]_vars => TurnedOff(t)' \/ InPurge(t)' \/ Settled(t)'
  BY DoomedStep
<1>5. IInv /\ InPurge(t) /\ [Next]_vars => InPurge(t)' \/ InDrop(t)' \/ Settled(t)'
  BY DoomedStep
<1>6. IInv /\ InDrop(t) /\ [Next]_vars => InDrop(t)' \/ Settled(t)'
  BY DoomedStep
<1>7. IInv /\ InSession(t) /\ [Next]_vars /\ <<DaemonRejected>>_vars => InPurge(t)' \/ Settled(t)'
  BY DoomedProgress
<1>8. IInv /\ TurnedOff(t) /\ [Next]_vars /\ <<DaemonRefusesURL>>_vars => Settled(t)'
  BY DoomedProgress
<1>9. IInv /\ InPurge(t) /\ [Next]_vars /\ <<ActorStep(Daemon)>>_vars => InDrop(t)' \/ Settled(t)'
  BY DoomedProgress
<1>10. IInv /\ InDrop(t) /\ [Next]_vars /\ <<ActorStep(Daemon)>>_vars => Settled(t)'
  BY DoomedProgress
<1>11. NeverStuck /\ InSession(t) => ENABLED <<DaemonRejected>>_vars
  BY DEF NeverStuck, InSession, Doomed, Rejectable
<1>12. NeverStuck /\ TurnedOff(t) => ENABLED <<DaemonRefusesURL>>_vars
  BY DEF NeverStuck, TurnedOff
<1>13. NeverStuck /\ (InPurge(t) \/ InDrop(t)) => ENABLED <<ActorStep(Daemon)>>_vars
  BY DEF NeverStuck, InPurge, InDrop
<1>14. Fairness => GoesOn(Daemon)
  <2>1. Fairness => EverybodyGoesOn
    BY PTL DEF Fairness
  <2>2. EverybodyGoesOn => GoesOn(Daemon)
    BY DEF EverybodyGoesOn, Actors
  <2> QED
    BY <2>1, <2>2
<1>15. Fairness => WF_vars(DaemonRejected) /\ WF_vars(DaemonRefusesURL)
  BY PTL DEF Fairness
<1>16. FairSpec => []IInv
  BY InvHolds, PTL DEF FairSpec
<1> QED
  BY <1>1, <1>2, <1>3, <1>4, <1>5, <1>6, <1>7, <1>8, <1>9, <1>10, <1>11, <1>12, <1>13, <1>14, <1>15, <1>16, PTL
     DEF FairSpec, Spec, GoesOn

-----------------------------------------------------------------------------
(* Every command ends.                                                     *)

\* The most steps a command has still to take.
StepsLeft(l) ==
  CASE l = "saveToken"                          -> 5
    [] l \in {"saveMeta", "loadMeta"}           -> 4
    [] l \in {"verify", "revoke", "run"}        -> 3
    [] l \in {"purge", "stopping"}              -> 2
    [] l \in {"dropMeta", "purgeUnreported"}    -> 1
    [] OTHER                                    -> 0

\* Where a command that has begun goes, whoever takes the step.
LEMMA CommandDescends ==
  ASSUME IInv, [Next]_vars, NEW c \in Commands, pc[c] \notin {"stopped", "parked"}
  PROVE  /\ pc'[c] \notin {"stopped", "parked"}
         /\ pc[c] # "idle" => pc'[c] # "idle" /\ (pc'[c] = pc[c] \/ StepsLeft(pc'[c]) < StepsLeft(pc[c]))
         /\ ActorStep(c) => StepsLeft(pc'[c]) < StepsLeft(pc[c])
<1>0. c \in Actors /\ c # Daemon /\ pc \in [Actors -> Labels]
  BY ActorsAssumption DEF Actors, Commands, IInv, TypeOK
<1> DEFINE Ahead == pc'[c] \notin {"stopped", "parked", "idle"} /\ StepsLeft(pc'[c]) < StepsLeft(pc[c])
<1>1. ASSUME NEW l, pc' = [pc EXCEPT ![c] = l], l \notin {"stopped", "parked", "idle"}, StepsLeft(l) < StepsLeft(pc[c])
      PROVE  Ahead
  BY <1>0, <1>1
<1> USE DEF Move, Goto
<1>2. ASSUME ActorStep(c) PROVE Ahead
  <2>1. CASE SaveToken(c) \/ SaveMetadata(c) \/ VerifyKeeps(c) \/ VerifyPurges(c) \/ LogoutRevokes(c) \/ LogoutUnheard(c)
    BY <1>1, <2>1 DEF SaveToken, SaveMetadata, VerifyKeeps, VerifyPurges, LogoutRevokes, LogoutUnheard, StepsLeft
  <2>2. CASE \/ StatusLoadsMetadata(c) \/ StatusRejected(c) \/ StatusOnline(c) \/ StatusStopped(c)
             \/ StatusStoppedTooLate(c) \/ StatusOffline(c) \/ StatusTimesOut(c)
    BY <1>1, <2>2 DEF StatusLoadsMetadata, StatusRejected, StatusOnline, StatusStopped, StatusStoppedTooLate,
       StatusOffline, StatusTimesOut, StepsLeft
  <2>3. CASE PurgeToken(c)
    <3>1. \/ pc[c] = "purge" /\ pc' = [pc EXCEPT ![c] = "dropMeta"]
          \/ pc[c] = "purgeUnreported" /\ pc' = [pc EXCEPT ![c] = "done"]
      BY <2>3 DEF PurgeToken, AfterPurge
    <3> QED
      BY <1>1, <3>1 DEF StepsLeft
  <2>4. CASE DropMetadata(c)
    BY <1>0, <1>1, <2>4 DEF DropMetadata, Rest, StepsLeft
  <2> QED
    BY <1>2, <2>1, <2>2, <2>3, <2>4 DEF ActorStep
<1>3. ASSUME Fault(c) PROVE Ahead
  <2>1. CASE SaveFails(c) \/ PurgeFails(c)
    BY <1>1, <2>1 DEF SaveFails, PurgeFails, AfterPurge, StepsLeft
  <2>2. CASE DropFails(c) \/ LoadFails(c)
    BY <1>0, <1>1, <2>2 DEF DropFails, LoadFails, Rest, StepsLeft
  <2>3. CASE Killed(c)
    <3>1. \A l \in Labels \ Idle : StepsLeft("done") < StepsLeft(l)
      BY DEF Idle, Labels, StepsLeft
    <3>2. pc[c] \in Labels \ Idle /\ pc' = [pc EXCEPT ![c] = "done"]
      BY <1>0, <2>3 DEF Killed
    <3> QED
      BY <1>1, <3>1, <3>2
  <2> QED
    BY <1>3, <2>1, <2>2, <2>3 DEF Fault
<1>4. ASSUME Begin(c) PROVE pc[c] = "idle" /\ pc'[c] \notin {"stopped", "parked"}
  <2>1. PICK l \in {"saveToken", "done", "revoke", "loadMeta"} : pc[c] = "idle" /\ pc' = [pc EXCEPT ![c] = l]
    BY <1>4, Zenon DEF Begin, Issue, LogoutLoads, StatusLoadsToken
  <2> QED
    BY <1>0, <2>1
<1> QED
  BY <1>0, <1>2, <1>3, <1>4, OthersLeave

\* Only the daemon stops or parks.
CommandLabels == \A c \in Commands : pc[c] \notin {"stopped", "parked"}

LEMMA CommandLabelsHold == Spec => []CommandLabels
<1>1. Init => CommandLabels
  BY ActorsAssumption DEF Init, CommandLabels, Commands, Actors
<1>2. IInv /\ CommandLabels /\ [Next]_vars => CommandLabels'
  BY CommandDescends DEF CommandLabels
<1> QED
  BY <1>1, <1>2, InvHolds, PTL DEF Spec

\* Every `login`, `enroll`, `logout` and `status` that has begun comes to its
\* end, whatever else runs, fails or is revoked: nobody waits for anybody.
THEOREM EveryCommandEnds == FairSpec /\ []NeverStuck => CommandsEnd
<1> SUFFICES ASSUME NEW c \in Commands
             PROVE  FairSpec /\ []NeverStuck => (pc[c] # "idle" ~> pc[c] = "done")
  BY DEF CommandsEnd
<1> DEFINE Begun   == pc[c] \in Labels \ {"idle", "stopped", "parked"}
           Left(n) == Begun /\ StepsLeft(pc[c]) = n
           Nearer(n) == Begun /\ StepsLeft(pc[c]) < n
           Good    == IInv /\ CommandLabels
<1>0. \A l \in Labels : StepsLeft(l) \in 0..5
  BY DEF Labels, StepsLeft
<1>1. Good /\ pc[c] # "idle" => Left(5) \/ Left(4) \/ Left(3) \/ Left(2) \/ Left(1) \/ Left(0)
  <2>1. Good => pc[c] \in Labels \ {"stopped", "parked"}
    BY DEF IInv, TypeOK, CommandLabels, Actors
  <2> QED
    BY <1>0, <2>1
<1>2. Left(0) => pc[c] = "done"
  BY DEF Labels, StepsLeft
<1>3. ASSUME NEW n \in 1..5
      PROVE  /\ Good /\ Left(n) /\ [Next]_vars => Left(n)' \/ Nearer(n)'
             /\ Good /\ Left(n) /\ [Next]_vars /\ <<ActorStep(c)>>_vars => Nearer(n)'
             /\ NeverStuck /\ Left(n) => ENABLED <<ActorStep(c)>>_vars
  <2>1. Left(n) => pc[c] \notin {"idle", "done"}
    BY DEF StepsLeft
  <2>2. ASSUME Good, Left(n), [Next]_vars
        PROVE  (Left(n)' \/ Nearer(n)') /\ (ActorStep(c) => Nearer(n)')
    <3>1. /\ pc'[c] \in Labels \ {"idle", "stopped", "parked"}
          /\ pc'[c] = pc[c] \/ StepsLeft(pc'[c]) < n
          /\ ActorStep(c) => StepsLeft(pc'[c]) < n
      <4>1. pc'[c] \in Labels
        BY <2>2, InvNext DEF IInv, TypeOK, Actors
      <4> QED
        BY <2>2, <4>1, CommandDescends
    <3>2. StepsLeft(pc'[c]) \in 0..5
      BY <3>1, <1>0
    <3> QED
      BY <2>2, <3>1, <3>2
  <2> QED
    BY <2>1, <2>2 DEF NeverStuck
<1>4. Fairness => GoesOn(c)
  <2>1. Fairness => EverybodyGoesOn
    BY PTL DEF Fairness
  <2>2. EverybodyGoesOn => GoesOn(c)
    BY DEF EverybodyGoesOn, Actors
  <2> QED
    BY <2>1, <2>2
<1>5. /\ Nearer(1)' => Left(0)'
      /\ Nearer(2)' => Left(1)' \/ Left(0)'
      /\ Nearer(3)' => Left(2)' \/ Left(1)' \/ Left(0)'
      /\ Nearer(4)' => Left(3)' \/ Left(2)' \/ Left(1)' \/ Left(0)'
      /\ Nearer(5)' => Left(4)' \/ Left(3)' \/ Left(2)' \/ Left(1)' \/ Left(0)'
  BY <1>0
<1>6. FairSpec => []Good
  BY InvHolds, CommandLabelsHold, PTL DEF FairSpec
<1> HIDE DEF Left, Nearer, Good
<1>7. /\ Good /\ Left(1) /\ [Next]_vars => Left(1)' \/ Left(0)'
      /\ Good /\ Left(1) /\ [Next]_vars /\ <<ActorStep(c)>>_vars => Left(0)'
      /\ NeverStuck /\ Left(1) => ENABLED <<ActorStep(c)>>_vars
  BY <1>3, <1>5
<1>8. /\ Good /\ Left(2) /\ [Next]_vars => Left(2)' \/ Left(1)' \/ Left(0)'
      /\ Good /\ Left(2) /\ [Next]_vars /\ <<ActorStep(c)>>_vars => Left(1)' \/ Left(0)'
      /\ NeverStuck /\ Left(2) => ENABLED <<ActorStep(c)>>_vars
  BY <1>3, <1>5
<1>9. /\ Good /\ Left(3) /\ [Next]_vars => Left(3)' \/ Left(2)' \/ Left(1)' \/ Left(0)'
      /\ Good /\ Left(3) /\ [Next]_vars /\ <<ActorStep(c)>>_vars => Left(2)' \/ Left(1)' \/ Left(0)'
      /\ NeverStuck /\ Left(3) => ENABLED <<ActorStep(c)>>_vars
  BY <1>3, <1>5
<1>10. /\ Good /\ Left(4) /\ [Next]_vars => Left(4)' \/ Left(3)' \/ Left(2)' \/ Left(1)' \/ Left(0)'
       /\ Good /\ Left(4) /\ [Next]_vars /\ <<ActorStep(c)>>_vars => Left(3)' \/ Left(2)' \/ Left(1)' \/ Left(0)'
       /\ NeverStuck /\ Left(4) => ENABLED <<ActorStep(c)>>_vars
  BY <1>3, <1>5
<1>11. /\ Good /\ Left(5) /\ [Next]_vars => Left(5)' \/ Left(4)' \/ Left(3)' \/ Left(2)' \/ Left(1)' \/ Left(0)'
       /\ Good /\ Left(5) /\ [Next]_vars /\ <<ActorStep(c)>>_vars => Left(4)' \/ Left(3)' \/ Left(2)' \/ Left(1)' \/ Left(0)'
       /\ NeverStuck /\ Left(5) => ENABLED <<ActorStep(c)>>_vars
  BY <1>3, <1>5
<1> QED
  BY <1>1, <1>2, <1>4, <1>6, <1>7, <1>8, <1>9, <1>10, <1>11, PTL DEF FairSpec, Spec, GoesOn

\* What was set going comes to rest.
THEOREM AllSettles == FairSpec /\ []NeverStuck => EverythingSettles
BY RevocationsCleanUp, EveryCommandEnds, PTL DEF EverythingSettles
=============================================================================
