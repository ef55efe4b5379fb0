-------------------------- MODULE AtomicFileProofs --------------------------
(***************************************************************************)
(* What holds of AtomicFile for any number of concurrent Saves and Loads:  *)
(* the type, whole tokens, no litter, and the register it implements.      *)
(***************************************************************************)
EXTENDS AtomicFile, TLAPS

\* A file that has, or ever had, the name agent.token.
Published(f) == f = Old \/ (f \in Writers /\ pc[f] = "ok")

\* From its fsync on a file is whole in the cache and on the disk, and stays so;
\* only such files are ever published.
Settled ==
  /\ content[Old] = "whole" /\ diskContent[Old] = "whole"
  /\ \A w \in Writers : pc[w] \in {"close", "chmod", "rename", "ok"} =>
       content[w] = "whole" /\ diskContent[w] = "whole"
  /\ \A w \in Writers : pc[w] = "sync" => content[w] = "whole"
  /\ entry # None => Published(entry)
  /\ diskEntry # None => Published(diskEntry)
  /\ \A r \in Readers : opened[r] # None => Published(opened[r])

IInv == TypeOK /\ Settled /\ LitterOnlyByCrash

LEMMA InvInit == Init => IInv
<1> SUFFICES ASSUME Init PROVE IInv
  OBVIOUS
<1>1. littered \in BOOLEAN
  BY Zenon DEF Init
<1> QED
  BY <1>1, NamesAssumption, SMT DEF Init, IInv, TypeOK, Settled, Published, LitterOnlyByCrash, Files

LEMMA MarkStep == littered \in BOOLEAN /\ Next => littered' \in BOOLEAN
<1> SUFFICES ASSUME littered \in BOOLEAN, Next PROVE littered' \in BOOLEAN
  OBVIOUS
<1>1. ASSUME NEW w \in Writers, Save(w) PROVE littered' \in BOOLEAN
  BY <1>1, Zenon DEF Save, CreateTemp, WritePart, WriteAll, Sync, CloseOrChmod, Rename, CreateFails, StepFails
<1>2. ASSUME NEW w \in Writers, Killed(w) PROVE littered' \in BOOLEAN
  BY <1>2, Zenon DEF Killed
<1>3. ASSUME NEW r \in Readers, Open(r) \/ ReadClose(r) PROVE littered' \in BOOLEAN
  BY <1>3, Zenon DEF Open, ReadClose
<1>4. ASSUME NEW f \in Files, Writeback(f) PROVE littered' \in BOOLEAN
  BY <1>4, Zenon DEF Writeback
<1>5. CASE Delete \/ FlushDirectory \/ PowerLoss
  BY <1>5, Zenon DEF Delete, FlushDirectory, PowerLoss
<1> QED
  BY <1>1, <1>2, <1>3, <1>4, <1>5 DEF Next

\* A call of Save takes a step.
LEMMA SaveStep ==
  ASSUME IInv, littered' \in BOOLEAN, NEW w \in Writers, Save(w)
  PROVE  IInv'
<1> USE NamesAssumption DEF IInv, TypeOK, Settled, Published, LitterOnlyByCrash, Files, Steps, Goto, cache, disk
<1>1. CASE CreateTemp(w)
  BY <1>1, SMT DEF CreateTemp
<1>2. CASE WritePart(w)
  BY <1>2, SMT DEF WritePart
<1>3. CASE WriteAll(w)
  BY <1>3, SMT DEF WriteAll
<1>4. CASE Sync(w)
  BY <1>4, SMT DEF Sync, After
<1>5. CASE CloseOrChmod(w)
  BY <1>5, SMT DEF CloseOrChmod, After
<1>6. CASE Rename(w)
  BY <1>6, SMT DEF Rename, After
<1>7. CASE CreateFails(w)
  BY <1>7, SMT DEF CreateFails
<1>8. CASE StepFails(w)
  BY <1>8, SMT DEF StepFails
<1> QED
  BY <1>1, <1>2, <1>3, <1>4, <1>5, <1>6, <1>7, <1>8 DEF Save

\* Readers, deletions and the operating system.
LEMMA OtherStep ==
  ASSUME IInv, littered' \in BOOLEAN,
         \/ \E w \in Writers : Killed(w)
         \/ \E r \in Readers : Open(r) \/ ReadClose(r)
         \/ Delete
         \/ \E f \in Files : Writeback(f)
         \/ FlushDirectory
         \/ PowerLoss
  PROVE  IInv'
<1> USE NamesAssumption DEF IInv, TypeOK, Settled, Published, LitterOnlyByCrash, Files, Steps, cache, disk
<1>1. ASSUME NEW w \in Writers, Killed(w) PROVE IInv'
  BY <1>1, SMT DEF Killed, Goto
<1>2. ASSUME NEW r \in Readers, Open(r) PROVE IInv'
  BY <1>2, SMT DEF Open
<1>3. ASSUME NEW r \in Readers, ReadClose(r) PROVE IInv'
  BY <1>3, SMT DEF ReadClose
<1>4. CASE Delete
  BY <1>4, SMT DEF Delete
<1>5. ASSUME NEW f \in Files, Writeback(f) PROVE IInv'
  BY <1>5, SMT DEF Writeback
<1>6. CASE FlushDirectory
  BY <1>6, SMT DEF FlushDirectory
<1>7. CASE PowerLoss
  BY <1>7, SMT DEF PowerLoss
<1> QED
  BY <1>1, <1>2, <1>3, <1>4, <1>5, <1>6, <1>7

LEMMA InvNext == IInv /\ [Next]_vars => IInv'
<1> SUFFICES ASSUME IInv, [Next]_vars PROVE IInv'
  OBVIOUS
<1>1. CASE Next
  <2>1. littered' \in BOOLEAN
    BY <1>1, MarkStep DEF IInv, TypeOK
  <2> QED
    BY <1>1, <2>1, SaveStep, OtherStep DEF Next
<1>2. CASE UNCHANGED vars
  BY <1>2, SMT DEF vars, cache, disk, IInv, TypeOK, Settled, Published, LitterOnlyByCrash
<1> QED
  BY <1>1, <1>2

\* The strengthened invariant holds throughout.
LEMMA InvHolds == Spec => []IInv
BY InvInit, InvNext, PTL DEF Spec

\* Every variable keeps its type, and no file has two names.
THEOREM TypeCorrect == Spec => []TypeOK
BY InvHolds, PTL DEF IInv

\* No kill, error or power loss leaves a truncated token for anyone to read.
THEOREM TokensAreWhole == Spec => []NeverTruncated
<1>1. IInv => NeverTruncated
  BY NamesAssumption, SMT DEF IInv, TypeOK, Settled, Published, NeverTruncated, Files
<1> QED
  BY <1>1, InvHolds, PTL

\* Temporary files are litter of crashes alone.
THEOREM NoLitter == Spec => []LitterOnlyByCrash
BY InvHolds, PTL DEF IInv

-----------------------------------------------------------------------------
(* The register. *)

\* What became of each call of Save: the mapping of pc.
SaveState == [w \in Writers |-> IF pc[w] \in Steps \cup {"create"} THEN "open" ELSE pc[w]]

\* A call that ends is seen to end.
LEMMA SaveEnds ==
  ASSUME NEW w \in Writers, NEW outcome \in {"ok", "error", "dead"}, TypeOK,
         pc[w] \in Steps \cup {"create"}, pc' = [pc EXCEPT ![w] = outcome]
  PROVE  SaveState[w] = "open" /\ SaveState' = [SaveState EXCEPT ![w] = outcome]
<1>1. SaveState[w] = "open"
  BY DEF SaveState
<1> DEFINE Seen(v) == IF pc'[v] \in Steps \cup {"create"} THEN "open" ELSE pc'[v]
<1>2. ASSUME NEW v \in Writers PROVE Seen(v) = [SaveState EXCEPT ![w] = outcome][v]
  <2>1. CASE v = w
    BY <2>1, SMT DEF SaveState, TypeOK, Steps
  <2>2. CASE v # w
    BY <2>2, SMT DEF SaveState, TypeOK
  <2> QED
    BY <2>1, <2>2
<1>3. SaveState' = [v \in Writers |-> Seen(v)]
  BY DEF SaveState
<1>4. [SaveState EXCEPT ![w] = outcome] = [v \in Writers |-> [SaveState EXCEPT ![w] = outcome][v]]
  BY Zenon DEF SaveState
<1> HIDE DEF Seen
<1>5. SaveState' = [SaveState EXCEPT ![w] = outcome]
  BY <1>2, <1>3, <1>4, Zenon
<1> QED
  BY <1>1, <1>5

\* A step of Save replaces the value, reports an error, or is not seen.
LEMMA SaveMaps ==
  ASSUME IInv, NEW w \in Writers, Save(w)
  PROVE  [Register!Next]_Register!registerVars
<1> USE DEF IInv, TypeOK, Steps, Goto, cache, disk, Register!registerVars
<1>1. CASE pc'[w] \in Steps /\ pc' = [pc EXCEPT ![w] = pc'[w]]
  <2>1. pc[w] \in Steps \cup {"create"} /\ UNCHANGED <<entry, diskEntry>>
    BY <1>1, SMT DEF Save, CreateTemp, WritePart, WriteAll, Sync, CloseOrChmod, Rename, CreateFails, StepFails, After
  <2>2. UNCHANGED SaveState
    BY <1>1, <2>1, SMT DEF SaveState
  <2> QED
    BY <2>1, <2>2 DEF SaveState
<1>2. CASE Rename(w)
  <2>1. pc[w] = "rename" /\ pc' = [pc EXCEPT ![w] = "ok"] /\ entry' = w /\ diskEntry' = diskEntry
    BY <1>2, SMT DEF Rename, After
  <2>2. SaveState[w] = "open" /\ SaveState' = [SaveState EXCEPT ![w] = "ok"]
    BY <2>1, SaveEnds
  <2>3. Register!Write(w)
    BY <2>1, <2>2 DEF Register!Write, SaveState
  <2> QED
    BY <2>3 DEF Register!Next
<1>3. CASE CreateFails(w) \/ StepFails(w)
  <2>1. /\ pc[w] \in Steps \cup {"create"} /\ pc' = [pc EXCEPT ![w] = "error"]
        /\ UNCHANGED <<entry, diskEntry>>
    BY <1>3, SMT DEF CreateFails, StepFails
  <2>2. SaveState[w] = "open" /\ SaveState' = [SaveState EXCEPT ![w] = "error"]
    BY <2>1, SaveEnds
  <2>3. Register!Fail(w)
    BY <2>1, <2>2 DEF Register!Fail, SaveState
  <2> QED
    BY <2>3 DEF Register!Next
<1>4. CASE CreateTemp(w) \/ WritePart(w) \/ WriteAll(w) \/ Sync(w) \/ CloseOrChmod(w)
  <2>1. pc'[w] \in Steps /\ pc' = [pc EXCEPT ![w] = pc'[w]]
    BY <1>4, SMT DEF CreateTemp, WritePart, WriteAll, Sync, CloseOrChmod, After
  <2> QED
    BY <1>1, <2>1
<1> QED
  BY <1>2, <1>3, <1>4 DEF Save

\* Every step of the file is a step of the register or none.
LEMMA StepMaps == IInv /\ [Next]_vars => [Register!Next]_Register!registerVars
<1> SUFFICES ASSUME IInv, [Next]_vars PROVE [Register!Next]_Register!registerVars
  OBVIOUS
<1> USE DEF IInv, TypeOK, cache, disk, Register!registerVars
<1>1. ASSUME NEW w \in Writers, Killed(w) PROVE [Register!Next]_Register!registerVars
  <2>1. /\ pc[w] \in Steps \cup {"create"} /\ pc' = [pc EXCEPT ![w] = "dead"]
        /\ UNCHANGED <<entry, diskEntry>>
    BY <1>1, SMT DEF Killed, Goto
  <2>2. SaveState[w] = "open" /\ SaveState' = [SaveState EXCEPT ![w] = "dead"]
    BY <2>1, SaveEnds
  <2>3. Register!Die(w)
    BY <2>1, <2>2 DEF Register!Die, SaveState
  <2> QED
    BY <2>3 DEF Register!Next
<1>2. CASE \/ \E r \in Readers : Open(r) \/ ReadClose(r)
           \/ \E f \in Files : Writeback(f)
           \/ UNCHANGED vars
  <2>1. UNCHANGED <<pc, entry, diskEntry>>
    BY <1>2, SMT DEF Open, ReadClose, Writeback, vars
  <2> QED
    BY <2>1
<1>3. CASE Delete
  BY <1>3 DEF Delete, Register!Next, Register!Remove
<1>4. CASE FlushDirectory
  BY <1>4 DEF FlushDirectory, Register!Next, Register!Flush
<1>5. CASE PowerLoss
  <2>1. SaveState' = [w \in Writers |-> IF SaveState[w] = "open" THEN "dead" ELSE SaveState[w]]
    BY <1>5, SMT DEF PowerLoss, SaveState, Steps
  <2>2. Register!Loss
    BY <1>5, <2>1 DEF PowerLoss, Register!Loss, SaveState
  <2> QED
    BY <2>2 DEF Register!Next
<1> QED
  BY <1>1, <1>2, <1>3, <1>4, <1>5, SaveMaps DEF Next

\* TokenStore is a register to everyone who uses it.
THEOREM FileIsRegister == Spec => ImplementsRegister
<1>1. Init => Register!Init
  BY DEF Init, Register!Init
<1> QED
  BY <1>1, StepMaps, InvHolds, PTL DEF Spec, ImplementsRegister, Register!Spec
=============================================================================
