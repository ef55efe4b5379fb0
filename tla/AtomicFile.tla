----------------------------- MODULE AtomicFile -----------------------------
(***************************************************************************)
(* TokenStore.Save, Load and Delete (internal/transport/token_store.go) on *)
(* a file system with a cache: temporary file, write, fsync, close, chmod, *)
(* rename, with every error path, several processes, kills and power       *)
(* losses.  SaveMetadata and LoadMetadata (metadata.go) are the same steps *)
(* on the other file.                                                      *)
(*                                                                         *)
(* Each call of Save writes an inode of its own, named after it: CreateTemp*)
(* never returns a name that exists.  The cache may reach the disk at any  *)
(* moment, file contents and directory independently.                      *)
(***************************************************************************)
CONSTANTS
  Writers,   \* the calls of Save, each with a token of its own
  Readers,   \* the calls of Load
  Old,       \* the token that was there before
  None

ASSUME NamesAssumption == Old \notin Writers /\ None \notin Writers \cup {Old}

Files == Writers \cup {Old}

VARIABLES
  pc,          \* where each Save is
  opened,      \* the file each Load holds open
  entry,       \* the directory: the inode under the name agent.token
  temps,       \* ... and those under a temporary name
  content,     \* what each inode holds
  diskEntry, diskTemps, diskContent,   \* the same three on the disk
  littered     \* history: a process died, or cleaning up failed

cache == <<entry, temps, content>>
disk  == <<diskEntry, diskTemps, diskContent>>
vars  == <<pc, opened, cache, disk, littered>>

Init ==
  /\ pc = [w \in Writers |-> "create"]
  /\ opened = [r \in Readers |-> None]
  /\ entry \in {Old, None} /\ diskEntry = entry
  /\ temps = {} /\ diskTemps = {}
  /\ content = [f \in Files |-> IF f = Old THEN "whole" ELSE "empty"]
  /\ diskContent = content
  /\ littered = FALSE

Steps == {"write", "sync", "close", "chmod", "rename"}

\* Regression: the file is made private after it got its name.
AfterRenameFirst(step) ==
  CASE step = "sync"   -> "close"
    [] step = "close"  -> "rename"
    [] step = "rename" -> "chmod"
    [] OTHER           -> "ok"

\* The order of Save's calls after the write.
After(step) ==
  CASE step = "sync"   -> "close"
    [] step = "close"  -> "chmod"
    [] step = "chmod"  -> "rename"
    [] OTHER           -> "ok"

Goto(w, step) == pc' = [pc EXCEPT ![w] = step]

-----------------------------------------------------------------------------
(* Save. *)

CreateTemp(w) ==
  /\ pc[w] = "create"
  /\ temps' = temps \cup {w}
  /\ Goto(w, "write")
  /\ UNCHANGED <<opened, entry, content, disk, littered>>

\* WriteString: a part of the line, then all of it.
WritePart(w) ==
  /\ pc[w] = "write" /\ content[w] = "empty"
  /\ content' = [content EXCEPT ![w] = "part"]
  /\ UNCHANGED <<pc, opened, entry, temps, disk, littered>>

WriteAll(w) ==
  /\ pc[w] = "write"
  /\ content' = [content EXCEPT ![w] = "whole"]
  /\ Goto(w, "sync")
  /\ UNCHANGED <<opened, entry, temps, disk, littered>>

\* Regression: without the fsync.
SyncSkipped(w) ==
  /\ pc[w] = "sync"
  /\ Goto(w, After("sync"))
  /\ UNCHANGED <<opened, cache, disk, littered>>

Sync(w) ==
  /\ pc[w] = "sync"
  /\ diskContent' = [diskContent EXCEPT ![w] = content[w]]
  /\ Goto(w, After("sync"))
  /\ UNCHANGED <<opened, cache, diskEntry, diskTemps, littered>>

CloseOrChmod(w) ==
  /\ pc[w] \in {"close", "chmod"}
  /\ Goto(w, After(pc[w]))
  /\ UNCHANGED <<opened, cache, disk, littered>>

\* Regression: the temporary name stays beside the new one.
RenameAsLink(w) ==
  /\ pc[w] = "rename"
  /\ entry' = w
  /\ Goto(w, After("rename"))
  /\ UNCHANGED <<opened, temps, content, disk, littered>>

Rename(w) ==
  /\ pc[w] = "rename"
  /\ entry' = w
  /\ temps' = temps \ {w}
  /\ Goto(w, After("rename"))
  /\ UNCHANGED <<opened, content, disk, littered>>

\* An empty token, mkdir and CreateTemp itself: nothing to clean up yet.
CreateFails(w) ==
  /\ pc[w] = "create"
  /\ Goto(w, "error")
  /\ UNCHANGED <<opened, cache, disk, littered>>

\* Regression: an error path without cleanup.
StepFailsUncleaned(w) ==
  /\ pc[w] \in Steps
  /\ Goto(w, "error")
  /\ UNCHANGED <<opened, cache, disk, littered>>

\* Every later error returns through cleanup, whose own error is dropped.
StepFails(w) ==
  /\ pc[w] \in Steps
  /\ \/ temps' = temps \ {w} /\ UNCHANGED littered
     \/ littered' = TRUE /\ UNCHANGED temps
  /\ Goto(w, "error")
  /\ UNCHANGED <<opened, entry, content, disk>>

-----------------------------------------------------------------------------
(* Load and Delete. *)

\* os.ReadFile opens what the name stands for, and reads it later.
Open(r) ==
  /\ opened[r] = None /\ entry # None
  /\ opened' = [opened EXCEPT ![r] = entry]
  /\ UNCHANGED <<pc, cache, disk, littered>>

ReadClose(r) ==
  /\ opened[r] # None
  /\ opened' = [opened EXCEPT ![r] = None]
  /\ UNCHANGED <<pc, cache, disk, littered>>

\* A missing file is not an error.
Delete ==
  /\ entry' = None
  /\ UNCHANGED <<pc, opened, temps, content, disk, littered>>

-----------------------------------------------------------------------------
(* The operating system. *)

Writeback(f) ==
  /\ diskContent' = [diskContent EXCEPT ![f] = content[f]]
  /\ UNCHANGED <<pc, opened, cache, diskEntry, diskTemps, littered>>

FlushDirectory ==
  /\ diskEntry' = entry /\ diskTemps' = temps
  /\ UNCHANGED <<pc, opened, cache, diskContent, littered>>

Killed(w) ==
  /\ pc[w] \in Steps \cup {"create"}
  /\ Goto(w, "dead")
  /\ littered' = TRUE
  /\ UNCHANGED <<opened, cache, disk>>

PowerLoss ==
  /\ pc' = [w \in Writers |-> IF pc[w] \in Steps \cup {"create"} THEN "dead" ELSE pc[w]]
  /\ opened' = [r \in Readers |-> None]
  /\ entry' = diskEntry /\ temps' = diskTemps /\ content' = diskContent
  /\ littered' = TRUE
  /\ UNCHANGED disk

Save(w) ==
  \/ CreateTemp(w)
  \/ WritePart(w)
  \/ WriteAll(w)
  \/ Sync(w)
  \/ CloseOrChmod(w)
  \/ Rename(w)
  \/ CreateFails(w)
  \/ StepFails(w)

Next ==
  \/ \E w \in Writers : Save(w) \/ Killed(w)
  \/ \E r \in Readers : Open(r) \/ ReadClose(r)
  \/ Delete
  \/ \E f \in Files : Writeback(f)
  \/ FlushDirectory
  \/ PowerLoss

Spec == Init /\ [][Next]_vars

-----------------------------------------------------------------------------
(* Properties *)

\* Every process and every file is in one of its states, and no inode has two
\* names.
TypeOK ==
  /\ pc \in [Writers -> Steps \cup {"create", "ok", "error", "dead"}]
  /\ opened \in [Readers -> Files \cup {None}]
  /\ entry \in Files \cup {None} /\ diskEntry \in Files \cup {None}
  /\ temps \subseteq Writers /\ diskTemps \subseteq Writers
  /\ content \in [Files -> {"empty", "part", "whole"}]
  /\ diskContent \in [Files -> {"empty", "part", "whole"}]
  /\ littered \in BOOLEAN
  /\ entry \notin temps /\ diskEntry \notin diskTemps

\* "A crash mid-write never leaves a truncated token on disk"
\* (token_store.go:52-54): whoever reads agent.token now, or after a power loss
\* at this moment, or goes on reading a file that was replaced meanwhile, finds
\* a whole token.
NeverTruncated ==
  /\ entry # None => content[entry] = "whole"
  /\ diskEntry # None => diskContent[diskEntry] = "whole"
  /\ \A r \in Readers : opened[r] # None => content[opened[r]] = "whole"

\* A temporary file, which holds a secret, outlives its Save only if a process
\* died or the file system refused to remove it (cleanup, token_store.go:69).
LitterOnlyByCrash ==
  \A w \in temps : pc[w] \in Steps \/ littered

\* Save replaces the token in one step and says so, or leaves it alone and
\* reports an error; no crash mixes two tokens; a power loss may take back what
\* the directory had not flushed (no fsync follows the rename).
Register == INSTANCE FileRegister WITH
  value <- entry,
  kept  <- diskEntry,
  save  <- [w \in Writers |-> IF pc[w] \in Steps \cup {"create"} THEN "open" ELSE pc[w]]

ImplementsRegister == Register!Spec
=============================================================================
