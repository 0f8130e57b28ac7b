------------------------------- MODULE LockFile -------------------------------
(***************************************************************************)
(* The lock file beside a JSON file that several processes rewrite:        *)
(* withExclusiveFileLock of packages/workflow/src/file-store.ts (and its   *)
(* twin in packages/prompts/src/file-store.ts), with the stale lock of a   *)
(* dead process removed by those who wait.                                 *)
(*                                                                         *)
(* A lock is the inode at the lock path: who its metadata names, and       *)
(* whether it is older than 30 seconds.  The metadata is written after the *)
(* file was created.  A waiter looks at the path four times before it      *)
(* removes the lock: lstat, read, lstat, unlink.                           *)
(***************************************************************************)
EXTENDS Integers, FiniteSets

CONSTANTS
  Procs,
  Inodes,
  MaxSaves,    \* bound on the rewrites begun
  MaxCrashes,
  Undisturbed  \* TRUE: a waiter's last lstat and its unlink are not separated,
               \* no inode number is used again while a waiter remembers it,
               \* and a lock is named, or given up, within 30 seconds

VARIABLES
  lockfile,    \* what is at the lock path
  doc,         \* the rewrites that the JSON file contains
  pc,          \* where each process stands
  mine,        \* the rewrite each process makes
  inode,       \* the inode each process has created or observed
  draft,       \* what each process is going to write
  saved,       \* history: rewrites whose rename was made
  saves, crashes

lvars == <<lockfile, doc, pc, mine, inode, draft, saved, saves, crashes>>

NoFile == [ino |-> 0, owner |-> "none", old |-> FALSE]
Unnamed == "unnamed"   \* no metadata yet
Dead == "dead"         \* metadata of a process that has died

Init ==
  /\ lockfile = NoFile
  /\ doc = {}
  /\ pc = [p \in Procs |-> "idle"]
  /\ mine = [p \in Procs |-> 0]
  /\ inode = [p \in Procs |-> 0]
  /\ draft = [p \in Procs |-> {}]
  /\ saved = {}
  /\ saves = 0
  /\ crashes = 0

\* The locals of a call end with it.
Return(p) ==
  /\ pc' = [pc EXCEPT ![p] = "idle"]
  /\ mine' = [mine EXCEPT ![p] = 0]
  /\ inode' = [inode EXCEPT ![p] = 0]
  /\ draft' = [draft EXCEPT ![p] = {}]

Goto(p, there) == pc' = [pc EXCEPT ![p] = there] /\ UNCHANGED <<mine, inode, draft>>

-----------------------------------------------------------------------------
(* Taking the lock. *)

Save(p) ==
  /\ pc[p] = "idle" /\ saves < MaxSaves
  /\ saves' = saves + 1
  /\ mine' = [mine EXCEPT ![p] = saves + 1]
  /\ pc' = [pc EXCEPT ![p] = "wanting"]
  /\ UNCHANGED <<lockfile, doc, inode, draft, saved, crashes>>

\* An inode number is free when no file and no open handle has it.
Holds(p) == pc[p] \in {"created", "holding", "loaded"}
FreeInodes ==
  Inodes \ ({lockfile.ino} \cup {inode[p] : p \in {q \in Procs : Undisturbed \/ Holds(q)}})

\* open(O_CREAT | O_EXCL)
Create(p) ==
  /\ pc[p] = "wanting" /\ lockfile = NoFile
  /\ \E i \in FreeInodes :
       /\ lockfile' = [ino |-> i, owner |-> Unnamed, old |-> FALSE]
       /\ inode' = [inode EXCEPT ![p] = i]
  /\ pc' = [pc EXCEPT ![p] = "created"]
  /\ UNCHANGED <<doc, mine, draft, saved, saves, crashes>>

\* The metadata goes to the open handle, wherever the path leads by now.
Name(p) ==
  /\ pc[p] = "created"
  /\ lockfile' = IF lockfile.ino = inode[p]
                 THEN [lockfile EXCEPT !.owner = p, !.old = FALSE] ELSE lockfile
  /\ Goto(p, "holding")
  /\ UNCHANGED <<doc, saved, saves, crashes>>

\* The write of the metadata fails: unlinkMatchingFile, and the call rejects.
NameFails(p) ==
  /\ pc[p] = "created"
  /\ Goto(p, "mine")
  /\ UNCHANGED <<lockfile, doc, saved, saves, crashes>>

-----------------------------------------------------------------------------
(* The lock is held: the file is read, and replaced by a rename. *)

Load(p) ==
  /\ pc[p] = "holding"
  /\ draft' = [draft EXCEPT ![p] = doc \cup {mine[p]}]
  /\ pc' = [pc EXCEPT ![p] = "loaded"]
  /\ UNCHANGED <<lockfile, doc, mine, inode, saved, saves, crashes>>

Replace(p) ==
  /\ pc[p] = "loaded"
  /\ doc' = draft[p]
  /\ saved' = saved \cup {mine[p]}
  /\ Goto(p, "releasing")
  /\ UNCHANGED <<lockfile, saves, crashes>>

\* The read, the change or the write throws.
Abort(p) ==
  /\ pc[p] \in {"holding", "loaded"}
  /\ Goto(p, "releasing")
  /\ UNCHANGED <<lockfile, doc, saved, saves, crashes>>

\* unlinkOwnedLock: lstat and token.
Owns(p) == lockfile.ino = inode[p] /\ lockfile.owner = p

Confirm(p) ==
  /\ pc[p] = "releasing"
  /\ IF Owns(p) THEN Goto(p, "mine") ELSE Return(p)
  /\ UNCHANGED <<lockfile, doc, saved, saves, crashes>>

-----------------------------------------------------------------------------
(* The lock is taken (EEXIST): wait, time out, or remove a stale lock. *)

\* The faulty variant takes age alone for death.
DeclaredDeadByAge(file) == file # NoFile

\* Malformed metadata names nobody.
DeclaredDead(file) == file.owner \in {Dead, Unnamed}

Inspect(p) ==
  /\ pc[p] = "wanting" /\ lockfile.old
  /\ inode' = [inode EXCEPT ![p] = lockfile.ino]
  /\ pc' = [pc EXCEPT ![p] = "inspecting"]
  /\ UNCHANGED <<lockfile, doc, mine, draft, saved, saves, crashes>>

Suspect(p) ==
  /\ pc[p] = "inspecting"
  /\ Goto(p, IF lockfile # NoFile /\ DeclaredDead(lockfile) THEN "stale" ELSE "wanting")
  /\ UNCHANGED <<lockfile, doc, saved, saves, crashes>>

Timeout(p) ==
  /\ pc[p] = "wanting" /\ lockfile # NoFile
  /\ Return(p)
  /\ UNCHANGED <<lockfile, doc, saved, saves, crashes>>

\* The last lstat of a waiter, and then that of the owner itself.
Match(p) ==
  /\ \/ /\ pc[p] = "stale"
        /\ Goto(p, IF lockfile.ino = inode[p] THEN "reaping" ELSE "wanting")
     \/ /\ pc[p] = "mine"
        /\ IF lockfile.ino = inode[p] THEN Goto(p, "unlinking") ELSE Return(p)
  /\ UNCHANGED <<lockfile, doc, saved, saves, crashes>>

\* unlink removes what the path leads to; a waiter whose unlink finds nothing
\* rejects with ENOENT.
Unlink(p) ==
  /\ \/ pc[p] = "reaping" /\ lockfile # NoFile /\ Goto(p, "wanting")
     \/ pc[p] = "reaping" /\ lockfile = NoFile /\ Return(p)
     \/ pc[p] = "unlinking" /\ Return(p)
  /\ lockfile' = NoFile
  /\ UNCHANGED <<doc, saved, saves, crashes>>

-----------------------------------------------------------------------------
\* 30 seconds pass.
Age ==
  /\ lockfile # NoFile /\ ~ lockfile.old
  /\ Undisturbed /\ lockfile.owner = Unnamed =>
       \A p \in Procs : pc[p] \notin {"created", "mine", "unlinking"}
  /\ lockfile' = [lockfile EXCEPT !.old = TRUE]
  /\ UNCHANGED <<doc, pc, mine, inode, draft, saved, saves, crashes>>

\* A process dies, and is started again.
Crash(p) ==
  /\ pc[p] # "idle" /\ crashes < MaxCrashes
  /\ crashes' = crashes + 1
  /\ Return(p)
  /\ lockfile' = IF lockfile.owner = p THEN [lockfile EXCEPT !.owner = Dead] ELSE lockfile
  /\ UNCHANGED <<doc, saved, saves>>

Proceed(p) ==
  \/ Save(p) \/ Create(p) \/ Name(p) \/ NameFails(p) \/ Load(p) \/ Replace(p)
  \/ Abort(p) \/ Confirm(p) \/ Inspect(p) \/ Suspect(p) \/ Timeout(p)
  \/ Match(p) \/ Crash(p)

AboutToReap == {p \in Procs : pc[p] = "reaping"}

Next ==
  \/ \E p \in Procs : Unlink(p)
  \/ /\ Undisturbed => AboutToReap = {}
     /\ Age \/ \E p \in Procs : Proceed(p)

Spec == Init /\ [][Next]_lvars

-----------------------------------------------------------------------------
\* Every variable has its type.
TypeOK ==
  /\ lockfile \in [ino : Inodes \cup {0}, owner : Procs \cup {"none", Unnamed, Dead},
                   old : BOOLEAN]
  /\ pc \in [Procs -> {"idle", "wanting", "created", "holding", "loaded", "releasing",
                      "mine", "inspecting", "stale", "reaping", "unlinking"}]
  /\ inode \in [Procs -> Inodes \cup {0}]
  /\ mine \in [Procs -> 0..MaxSaves]
  /\ draft \in [Procs -> SUBSET (1..MaxSaves)]
  /\ doc \subseteq 1..MaxSaves /\ saved \subseteq 1..MaxSaves
  /\ saves \in 0..MaxSaves /\ crashes \in 0..MaxCrashes

\* A rewrite that was made stays in the file, whoever crashed, waited too long
\* or cleared a stale lock in between.
SavesStay == saved = doc
=============================================================================
