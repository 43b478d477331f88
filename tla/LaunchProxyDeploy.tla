--------------------------- MODULE LaunchProxyDeploy ---------------------------
(***************************************************************************)
(* The launch proxy in a game's directory: install and remove as sequences *)
(* of file operations.  The game loads steam_api64.dll ("original"); the   *)
(* tool puts its proxy there and keeps the game's own DLL as "saved".  A   *)
(* file operation may fail, the tool may be killed between any two of them *)
(* and Steam may put a DLL of its own back; one directory entry changes at *)
(* a time.  Digests decide equality of contents, so contents are compared. *)
(***************************************************************************)
EXTENDS Naturals, Sequences

CONSTANTS
  Tools,                                   \* processes that run launch-proxy
  Versions,                                \* the game's own DLL, as Steam ships it
  Proxy, Runtime, Config, Partial, Absent, \* contents of files, or of none
  MaxMishaps                               \* bound: failed calls, kills and Steam updates

ASSUME ContentsAssumption ==
  /\ MaxMishaps \in Nat
  /\ {Proxy, Runtime, Config, Partial, Absent} \cap Versions = {}
  /\ Absent \notin {Proxy, Runtime, Config, Partial}
  /\ Partial \notin {Proxy, Runtime, Config}
  /\ Proxy \notin {Runtime, Config} /\ Runtime # Config
  /\ \A v \in Versions \cup {Proxy} : [original |-> v] # Absent   \* a marker is a file

VARIABLES
  disk,      \* the contents of each file
  cfgDir,    \* the config directory exists
  pc, step,  \* where each tool is, and in which item of a list
  seen,      \* the digest of the game's DLL in its Deployment record
  created,   \* it created the config directory
  clean,     \* nothing but the failure that started a rollback went wrong
  raced,     \* Steam replaced the DLL under a tool that ran or was interrupted
  mishaps

vars == <<disk, cfgDir, pc, step, seen, created, clean, raced, mishaps>>

Names == {"original", "saved", "runtime", "config", "marker", "quarantine",
          "stagedProxy", "stagedRuntime", "stagedConfig", "stagedMarker"}

Dlls == Versions \cup {Proxy}

\* The deployment marker holds the digest of the DLL it replaced.
Marker(v) == [original |-> v]

Contents == Dlls \cup {Runtime, Config, Partial, Absent} \cup {Marker(v) : v \in Dlls}

Places == {"idle", "read", "mkdir", "absent", "write", "rename", "check", "installed",
           "undo", "undoProxy", "undoOriginal", "undoRename", "undoFiles", "undoMarker",
           "undoDir", "rolledBack",
           "quarantine", "restore", "unquarantine", "verify", "clean", "removed"}

Present(n) == disk[n] # Absent

\* What a directory with the DLL v and nothing of the tool's holds.
Pristine(v) == [n \in Names |-> IF n = "original" THEN v ELSE Absent]

Staged == <<"stagedProxy", "stagedRuntime", "stagedConfig", "stagedMarker">>

Payload(v) == <<Proxy, Runtime, Config, Marker(v)>>

\* The renames of an installation; the marker comes last.
Renames == <<[from |-> "stagedRuntime", to |-> "runtime"],
             [from |-> "stagedConfig", to |-> "config"],
             [from |-> "original", to |-> "saved"],
             [from |-> "stagedProxy", to |-> "original"],
             [from |-> "stagedMarker", to |-> "marker"]>>

\* What a rollback deletes, and what it must find there to do so.
Owned == <<[name |-> "runtime", is |-> Runtime],
           [name |-> "config", is |-> Config],
           [name |-> "stagedProxy", is |-> Proxy],
           [name |-> "stagedRuntime", is |-> Runtime],
           [name |-> "stagedConfig", is |-> Config]>>

Leftovers == <<"quarantine", "runtime", "config", "marker">>

Init ==
  /\ \E v \in Versions : disk = Pristine(v)
  /\ cfgDir \in BOOLEAN
  /\ pc = [t \in Tools |-> "idle"]
  /\ step = [t \in Tools |-> 1]
  /\ \E v \in Versions : seen = [t \in Tools |-> v]
  /\ created = [t \in Tools |-> FALSE]
  /\ clean = [t \in Tools |-> TRUE]
  /\ raced = FALSE
  /\ mishaps = 0

At(t, p, i) == pc' = [pc EXCEPT ![t] = p] /\ step' = [step EXCEPT ![t] = i]

Goto(t, p) == At(t, p, 1)

\* After an item of a list of n: the next item, or on to p.
NextOf(t, n, p) == IF step[t] < n THEN At(t, pc[t], step[t] + 1) ELSE Goto(t, p)

Delete(n) == disk' = [disk EXCEPT ![n] = Absent]

\* fs::rename replaces what is at the new name.
Move(from, to) == disk' = [disk EXCEPT ![to] = disk[from], ![from] = Absent]

Mishap == mishaps < MaxMishaps /\ mishaps' = mishaps + 1

runVars == <<cfgDir, seen, created, clean>>   \* what most calls leave alone

\* A call that only looks.
Look(t, p) == Goto(t, p) /\ UNCHANGED <<disk, runVars, raced, mishaps>>

\* A call that can change files and no more.
Alter == UNCHANGED <<runVars, raced, mishaps>>

-----------------------------------------------------------------------------
(* install *)

\* Fault: a directory that has a saved DLL is taken for a pristine one.
IsPristineUnsaved ==
  Present("original") /\ \A n \in Names \ {"original", "saved"} : ~Present(n)

\* status_preflight: a DLL and nothing of the tool's.
IsPristine == Present("original") /\ \A n \in Names \ {"original"} : ~Present(n)

Preflight(t) ==
  /\ pc[t] = "idle" /\ IsPristine
  /\ Goto(t, "read")
  /\ clean' = [clean EXCEPT ![t] = TRUE]
  /\ created' = [created EXCEPT ![t] = FALSE]
  /\ UNCHANGED <<disk, cfgDir, seen, raced, mishaps>>

\* The DLL is read and the sources are checked; bad input ends the command.
ReadInput(t) ==
  /\ pc[t] = "read"
  /\ \/ disk["original"] \in Dlls /\ seen' = [seen EXCEPT ![t] = disk["original"]] /\ Goto(t, "mkdir")
     \/ Goto(t, "idle") /\ UNCHANGED seen
  /\ UNCHANGED <<disk, cfgDir, created, clean, raced, mishaps>>

MakeDir(t) ==
  /\ pc[t] = "mkdir"
  /\ created' = [created EXCEPT ![t] = ~cfgDir]
  /\ cfgDir' = TRUE
  /\ Goto(t, "absent")
  /\ UNCHANGED <<disk, seen, clean, raced, mishaps>>

MakeDirFails(t) ==
  /\ pc[t] = "mkdir" /\ ~cfgDir /\ Mishap
  /\ Goto(t, "idle")
  /\ UNCHANGED <<disk, cfgDir, seen, created, clean, raced>>

RequireAbsent(t) ==
  /\ pc[t] = "absent"
  /\ Look(t, IF \E i \in 1 .. 4 : Present(Staged[i]) THEN "undo" ELSE "write")

\* write_new: create_new refuses a file that is there.
CanCreate(n) == ~Present(n) /\ (n = "stagedConfig" => cfgDir)

Write(t) ==
  LET n == Staged[step[t]] IN
  /\ pc[t] = "write"
  /\ IF CanCreate(n)
       THEN disk' = [disk EXCEPT ![n] = Payload(seen[t])[step[t]]] /\ NextOf(t, 4, "rename")
       ELSE Goto(t, "undo") /\ UNCHANGED disk
  /\ Alter

\* A write that breaks off, or a kill in the middle of it, leaves part of a file.
TornWrite(t) ==
  /\ pc[t] = "write" /\ CanCreate(Staged[step[t]]) /\ Mishap
  /\ disk' = [disk EXCEPT ![Staged[step[t]]] = Partial]
  /\ \E p \in {"undo", "idle"} : Goto(t, p)
  /\ clean' = [clean EXCEPT ![t] = FALSE]
  /\ UNCHANGED <<cfgDir, seen, created, raced>>

Rename(t) ==
  LET r == Renames[step[t]] IN
  /\ pc[t] = "rename"
  /\ IF Present(r.from)
       THEN Move(r.from, r.to) /\ NextOf(t, 5, "check")
       ELSE Goto(t, "undo") /\ UNCHANGED disk
  /\ Alter

\* Any call of the installation may fail; what follows is the rollback.
InstallFails(t) ==
  /\ pc[t] \in {"write", "rename"} /\ Mishap
  /\ Goto(t, "undo")
  /\ UNCHANGED <<disk, cfgDir, seen, created, clean, raced>>

\* check_installed: every file is the one the marker names.
InstalledOver(v) ==
  /\ disk["marker"] = Marker(v) /\ disk["original"] = Proxy /\ disk["saved"] = v
  /\ disk["runtime"] = Runtime /\ disk["config"] = Config /\ ~Present("quarantine")

Check(t) ==
  /\ pc[t] = "check"
  /\ Look(t, IF \E v \in Dlls : InstalledOver(v) THEN "installed" ELSE "idle")

-----------------------------------------------------------------------------
(* The rollback of an installation: best effort, each step goes on whatever
   became of the one before. *)

\* Fault: the proxy stays where it is, so there is no room for the saved DLL.
UndoKeepsProxy(t) ==
  /\ pc[t] = "undo"
  /\ Look(t, IF disk["saved"] # seen[t] THEN "undoFiles" ELSE "undoOriginal")

\* Only a saved DLL that is known to be the game's is put back.
Undo(t) ==
  /\ pc[t] = "undo"
  /\ Look(t, IF disk["saved"] # seen[t] THEN "undoFiles"
             ELSE IF disk["original"] = Proxy THEN "undoProxy" ELSE "undoOriginal")

UndoProxy(t) ==
  /\ pc[t] = "undoProxy"
  /\ Delete("original")
  /\ Goto(t, "undoOriginal")
  /\ Alter

UndoOriginal(t) ==
  /\ pc[t] = "undoOriginal"
  /\ Look(t, IF Present("original") THEN "undoFiles" ELSE "undoRename")

UndoRename(t) ==
  /\ pc[t] = "undoRename"
  /\ IF Present("saved") THEN Move("saved", "original") ELSE UNCHANGED disk
  /\ Goto(t, "undoFiles")
  /\ Alter

UndoFile(t) ==
  LET o == Owned[step[t]] IN
  /\ pc[t] = "undoFiles"
  /\ IF disk[o.name] = o.is THEN Delete(o.name) ELSE UNCHANGED disk
  /\ NextOf(t, 5, "undoMarker")
  /\ Alter

UndoMarker(t) ==
  /\ pc[t] = "undoMarker"
  /\ Delete("stagedMarker")
  /\ Goto(t, "undoDir")
  /\ Alter

\* remove_dir takes only an empty directory.
UndoDir(t) ==
  /\ pc[t] = "undoDir"
  /\ cfgDir' = (cfgDir /\ (created[t] => Present("config") \/ Present("stagedConfig")))
  /\ Goto(t, "rolledBack")
  /\ UNCHANGED <<disk, seen, created, clean, raced, mishaps>>

\* A call of the rollback fails and the rollback goes on.
UndoFails(t) ==
  /\ Mishap
  /\ \/ pc[t] \in {"undo", "undoRename"} /\ Goto(t, "undoFiles")
     \/ pc[t] = "undo" /\ disk["saved"] = seen[t] /\ Goto(t, "undoOriginal")
     \/ pc[t] = "undoProxy" /\ Goto(t, "undoOriginal")
     \/ pc[t] = "undoFiles" /\ NextOf(t, 5, "undoMarker")
     \/ pc[t] = "undoMarker" /\ Goto(t, "undoDir")
     \/ pc[t] = "undoDir" /\ Goto(t, "rolledBack")
  /\ clean' = [clean EXCEPT ![t] = FALSE]
  /\ UNCHANGED <<disk, cfgDir, seen, created, raced>>

-----------------------------------------------------------------------------
(* remove *)

BeginRemove(t) ==
  /\ pc[t] = "idle"
  /\ \E v \in Dlls : InstalledOver(v) /\ seen' = [seen EXCEPT ![t] = v]
  /\ Goto(t, "quarantine")
  /\ clean' = [clean EXCEPT ![t] = TRUE]
  /\ UNCHANGED <<disk, cfgDir, created, raced, mishaps>>

Quarantine(t) ==
  /\ pc[t] = "quarantine"
  /\ IF Present("original") THEN Move("original", "quarantine") /\ Goto(t, "restore")
                            ELSE Goto(t, "idle") /\ UNCHANGED disk
  /\ Alter

Restore(t) ==
  /\ pc[t] = "restore"
  /\ IF Present("saved") THEN Move("saved", "original") /\ Goto(t, "verify")
                         ELSE Goto(t, "unquarantine") /\ UNCHANGED disk
  /\ Alter

Unquarantine(t) ==
  /\ pc[t] = "unquarantine"
  /\ IF Present("quarantine") THEN Move("quarantine", "original") ELSE UNCHANGED disk
  /\ Goto(t, "idle")
  /\ Alter

Verify(t) ==
  /\ pc[t] = "verify"
  /\ Look(t, IF disk["original"] = seen[t] THEN "clean" ELSE "idle")

\* The first file that cannot be removed ends the command.
CleanUp(t) ==
  LET n == Leftovers[step[t]] IN
  /\ pc[t] = "clean"
  /\ Delete(n)
  /\ IF Present(n) THEN NextOf(t, 4, "removed") ELSE Goto(t, "idle")
  /\ Alter

RemoveFails(t) ==
  /\ Mishap
  /\ \/ pc[t] \in {"quarantine", "unquarantine", "verify", "clean"} /\ Goto(t, "idle")
     \/ pc[t] = "restore" /\ Goto(t, "unquarantine")
  /\ UNCHANGED <<disk, cfgDir, seen, created, clean, raced>>

-----------------------------------------------------------------------------

Return(t) ==
  /\ pc[t] \in {"installed", "rolledBack", "removed"}
  /\ Look(t, "idle")

\* The tool is killed, or the machine stops.
Crash(t) ==
  /\ pc[t] # "idle" /\ Mishap
  /\ Goto(t, "idle")
  /\ UNCHANGED <<disk, cfgDir, seen, created, clean, raced>>

\* Steam verifies or updates the game: its DLL is at its name again.
SteamUpdate(v) ==
  /\ Mishap
  /\ disk' = [disk EXCEPT !["original"] = v]
  /\ raced' = (raced \/ (\E t \in Tools : pc[t] # "idle")
                    \/ ~(IsPristine \/ \E o \in Dlls : InstalledOver(o)))
  /\ UNCHANGED <<cfgDir, pc, step, seen, created, clean>>

Install(t) ==
  \/ Preflight(t) \/ ReadInput(t) \/ MakeDir(t) \/ MakeDirFails(t) \/ RequireAbsent(t)
  \/ Write(t) \/ TornWrite(t) \/ Rename(t) \/ InstallFails(t) \/ Check(t)

Rollback(t) ==
  \/ Undo(t) \/ UndoProxy(t) \/ UndoOriginal(t) \/ UndoRename(t)
  \/ UndoFile(t) \/ UndoMarker(t) \/ UndoDir(t) \/ UndoFails(t)

Removal(t) ==
  \/ BeginRemove(t) \/ Quarantine(t) \/ Restore(t) \/ Unquarantine(t)
  \/ Verify(t) \/ CleanUp(t) \/ RemoveFails(t)

Next ==
  \/ \E t \in Tools : Install(t) \/ Rollback(t) \/ Removal(t) \/ Return(t) \/ Crash(t)
  \/ \E v \in Versions : SteamUpdate(v)

Spec == Init /\ [][Next]_vars

-----------------------------------------------------------------------------
(* Properties *)

\* Whatever fails, is killed or is updated meanwhile, a DLL of the game is at its
\* own name or at the name it is saved under.
OriginalKept == disk["original"] \in Versions \/ disk["saved"] \in Versions

\* A rollback in which nothing else went wrong, and a finished removal, leave the
\* directory as the installation found it.
Reversible ==
  \A t \in Tools :
    (pc[t] \in {"rolledBack", "removed"} /\ clean[t] /\ ~raced) =>
      /\ disk = Pristine(seen[t])
      /\ pc[t] = "rolledBack" /\ created[t] => ~cfgDir

=============================================================================
