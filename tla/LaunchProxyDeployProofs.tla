------------------------ MODULE LaunchProxyDeployProofs ------------------------
(***************************************************************************)
(* One tool at a time never loses the game's DLL, for any number of failed *)
(* calls, kills, restarts and Steam updates, and any versions of the DLL;  *)
(* and what it undoes or removes is gone without a trace.  And the helpers *)
(* of a running game, in any number, work in the process that was          *)
(* selected and report what was so in it.                                  *)
(***************************************************************************)
EXTENDS LaunchProxyDeploy, GameSelection, FiniteSetTheorems, NaturalsInduction, WellFoundedInduction, TLAPS

\* No two tools work in the directory; the code relies on it and does not see to it.
OneTool == \A t, u \in Tools : t = u

Shape ==
  /\ disk \in [Names -> Contents]
  /\ pc \in [Tools -> Places]
  /\ step \in [Tools -> 1 .. 5]
  /\ seen \in [Tools -> Dlls]
  /\ \A t \in Tools : pc[t] \in {"write", "clean"} => step[t] <= 4

\* Before its third rename an installation has not touched the DLL.
Untouched(t) ==
  \/ pc[t] \in {"read", "mkdir", "absent", "write"}
  \/ pc[t] = "rename" /\ step[t] <= 3

\* From there on, and in a removal until the DLL is back, the saved one is genuine.
Kept(t) ==
  \/ pc[t] = "rename" /\ step[t] > 3
  \/ pc[t] \in {"check", "undoProxy", "undoOriginal", "undoRename",
                "quarantine", "restore", "unquarantine"}

Inv ==
  /\ Shape
  /\ OriginalKept
  /\ \A t \in Tools :
       /\ Untouched(t) => disk["saved"] = Absent /\ disk["original"] \in Versions
       /\ Kept(t) => disk["saved"] \in Versions
       /\ pc[t] \notin {"idle", "read"} => seen[t] \in Versions

USE DEF Inv, Shape, OriginalKept, Untouched, Kept, Goto, At, NextOf, Look, Alter, runVars, Present,
        Places, Names

LEMMA InitInv == Init => Inv
  BY ContentsAssumption DEF Init, Pristine, Contents, Dlls

\* What the file operations do to the directory.
LEMMA DeleteFile ==
  ASSUME Shape, NEW n \in Names, Delete(n)
  PROVE  /\ disk' \in [Names -> Contents]
         /\ disk'[n] = Absent /\ \A m \in Names \ {n} : disk'[m] = disk[m]
  BY DEF Delete, Contents

LEMMA MoveFile ==
  ASSUME Shape, NEW from \in Names, NEW to \in Names, from # to, Move(from, to)
  PROVE  /\ disk' \in [Names -> Contents]
         /\ disk'[to] = disk[from] /\ disk'[from] = Absent
         /\ \A m \in Names \ {from, to} : disk'[m] = disk[m]
  BY DEF Move, Contents

LEMMA WriteFile ==
  ASSUME Shape, NEW n \in Names, NEW c \in Contents, disk' = [disk EXCEPT ![n] = c]
  PROVE  /\ disk' \in [Names -> Contents]
         /\ \A m \in Names \ {n} : disk'[m] = disk[m]
  OBVIOUS

LEMMA Lists ==
  /\ \A i \in 1 .. 4 : Staged[i] \in Names \ {"original", "saved"}
  /\ \A i \in 1 .. 4 : Leftovers[i] \in Names \ {"original", "saved"}
  /\ \A i \in 1 .. 5 : Owned[i].name \in Names \ {"original", "saved"}
  /\ \A v \in Dlls, i \in 1 .. 4 : Payload(v)[i] \in Contents
  BY DEF Staged, Leftovers, Owned, Payload, Contents, Dlls

\* Every step keeps the invariant, one lemma step per action.
LEMMA StepInv == ASSUME OneTool, Inv, [Next]_vars PROVE Inv'
<1> USE ContentsAssumption DEF OneTool
<1>1. ASSUME NEW t \in Tools, Preflight(t) PROVE Inv'
  BY <1>1 DEF Preflight, IsPristine
<1>2. ASSUME NEW t \in Tools, ReadInput(t) PROVE Inv'
  BY <1>2 DEF ReadInput
<1>3. ASSUME NEW t \in Tools, MakeDir(t) PROVE Inv'
  BY <1>3 DEF MakeDir
<1>4. ASSUME NEW t \in Tools, MakeDirFails(t) PROVE Inv'
  BY <1>4 DEF MakeDirFails
<1>5. ASSUME NEW t \in Tools, RequireAbsent(t) PROVE Inv'
  BY <1>5 DEF RequireAbsent
<1>6. ASSUME NEW t \in Tools, Write(t) PROVE Inv'
  <2>1. CASE CanCreate(Staged[step[t]])
    <3>1. /\ Staged[step[t]] \in Names \ {"original", "saved"}
          /\ disk' = [disk EXCEPT ![Staged[step[t]]] = Payload(seen[t])[step[t]]]
      BY <1>6, <2>1, Lists DEF Write
    <3>2. disk' \in [Names -> Contents] /\ disk'["original"] = disk["original"] /\ disk'["saved"] = disk["saved"]
      BY <1>6, <3>1, Lists, WriteFile DEF Write
    <3> QED
      BY <1>6, <2>1, <3>2 DEF Write
  <2>2. CASE ~CanCreate(Staged[step[t]])
    BY <1>6, <2>2 DEF Write
  <2> QED
    BY <2>1, <2>2
<1>7. ASSUME NEW t \in Tools, TornWrite(t) PROVE Inv'
  <2>1. Staged[step[t]] \in Names \ {"original", "saved"} /\ Partial \in Contents
    BY <1>7, Lists DEF TornWrite, Contents
  <2>2. disk' \in [Names -> Contents] /\ disk'["original"] = disk["original"] /\ disk'["saved"] = disk["saved"]
    BY <1>7, <2>1, WriteFile DEF TornWrite
  <2> QED
    BY <1>7, <2>2 DEF TornWrite
<1>8. ASSUME NEW t \in Tools, Rename(t) PROVE Inv'
  <2> DEFINE r == Renames[step[t]]
  <2>1. CASE ~Present(r.from)
    BY <1>8, <2>1 DEF Rename
  <2>2. CASE Present(r.from)
    <3>1. Move(r.from, r.to) /\ NextOf(t, 5, "check")
      BY <1>8, <2>2 DEF Rename
    <3>2. CASE step[t] = 3
      <4>1. r.from = "original" /\ r.to = "saved"
        BY <3>2 DEF Renames
      <4>2. disk' \in [Names -> Contents] /\ disk'["saved"] = disk["original"]
        BY <3>1, <4>1, MoveFile
      <4> QED
        BY <1>8, <3>1, <3>2, <4>2 DEF Rename
    <3>3. CASE step[t] # 3
      <4>1. /\ r.from \in Names \ {"original", "saved"} /\ r.to \in Names \ {"saved", r.from}
            /\ step[t] <= 3 => r.to # "original"
        BY <3>3 DEF Renames
      <4>2. /\ disk' \in [Names -> Contents] /\ disk'["saved"] = disk["saved"]
            /\ step[t] <= 3 => disk'["original"] = disk["original"]
        BY <3>1, <4>1, MoveFile
      <4> QED
        BY <1>8, <3>1, <3>3, <4>2 DEF Rename
    <3> QED
      BY <3>2, <3>3
  <2> QED
    BY <2>1, <2>2
<1>9. ASSUME NEW t \in Tools, InstallFails(t) PROVE Inv'
  BY <1>9 DEF InstallFails
<1>10. ASSUME NEW t \in Tools, Check(t) PROVE Inv'
  BY <1>10 DEF Check
<1>11. ASSUME NEW t \in Tools, Undo(t) PROVE Inv'
  BY <1>11 DEF Undo
<1>12. ASSUME NEW t \in Tools, UndoProxy(t) PROVE Inv'
  <2>1. disk' \in [Names -> Contents] /\ disk'["saved"] = disk["saved"]
    BY <1>12, DeleteFile DEF UndoProxy
  <2> QED
    BY <1>12, <2>1 DEF UndoProxy
<1>13. ASSUME NEW t \in Tools, UndoOriginal(t) PROVE Inv'
  BY <1>13 DEF UndoOriginal
<1>14. ASSUME NEW t \in Tools, UndoRename(t) PROVE Inv'
  <2>1. CASE Present("saved")
    <3>1. disk' \in [Names -> Contents] /\ disk'["original"] = disk["saved"]
      BY <1>14, <2>1, MoveFile DEF UndoRename
    <3> QED
      BY <1>14, <2>1, <3>1 DEF UndoRename
  <2>2. CASE ~Present("saved")
    BY <1>14, <2>2 DEF UndoRename
  <2> QED
    BY <2>1, <2>2
<1>15. ASSUME NEW t \in Tools, UndoFile(t) PROVE Inv'
  <2>1. disk' \in [Names -> Contents] /\ disk'["original"] = disk["original"] /\ disk'["saved"] = disk["saved"]
    BY <1>15, DeleteFile, Lists DEF UndoFile
  <2> QED
    BY <1>15, <2>1 DEF UndoFile
<1>16. ASSUME NEW t \in Tools, UndoMarker(t) PROVE Inv'
  <2>1. disk' \in [Names -> Contents] /\ disk'["original"] = disk["original"] /\ disk'["saved"] = disk["saved"]
    BY <1>16, DeleteFile DEF UndoMarker
  <2> QED
    BY <1>16, <2>1 DEF UndoMarker
<1>17. ASSUME NEW t \in Tools, UndoDir(t) PROVE Inv'
  BY <1>17 DEF UndoDir
<1>18. ASSUME NEW t \in Tools, UndoFails(t) PROVE Inv'
  BY <1>18 DEF UndoFails
<1>19. ASSUME NEW t \in Tools, BeginRemove(t) PROVE Inv'
  BY <1>19 DEF BeginRemove, InstalledOver
<1>20. ASSUME NEW t \in Tools, Quarantine(t) PROVE Inv'
  <2>1. CASE Present("original")
    <3>1. disk' \in [Names -> Contents] /\ disk'["saved"] = disk["saved"]
      BY <1>20, <2>1, MoveFile DEF Quarantine
    <3> QED
      BY <1>20, <2>1, <3>1 DEF Quarantine
  <2>2. CASE ~Present("original")
    BY <1>20, <2>2 DEF Quarantine
  <2> QED
    BY <2>1, <2>2
<1>21. ASSUME NEW t \in Tools, Restore(t) PROVE Inv'
  <2>1. CASE Present("saved")
    <3>1. disk' \in [Names -> Contents] /\ disk'["original"] = disk["saved"]
      BY <1>21, <2>1, MoveFile DEF Restore
    <3> QED
      BY <1>21, <2>1, <3>1 DEF Restore
  <2>2. CASE ~Present("saved")
    BY <1>21, <2>2 DEF Restore
  <2> QED
    BY <2>1, <2>2
<1>22. ASSUME NEW t \in Tools, Unquarantine(t) PROVE Inv'
  <2>1. CASE Present("quarantine")
    <3>1. disk' \in [Names -> Contents] /\ disk'["saved"] = disk["saved"]
      BY <1>22, <2>1, MoveFile DEF Unquarantine
    <3> QED
      BY <1>22, <2>1, <3>1 DEF Unquarantine
  <2>2. CASE ~Present("quarantine")
    BY <1>22, <2>2 DEF Unquarantine
  <2> QED
    BY <2>1, <2>2
<1>23. ASSUME NEW t \in Tools, Verify(t) PROVE Inv'
  BY <1>23 DEF Verify
<1>24. ASSUME NEW t \in Tools, CleanUp(t) PROVE Inv'
  <2>1. disk' \in [Names -> Contents] /\ disk'["original"] = disk["original"] /\ disk'["saved"] = disk["saved"]
    BY <1>24, DeleteFile, Lists DEF CleanUp
  <2> QED
    BY <1>24, <2>1 DEF CleanUp
<1>25. ASSUME NEW t \in Tools, RemoveFails(t) PROVE Inv'
  BY <1>25 DEF RemoveFails
<1>26. ASSUME NEW t \in Tools, Return(t) PROVE Inv'
  BY <1>26 DEF Return
<1>27. ASSUME NEW t \in Tools, Crash(t) PROVE Inv'
  BY <1>27 DEF Crash
<1>28. ASSUME NEW v \in Versions, SteamUpdate(v) PROVE Inv'
  BY <1>28 DEF SteamUpdate, Contents, Dlls
<1>29. CASE UNCHANGED vars
  BY <1>29 DEF vars
<1> QED
  BY <1>1, <1>2, <1>3, <1>4, <1>5, <1>6, <1>7, <1>8, <1>9, <1>10, <1>11, <1>12, <1>13, <1>14, <1>15, <1>16, <1>17, <1>18, <1>19, <1>20, <1>21, <1>22, <1>23, <1>24, <1>25, <1>26, <1>27, <1>28, <1>29 DEF Next, Install, Rollback, Removal

\* Whatever fails, is killed or is updated meanwhile, one tool at a time keeps a
\* DLL of the game at its own name or at the name it is saved under.
THEOREM OriginalKeptAlways == OneTool => (Spec => []OriginalKept)
<1> SUFFICES ASSUME OneTool PROVE Spec => []OriginalKept
  OBVIOUS
<1>1. Inv /\ [Next]_vars => Inv'
  BY StepInv
<1>2. Inv => OriginalKept
  OBVIOUS
<1> QED
  BY <1>1, <1>2, InitInv, PTL DEF Spec

-----------------------------------------------------------------------------

Staging == {"stagedProxy", "stagedRuntime", "stagedConfig", "stagedMarker"}

Unstaged == \A n \in Staging : ~Present(n)

\* An installation, or its rollback, that has read its input.
Underway == {"mkdir", "absent", "write", "rename", "undo", "undoProxy", "undoOriginal",
             "undoRename", "undoFiles", "undoMarker", "undoDir", "rolledBack"}

\* What a rollback deletes holds what it looks for, if anything.
Loose ==
  /\ ~Present("marker") /\ ~Present("quarantine")
  /\ \A i \in 1 .. 5 : disk[Owned[i].name] \in {Absent, Owned[i].is}

\* The files of the tool.
Laid(t) ==
  /\ pc[t] \in {"read", "mkdir", "absent", "write", "rename"} => clean[t]
  /\ pc[t] = "read" => \A n \in Names \ {"original"} : ~Present(n)
  /\ pc[t] \in Underway /\ clean[t] => Loose
  /\ pc[t] = "rename" => /\ step[t] > 1 => ~Present("stagedRuntime")
                         /\ step[t] > 2 => ~Present("stagedConfig")
                         /\ step[t] > 4 => ~Present("stagedProxy")
  /\ pc[t] = "undoFiles" /\ clean[t] => \A i \in 1 .. 5 : i < step[t] => ~Present(Owned[i].name)
  /\ pc[t] \in {"undoMarker", "undoDir", "rolledBack"} /\ clean[t] =>
       \A i \in 1 .. 5 : ~Present(Owned[i].name)
  /\ pc[t] \in {"undoDir", "rolledBack"} /\ clean[t] => ~Present("stagedMarker")
  /\ pc[t] = "rolledBack" /\ clean[t] /\ created[t] => ~cfgDir
  /\ pc[t] \in {"quarantine", "restore", "verify", "clean", "removed"} => Unstaged
  /\ pc[t] = "clean" => \A i \in 1 .. 4 : i < step[t] => ~Present(Leftovers[i])
  /\ pc[t] = "removed" => \A i \in 1 .. 4 : ~Present(Leftovers[i])

\* Where the DLL that the tool found is.
Found(t) ==
  /\ pc[t] \in {"mkdir", "absent", "write", "rename", "undo", "undoProxy"} /\ clean[t] =>
       \/ disk["original"] = seen[t] /\ ~Present("saved")
       \/ disk["original"] \in {Absent, Proxy} /\ disk["saved"] = seen[t]
  /\ pc[t] \in {"undoOriginal", "undoRename"} /\ clean[t] =>
       ~Present("original") /\ disk["saved"] = seen[t]
  /\ pc[t] \in {"undoFiles", "undoMarker", "undoDir", "rolledBack"} /\ clean[t] =>
       disk["original"] = seen[t] /\ ~Present("saved")
  /\ pc[t] \in {"quarantine", "restore"} => disk["saved"] = seen[t]
  /\ pc[t] \in {"verify", "clean", "removed"} => disk["original"] = seen[t] /\ ~Present("saved")

\* The marker is renamed last, and nothing stays staged behind it.
Course ==
  /\ clean \in [Tools -> BOOLEAN] /\ created \in [Tools -> BOOLEAN]
  /\ Present("marker") => Unstaged
  /\ \A t \in Tools : Laid(t) /\ (raced \/ Found(t))

USE DEF Staging, Unstaged, Underway, Laid, Found

LEMMA CourseInit == Init => Course
  BY ContentsAssumption DEF Init, Pristine, Course

\* There is one tool, so what holds of the one that takes a step holds of all.
LEMMA CourseOf ==
  ASSUME OneTool, NEW t \in Tools, Laid(t)', clean' \in [Tools -> BOOLEAN], created' \in [Tools -> BOOLEAN],
         raced' \/ Found(t)', Present("marker")' => Unstaged'
  PROVE  Course'
<1>1. \A u \in Tools : Laid(u)' /\ (raced' \/ Found(u)')
  <2> TAKE u \in Tools
  <2>1. u = t
    BY DEF OneTool
  <2> QED
    BY <2>1
<1> QED
  BY <1>1 DEF Course

\* What the tool deletes, removes and leaves, one by one.
LEMMA Items ==
  /\ Owned[1] = [name |-> "runtime", is |-> Runtime] /\ Owned[2] = [name |-> "config", is |-> Config]
  /\ Owned[3] = [name |-> "stagedProxy", is |-> Proxy] /\ Owned[4] = [name |-> "stagedRuntime", is |-> Runtime]
  /\ Owned[5] = [name |-> "stagedConfig", is |-> Config]
  BY DEF Owned


\* Steps that leave the files alone.
LEMMA LookStep == ASSUME OneTool, Inv, Course, NEW t \in Tools PROVE
   ReadInput(t) \/ MakeDir(t) \/ MakeDirFails(t) \/ RequireAbsent(t) \/ InstallFails(t) \/ Check(t) \/ Undo(t)
     \/ UndoOriginal(t) \/ UndoDir(t) \/ UndoFails(t) \/ Verify(t) \/ RemoveFails(t) \/ Return(t) \/ Crash(t) => Course'
<1> USE ContentsAssumption
<1>0. /\ Laid(t) /\ (raced \/ Found(t)) /\ (Present("marker") => Unstaged)
      /\ clean \in [Tools -> BOOLEAN] /\ created \in [Tools -> BOOLEAN]
  BY DEF Course
<1>1. ASSUME ReadInput(t) PROVE Course'
  BY <1>0, <1>1, CourseOf, Lists DEF ReadInput, Loose
<1>2. ASSUME MakeDir(t) PROVE Course'
  BY <1>0, <1>2, CourseOf DEF MakeDir, Loose
<1>3. ASSUME MakeDirFails(t) PROVE Course'
  BY <1>0, <1>3, CourseOf DEF MakeDirFails, Loose
<1>4. ASSUME RequireAbsent(t) PROVE Course'
  BY <1>0, <1>4, CourseOf DEF RequireAbsent, Loose
<1>5. ASSUME InstallFails(t) PROVE Course'
  BY <1>0, <1>5, CourseOf DEF InstallFails, Loose
<1>6. ASSUME Check(t) PROVE Course'
  BY <1>0, <1>6, CourseOf DEF Check, Loose
<1>7. ASSUME Undo(t) PROVE Course'
  BY <1>0, <1>7, CourseOf DEF Undo, Loose
<1>8. ASSUME UndoOriginal(t) PROVE Course'
  BY <1>0, <1>8, CourseOf DEF UndoOriginal, Loose
<1>9. ASSUME UndoDir(t) PROVE Course'
  <2>1. clean[t] => ~Present("config") /\ ~Present("stagedConfig")
    BY <1>0, <1>9, Items DEF UndoDir
  <2> QED
    BY <1>0, <1>9, <2>1, CourseOf, ZenonT(40) DEF UndoDir, Loose
<1>10. ASSUME UndoFails(t) PROVE Course'
  BY <1>0, <1>10, CourseOf, ZenonT(90) DEF UndoFails, Loose
<1>11. ASSUME Verify(t) PROVE Course'
  BY <1>0, <1>11, CourseOf DEF Verify, Loose
<1>12. ASSUME RemoveFails(t) PROVE Course'
  BY <1>0, <1>12, CourseOf DEF RemoveFails, Loose
<1>13. ASSUME Return(t) PROVE Course'
  BY <1>0, <1>13, CourseOf, SMTT(30) DEF Return, Loose
<1>14. ASSUME Crash(t) PROVE Course'
  BY <1>0, <1>14, CourseOf, ZenonT(40) DEF Crash, Loose
<1> QED
  BY <1>1, <1>2, <1>3, <1>4, <1>5, <1>6, <1>7, <1>8, <1>9, <1>10, <1>11, <1>12, <1>13, <1>14

\* Steps that begin a command or change a file.
LEMMA FileStep == ASSUME OneTool, Inv, Course, NEW t \in Tools PROVE
   Preflight(t) \/ Write(t) \/ TornWrite(t) \/ Rename(t) \/ UndoProxy(t) \/ UndoRename(t) \/ UndoFile(t)
     \/ UndoMarker(t) \/ BeginRemove(t) \/ Quarantine(t) \/ Restore(t) \/ Unquarantine(t) \/ CleanUp(t) => Course'
<1> USE ContentsAssumption
<1>0. /\ Laid(t) /\ (raced \/ Found(t)) /\ (Present("marker") => Unstaged)
      /\ clean \in [Tools -> BOOLEAN] /\ created \in [Tools -> BOOLEAN]
  BY DEF Course
<1>1. ASSUME Preflight(t) PROVE Course'
  BY <1>0, <1>1, CourseOf, Lists DEF Preflight, IsPristine, Loose
<1>2. ASSUME Write(t) PROVE Course'
  <2> DEFINE n == Staged[step[t]]
  <2>1. CASE CanCreate(n)
    <3>1. n \in Staging /\ Payload(seen[t])[step[t]] \in Contents /\ disk' = [disk EXCEPT ![n] = Payload(seen[t])[step[t]]]
      BY <1>2, <2>1, Lists DEF Write, Staged
    <3>2. disk'[n] = Payload(seen[t])[step[t]] /\ \A m \in Names \ {n} : disk'[m] = disk[m]
      BY <3>1
    <3>3. Loose' /\ ~Present("marker")'
      BY <1>0, <1>2, <3>2, Items DEF Write, Staged, Payload, Loose
    <3> QED
      BY <1>0, <1>2, <2>1, <3>1, <3>2, <3>3, CourseOf, SMTT(120) DEF Write
  <2>2. CASE ~CanCreate(n)
    BY <1>0, <1>2, <2>2, CourseOf DEF Write, Loose
  <2> QED
    BY <2>1, <2>2
<1>3. ASSUME TornWrite(t) PROVE Course'
  <2>1. Staged[step[t]] \in Staging
    BY <1>3 DEF TornWrite, Staged
  <2>2. \A m \in Names \ {Staged[step[t]]} : disk'[m] = disk[m]
    BY <1>3, <2>1 DEF TornWrite
  <2> QED
    BY <1>0, <1>3, <2>1, <2>2, CourseOf DEF TornWrite, Loose
<1>4. ASSUME Rename(t) PROVE Course'
  <2> DEFINE r == Renames[step[t]]
  <2>1. CASE ~Present(r.from)
    BY <1>0, <1>4, <2>1, CourseOf DEF Rename, Loose
  <2>2. CASE Present(r.from)
    <3>1. Move(r.from, r.to) /\ NextOf(t, 5, "check")
      BY <1>4, <2>2 DEF Rename
    <3>2. r.from \in Names /\ r.to \in Names /\ r.from # r.to
      BY <1>4 DEF Renames
    <3>3. /\ disk'[r.to] = disk[r.from] /\ disk'[r.from] = Absent
          /\ \A m \in Names \ {r.from, r.to} : disk'[m] = disk[m]
      BY <3>1, <3>2, MoveFile
    <3>4. CASE step[t] = 1
      BY <1>0, <1>4, <2>2, <3>1, <3>3, <3>4, Items, CourseOf DEF Rename, Renames, Loose
    <3>5. CASE step[t] = 2
      BY <1>0, <1>4, <2>2, <3>1, <3>3, <3>5, Items, CourseOf DEF Rename, Renames, Loose
    <3>6. CASE step[t] = 3
      BY <1>0, <1>4, <2>2, <3>1, <3>3, <3>6, Items, CourseOf DEF Rename, Renames, Loose
    <3>7. CASE step[t] = 4
      BY <1>0, <1>4, <2>2, <3>1, <3>3, <3>7, Items, CourseOf DEF Rename, Renames, Loose
    <3>8. CASE step[t] = 5
      BY <1>0, <1>4, <2>2, <3>1, <3>3, <3>8, Items, CourseOf DEF Rename, Renames, Loose
    <3> QED
      BY <3>4, <3>5, <3>6, <3>7, <3>8
  <2> QED
    BY <2>1, <2>2
<1>5. ASSUME UndoProxy(t) PROVE Course'
  <2>1. disk'["original"] = Absent /\ \A m \in Names \ {"original"} : disk'[m] = disk[m]
    BY <1>5, DeleteFile DEF UndoProxy
  <2> QED
    BY <1>0, <1>5, <2>1, Items, CourseOf DEF UndoProxy, Loose
<1>6. ASSUME UndoRename(t) PROVE Course'
  <2>1. CASE Present("saved")
    <3>1. /\ disk'["original"] = disk["saved"] /\ disk'["saved"] = Absent
          /\ \A m \in Names \ {"original", "saved"} : disk'[m] = disk[m]
      BY <1>6, <2>1, MoveFile DEF UndoRename
    <3> QED
      BY <1>0, <1>6, <3>1, Items, CourseOf DEF UndoRename, Loose
  <2>2. CASE ~Present("saved")
    BY <1>6, <2>2 DEF UndoRename
  <2> QED
    BY <2>1, <2>2
<1>7. ASSUME UndoFile(t) PROVE Course'
  <2> DEFINE o == Owned[step[t]]
  <2>1. o.name \in Names \ {"original", "saved", "marker", "quarantine", "stagedMarker"}
    BY <1>7 DEF Owned
  <2>2. /\ \A m \in Names \ {o.name} : disk'[m] = disk[m]
        /\ disk'[o.name] = IF disk[o.name] = o.is THEN Absent ELSE disk[o.name]
    BY <1>7, <2>1, DeleteFile DEF UndoFile
  <2>3. clean[t] => Loose'
    BY <1>0, <1>7, <2>1, <2>2, Lists, SMTT(90) DEF UndoFile, Loose
  <2>4. clean[t] => \A i \in 1 .. 5 : i <= step[t] => ~Present(Owned[i].name)'
    BY <1>0, <1>7, <2>2, Lists DEF UndoFile, Loose
  <2> QED
    BY <1>0, <1>7, <2>1, <2>2, <2>3, <2>4, CourseOf DEF UndoFile
<1>8. ASSUME UndoMarker(t) PROVE Course'
  <2>1. disk'["stagedMarker"] = Absent /\ \A m \in Names \ {"stagedMarker"} : disk'[m] = disk[m]
    BY <1>8, DeleteFile DEF UndoMarker
  <2> QED
    BY <1>0, <1>8, <2>1, Items, CourseOf DEF UndoMarker, Loose
<1>9. ASSUME BeginRemove(t) PROVE Course'
  BY <1>0, <1>9, CourseOf DEF BeginRemove, InstalledOver, Marker, Dlls
<1>10. ASSUME Quarantine(t) PROVE Course'
  <2>1. CASE Present("original")
    <3>1. \A m \in Names \ {"original", "quarantine"} : disk'[m] = disk[m]
      BY <1>10, <2>1, MoveFile DEF Quarantine
    <3> QED
      BY <1>0, <1>10, <2>1, <3>1, CourseOf DEF Quarantine
  <2>2. CASE ~Present("original")
    BY <1>0, <1>10, <2>2, CourseOf DEF Quarantine
  <2> QED
    BY <2>1, <2>2
<1>11. ASSUME Restore(t) PROVE Course'
  <2>1. CASE Present("saved")
    <3>1. /\ disk'["original"] = disk["saved"] /\ disk'["saved"] = Absent
          /\ \A m \in Names \ {"original", "saved"} : disk'[m] = disk[m]
      BY <1>11, <2>1, MoveFile DEF Restore
    <3> QED
      BY <1>0, <1>11, <2>1, <3>1, CourseOf DEF Restore
  <2>2. CASE ~Present("saved")
    BY <1>0, <1>11, <2>2, CourseOf DEF Restore
  <2> QED
    BY <2>1, <2>2
<1>12. ASSUME Unquarantine(t) PROVE Course'
  <2>1. \A m \in Names \ {"original", "quarantine"} : disk'[m] = disk[m]
    BY <1>12, MoveFile DEF Unquarantine
  <2> QED
    BY <1>0, <1>12, <2>1, CourseOf DEF Unquarantine
<1>13. ASSUME CleanUp(t) PROVE Course'
  <2> DEFINE n == Leftovers[step[t]]
  <2>1. n \in Names \ {"original", "saved"} /\ n \notin Staging
    BY <1>13 DEF CleanUp, Leftovers
  <2>2. disk'[n] = Absent /\ \A m \in Names \ {n} : disk'[m] = disk[m]
    BY <1>13, <2>1, DeleteFile DEF CleanUp
  <2>3. \A i \in 1 .. 4 : i <= step[t] => ~Present(Leftovers[i])'
    BY <1>0, <1>13, <2>2, Lists DEF CleanUp
  <2> QED
    BY <1>0, <1>13, <2>1, <2>2, <2>3, CourseOf DEF CleanUp
<1> QED
  BY <1>1, <1>2, <1>3, <1>4, <1>5, <1>6, <1>7, <1>8, <1>9, <1>10, <1>11, <1>12, <1>13

LEMMA CourseStep == ASSUME OneTool, Inv, Course, [Next]_vars PROVE Course'
<1>1. ASSUME NEW v \in Versions, SteamUpdate(v) PROVE Course'
  <2>1. \A m \in Names \ {"original"} : disk'[m] = disk[m]
    BY <1>1 DEF SteamUpdate
  <2>2. Present("marker")' => Unstaged'
    BY <2>1 DEF Course
  <2>3. ASSUME NEW t \in Tools PROVE Laid(t)' /\ (raced' \/ Found(t)')
    <3>1. Laid(t) /\ (raced \/ Found(t))
      BY DEF Course
    <3>2. Laid(t)'
      BY <1>1, <2>1, <3>1, Lists, SMTT(30) DEF SteamUpdate, Loose
    <3>3. raced' \/ Found(t)'
      BY <1>1 DEF SteamUpdate
    <3> QED
      BY <3>2, <3>3
  <2> QED
    BY <1>1, <2>2, <2>3 DEF Course, SteamUpdate
<1>2. CASE UNCHANGED vars
  BY <1>2 DEF vars, Course, Loose
<1> QED
  BY <1>1, <1>2, LookStep, FileStep DEF Next, Install, Rollback, Removal

\* A rollback in which nothing else went wrong, and a finished removal, leave the
\* directory as the installation found it, whatever happened before.
THEOREM ReversibleAlways == OneTool => (Spec => []Reversible)
<1> SUFFICES ASSUME OneTool PROVE Spec => []Reversible
  OBVIOUS
<1>1. Inv /\ [Next]_vars => Inv'
  BY StepInv
<1>2. Inv /\ Course /\ [Next]_vars => Course'
  BY CourseStep
<1>3. Inv /\ Course => Reversible
  <2> SUFFICES ASSUME Inv, Course, NEW t \in Tools, pc[t] \in {"rolledBack", "removed"}, clean[t], ~raced
               PROVE  disk = Pristine(seen[t]) /\ (pc[t] = "rolledBack" /\ created[t] => ~cfgDir)
    BY DEF Reversible
  <2>1. Laid(t) /\ Found(t)
    BY DEF Course
  <2>2. CASE pc[t] = "rolledBack"
    BY <2>1, <2>2, Items DEF Loose, Pristine
  <2>3. CASE pc[t] = "removed"
    BY <2>1, <2>3 DEF Leftovers, Pristine
  <2> QED
    BY <2>2, <2>3
<1> QED
  BY <1>1, <1>2, <1>3, InitInv, CourseInit, PTL DEF Spec

HIDE DEF Inv, Shape, OriginalKept, Untouched, Kept, Goto, At, NextOf, Look, Alter, runVars, Present,
         Places, Names, Staging, Unstaged, Underway, Laid, Found

(***************************************************************************)
(* The helpers of a running game                                           *)
(***************************************************************************)

Held == {"waiting", "holding", "calling", "called", "answered"}

Sequence(s) == \E S : s \in Seq(S)

\* The process that has the id, as it can be.
Proper(p) ==
  /\ DOMAIN p = {"created", "kind", "module", "life", "asked", "hooks", "rate"}
  /\ p.created \in Nat \ {0} /\ p.kind \in Kinds
  /\ Seen(p) \in Sights
  /\ p.life \in 4 .. 5 => p.asked /\ p.hooks = "none"
  /\ p.life # 0 => p.module = "expected"

TargetInv ==
  /\ processes \in Nat /\ target.created \in 0 .. processes
  /\ target.created # 0 => Proper(target)

\* The profile that was accepted is the one this process started with.
Serving == target.life \in 3 .. 5 /\ target.kind.profile = "accepted"

\* What the command line became is what was asked for.
Understands(j) ==
  IF j.options = Fixture THEN j.request = Asked("fixture", NotGiven, NotGiven)
  ELSE /\ Carried(j.options, j.request)
       /\ j.request.action \in {"attach", "stop", "status", "arm", "preset", "rate", "step"}
       /\ j.request.action \in {"preset", "rate"} => j.request.arg # 0

\* A helper that has a handle has one of the process that was selected.
Identified(c) ==
  /\ job[c].handle # 0
  /\ Alive(c) => IF job[c].options = Fixture THEN job[c].created = 0 /\ target.kind.image = "fixture"
                 ELSE job[c].created = target.created /\ target.kind.image = "game"

\* What the answers so far say, of the process as it was and as it may still be.
Status3(j) ==
  Len(j.answers) >= 3 /\ j.saw[3] # Gone /\ j.answers[3] # 0 =>
    j.saw[3].life = 3 /\ j.saw[3].hooks = "installed"

StatusInv(c) ==
  LET j == job[c]
      n == Len(j.answers)
  IN  /\ Status3(j)
      /\ n >= 5 => j.request.arg = "digest" /\ j.answers[5] = 1
      /\ n >= 6 /\ Alive(c) => Serving
      /\ \A i \in 7 .. 8 : i <= n /\ Alive(c) /\ target.life = 3 => j.answers[i] = target.kind.digest

Progress(c) ==
  LET j == job[c]
  IN  /\ Sequence(j.answers) /\ Sequence(j.saw) /\ Len(j.saw) = Len(j.answers)
      /\ (\E i \in 1 .. Len(j.saw) : j.saw[i] = Gone) => ~Alive(c)
      /\ j.request.action = "step" /\ Len(j.answers) >= 3 => j.answers[3] \in MilliRange
      /\ j.request.action = "status" => StatusInv(c)

ClientInv(c) ==
  /\ DOMAIN job[c] = {"options", "request", "created", "handle", "tries", "answers", "saw"}
  /\ phase[c] \in {"idle", "selected", "launched", "over"} \cup Held
  /\ phase[c] = "selected" => /\ job[c].options \in Options \ {Fixture} /\ Valid(job[c].options)
                              /\ job[c].created # 0
  /\ phase[c] \in {"selected", "launched", "waiting", "holding"} => job[c].answers = <<>> /\ job[c].saw = <<>>
  /\ phase[c] \in {"launched"} \cup Held => Understands(job[c])
  /\ phase[c] = "launched" => IF job[c].options = Fixture THEN job[c].created = 0 ELSE job[c].created # 0
  /\ phase[c] \in Held => Identified(c)
  /\ phase[c] \in {"calling", "called"} => Progress(c)
  /\ phase[c] = "answered" /\ Reported(c) => True(job[c].request, job[c])

\* What a thread that ended has for its helper.
Told(t) ==
  LET j == job[t.owner]
      n == Len(j.answers)
  IN  /\ t.saw \in Sights \cup {Gone}
      /\ t.saw = Gone => ~Alive(t.owner)
      /\ t.saw # Gone =>
           /\ t.export = "life" => t.answer = t.saw.life /\ (t.answer = 5 => t.saw.hooks = "none")
           /\ t.export = "hooks" /\ t.answer = 1 => t.saw.life = 3 /\ t.saw.hooks = "installed"
           /\ t.export = "rate" /\ t.answer # 0 =>
                t.saw.life = 3 /\ t.saw.hooks = "installed" /\ t.saw.rate = t.answer
           /\ j.request.action = "status" =>
                /\ t.export = "profile" /\ t.answer = 1 /\ Alive(t.owner) => Serving
                /\ t.export = "profile" /\ t.answer = 1 /\ n = 8 => j.answers[7] = j.answers[8] /\ j.answers[7] # 0
                /\ t.export = "word" /\ n \in 6 .. 7 /\ Alive(t.owner) /\ target.life = 3 =>
                     t.answer = target.kind.digest

Selected(t) ==
  /\ t.owner # None => IF t.for = 0 THEN target.kind.image = "fixture"
                       ELSE t.for = target.created /\ target.kind.image = "game"
  /\ t.export = "load" => t.owner \in buffers

ThreadInv(t) ==
  /\ DOMAIN t = {"owner", "for", "export", "arg", "at", "answer", "saw"}
  /\ t.at \in {"start", "restored", "stopping", "done"}
  /\ t.at # "done" =>
       /\ target.created # 0
       /\ t.export # "load" => target.module = "expected"
       /\ t.at # "start" => target.asked /\ target.hooks = "none"
       /\ Selected(t)
  /\ t.owner # None => t.owner \in Clients /\ phase[t.owner] \in {"called", "over"}
  /\ t.owner # None /\ phase[t.owner] = "called" =>
       /\ t.export = NextCall(job[t.owner]).export
       /\ t.at # "done" => Alive(t.owner)
  /\ t.at = "done" => t.owner # None /\ phase[t.owner] = "called" /\ Told(t)

\* A helper has one thread at a time.
OneThread ==
  \A t, u \in threads : t.owner # None /\ t.owner = u.owner /\ phase[t.owner] = "called" => t = u

AttachInv ==
  /\ phase = [c \in Clients |-> phase[c]] /\ job = [c \in Clients |-> job[c]]
  /\ TargetInv
  /\ \A c \in Clients : ClientInv(c)
  /\ \A t \in threads : ThreadInv(t)
  /\ OneThread

LEMMA LifeNumbers ==
  /\ Life.detached = 0 /\ Life.attached = 1 /\ Life.bootstrapping = 2 /\ Life.running = 3
  /\ Life.stopping = 4 /\ Life.stopped = 5 /\ Life.failed = 6
BY DEF Life

LEMMA PresetNumbers ==
  /\ DOMAIN Presets = {"half", "normal", "double"}
  /\ \A p \in DOMAIN Presets : Presets[p] \in Nat \ {0}
  /\ Presets.normal = 1000
BY DEF Presets

LEMMA Appended ==
  ASSUME NEW s, Sequence(s), NEW e
  PROVE  /\ Sequence(Append(s, e)) /\ Append(s, e) # <<>>
         /\ Len(s) \in Nat /\ Len(Append(s, e)) = Len(s) + 1
         /\ Append(s, e)[Len(s) + 1] = e
         /\ \A i \in 1 .. Len(s) : Append(s, e)[i] = s[i]
         /\ Last(Append(s, e)) = e
<1>1. PICK S : s \in Seq(S)
  BY DEF Sequence
<1>2. PICK T : T = S \cup {e}
  OBVIOUS
<1>3. s \in Seq(T) /\ e \in T
  BY <1>1, <1>2
<1>4. Append(s, e) \in Seq(T)
  BY <1>3
<1>5. /\ Append(s, e) # <<>> /\ Len(s) \in Nat /\ Len(Append(s, e)) = Len(s) + 1
      /\ Append(s, e)[Len(s) + 1] = e
      /\ \A i \in 1 .. Len(s) : Append(s, e)[i] = s[i]
  BY <1>3
<1>. QED
  BY <1>4, <1>5 DEF Sequence, Last

LEMMA Joined ==
  ASSUME NEW S, NEW x \in Seq(S), NEW y \in Seq(S)
  PROVE  /\ x \o y \in Seq(S)
         /\ Len(x) \in Nat /\ Len(y) \in Nat /\ Len(x \o y) = Len(x) + Len(y)
         /\ \A i \in 1 .. Len(x) : (x \o y)[i] = x[i]
         /\ \A i \in 1 .. Len(y) : (x \o y)[Len(x) + i] = y[i]
OBVIOUS

LEMMA JoinedEmpty ==
  ASSUME NEW S, NEW x \in Seq(S)
  PROVE  <<>> \o x = x /\ x \o <<>> = x
OBVIOUS

LEMMA JoinedIs ==
  ASSUME NEW S, NEW x \in Seq(S), NEW y \in Seq(S), NEW z \in Seq(S), Len(z) = Len(x) + Len(y),
         \A i \in 1 .. Len(x) : z[i] = x[i], \A i \in 1 .. Len(y) : z[Len(x) + i] = y[i]
  PROVE  x \o y = z
OBVIOUS

LEMMA JoinedPair ==
  ASSUME NEW a, NEW b
  PROVE  <<a>> \o <<b>> = <<a, b>>
<1>1. ASSUME NEW x, NEW y, NEW z, x = <<a>>, y = <<b>>, z = <<a, b>>
      PROVE  x \o y = z
  <2>1. x \in Seq({a, b}) /\ Len(x) = 1 /\ x[1] = a
    BY <1>1
  <2>2. y \in Seq({a, b}) /\ Len(y) = 1 /\ y[1] = b
    BY <1>1
  <2>3. z \in Seq({a, b}) /\ Len(z) = 2 /\ z[1] = a /\ z[2] = b
    BY <1>1
  <2>4. /\ Len(z) = Len(x) + Len(y) /\ \A i \in 1 .. Len(x) : z[i] = x[i]
        /\ \A i \in 1 .. Len(y) : z[Len(x) + i] = y[i]
    BY <2>1, <2>2, <2>3
  <2>5. PICK S : x \in Seq(S) /\ y \in Seq(S) /\ z \in Seq(S)
    BY <2>1, <2>2, <2>3
  <2>. QED
    BY <2>4, <2>5, JoinedIs
<1>. QED
  BY <1>1, Zenon

LEMMA JoinedThird ==
  ASSUME NEW a, NEW b, NEW c
  PROVE  <<a, b>> \o <<c>> = <<a, b, c>>
<1>1. ASSUME NEW x, NEW y, NEW z, x = <<a, b>>, y = <<c>>, z = <<a, b, c>>
      PROVE  x \o y = z
  <2>1. x \in Seq({a, b, c}) /\ Len(x) = 2 /\ x[1] = a /\ x[2] = b
    BY <1>1
  <2>2. y \in Seq({a, b, c}) /\ Len(y) = 1 /\ y[1] = c
    BY <1>1
  <2>3. z \in Seq({a, b, c}) /\ Len(z) = 3 /\ z[1] = a /\ z[2] = b /\ z[3] = c
    BY <1>1
  <2>4. /\ Len(z) = Len(x) + Len(y) /\ \A i \in 1 .. Len(x) : z[i] = x[i]
        /\ \A i \in 1 .. Len(y) : z[Len(x) + i] = y[i]
    BY <2>1, <2>2, <2>3
  <2>5. PICK S : x \in Seq(S) /\ y \in Seq(S) /\ z \in Seq(S)
    BY <2>1, <2>2, <2>3
  <2>. QED
    BY <2>4, <2>5, JoinedIs
<1>. QED
  BY <1>1, Zenon

LEMMA JoinedPairs ==
  ASSUME NEW a, NEW b, NEW c, NEW d
  PROVE  <<a, b>> \o <<c, d>> = <<a, b, c, d>>
<1>1. ASSUME NEW x, NEW y, NEW z, x = <<a, b>>, y = <<c, d>>, z = <<a, b, c, d>>
      PROVE  x \o y = z
  <2>1. x \in Seq({a, b, c, d}) /\ Len(x) = 2 /\ x[1] = a /\ x[2] = b
    BY <1>1
  <2>2. y \in Seq({a, b, c, d}) /\ Len(y) = 2 /\ y[1] = c /\ y[2] = d
    BY <1>1
  <2>3. z \in Seq({a, b, c, d}) /\ Len(z) = 4 /\ z[1] = a /\ z[2] = b /\ z[3] = c /\ z[4] = d
    BY <1>1
  <2>4. /\ Len(z) = Len(x) + Len(y) /\ \A i \in 1 .. Len(x) : z[i] = x[i]
        /\ \A i \in 1 .. Len(y) : z[Len(x) + i] = y[i]
    BY <2>1, <2>2, <2>3
  <2>5. PICK S : x \in Seq(S) /\ y \in Seq(S) /\ z \in Seq(S)
    BY <2>1, <2>2, <2>3
  <2>. QED
    BY <2>4, <2>5, JoinedIs
<1>. QED
  BY <1>1, Zenon

LEMMA NoSequence == Sequence(<<>>) /\ Len(<<>>) = 0
<1>1. <<>> \in Seq({})
  OBVIOUS
<1>. QED
  BY <1>1 DEF Sequence

(***************************************************************************)
(* The command line and the scripts                                        *)
(***************************************************************************)

\* The helper understands the line as the request the user made.
LEMMA LineUnderstood ==
  ASSUME NEW o \in Options \ {Fixture}, Valid(o)
  PROVE  /\ Carried(o, Understood(CommandLine(o)))
         /\ Understood(CommandLine(o)).action \in {"attach", "stop", "status", "arm", "preset", "rate", "step"}
         /\ Understood(CommandLine(o)).action \in {"preset", "rate"} => Understood(CommandLine(o)).arg # 0
<1>. DEFINE r == Understood(CommandLine(o))
<1>1. /\ o.action \in {"attach", "stop", "status", "arm", "rate", "step"}
      /\ o.preset \in DOMAIN Presets \cup {NotGiven} /\ o.milli \in {0} \cup MilliRange
      /\ o.step \in Operations \cup {NotGiven}
  BY AttachAssumption
<1>2. CASE o.action = "attach"
  <2>1. CommandLine(o) = <<>>
    BY <1>2 DEF CommandLine
  <2>2. r = Asked("attach", NotGiven, NotGiven)
    BY <2>1 DEF Understood
  <2>. QED
    BY <1>2, <2>2 DEF Carried, Asked, Valid
<1>3. CASE o.action = "stop"
  <2>1. CommandLine(o) = <<"--shutdown-only">>
    BY <1>3 DEF CommandLine
  <2>2. r = Asked("stop", NotGiven, NotGiven)
    BY <2>1 DEF Understood
  <2>. QED
    BY <1>3, <2>2 DEF Carried, Asked, Valid
<1>4. CASE o.action = "status"
  <2>1. \/ CommandLine(o) = <<"--status-only">>
        \/ CommandLine(o) = <<"--status-only", "--include-profile-sha256">>
    <3>1. CommandLine(o) = <<"--status-only">>
                           \o IF o.compare = NotGiven THEN <<>> ELSE <<"--include-profile-sha256">>
      BY <1>4 DEF CommandLine
    <3>2. <<"--status-only">> \in Seq({"--status-only"})
      OBVIOUS
    <3>. QED
      BY <3>1, <3>2, JoinedEmpty, JoinedPair
  <2>2. \E arg : r = Asked("status", arg, NotGiven)
    <3>1. CASE CommandLine(o) = <<"--status-only">>
      <4>1. r = Asked("status", NotGiven, NotGiven)
        BY <3>1 DEF Understood
      <4>. QED
        BY <4>1
    <3>2. CASE CommandLine(o) = <<"--status-only", "--include-profile-sha256">>
      <4>1. r = Asked("status", "digest", NotGiven)
        BY <3>2 DEF Understood
      <4>. QED
        BY <4>1
    <3>. QED
      BY <2>1, <3>1, <3>2
  <2>. QED
    BY <1>4, <2>2 DEF Carried, Asked, Valid
<1>5. CASE o.action = "arm"
  <2>1. CASE o.require = NotGiven
    <3>1. CommandLine(o) = <<"--arm-four-timers-only", Four>>
      BY <1>5, <2>1 DEF CommandLine
    <3>2. r = Asked("arm", NotGiven, NotGiven)
      BY <3>1 DEF Understood
    <3>. QED
      BY <1>5, <2>1, <3>2 DEF Carried, Asked, Valid
  <2>2. CASE o.require # NotGiven
    <3>1. CommandLine(o) = <<"--arm-four-timers-only", Four, "--require-profile-sha256", o.require>>
      <4>1. CommandLine(o) = <<"--arm-four-timers-only", Four>> \o <<"--require-profile-sha256", o.require>>
        BY <1>5, <2>2 DEF CommandLine
      <4>. QED
        BY <4>1, JoinedPairs
    <3>2. r = Asked("arm", NotGiven, o.require)
      BY <3>1 DEF Understood
    <3>. QED
      BY <1>5, <2>2, <3>2 DEF Carried, Asked, Valid
  <2>. QED
    BY <2>1, <2>2
<1>6. CASE o.action = "rate"
  <2>1. CASE o.preset # NotGiven
    <3>1. CommandLine(o) = <<"--set-game-preset-only", o.preset, Four>> /\ o.preset \in DOMAIN Presets
      <4>1. CommandLine(o) = <<"--set-game-preset-only", o.preset>> \o <<Four>>
        BY <1>6, <2>1 DEF CommandLine
      <4>. QED
        BY <1>1, <2>1, <4>1, JoinedThird
    <3>2. r = Asked("preset", Presets[o.preset], NotGiven)
      BY <3>1 DEF Understood, Last
    <3>. QED
      BY <1>6, <2>1, <3>1, <3>2, PresetNumbers DEF Carried, Asked, Valid
  <2>2. CASE o.preset = NotGiven
    <3>1. CommandLine(o) = <<"--set-game-rate-milli-only", o.milli, Four>> /\ o.milli \in MilliRange
      <4>1. CommandLine(o) = <<"--set-game-rate-milli-only", o.milli>> \o <<Four>>
        BY <1>6, <2>2 DEF CommandLine
      <4>2. o.milli # 0
        BY <1>6, <2>2 DEF Valid
      <4>. QED
        BY <1>1, <4>1, <4>2, JoinedThird
    <3>2. r = Asked("rate", o.milli, NotGiven)
      BY <3>1 DEF Understood, Last
    <3>3. o.milli # 0
      <4>1. \A m \in MilliRange : m # 0
        BY DEF MilliRange
      <4>. QED
        BY <3>1, <4>1, Zenon
    <3>4. r.action = "rate" /\ r.arg = o.milli /\ r.digest = NotGiven
      BY <3>2 DEF Asked
    <3>5. Carried(o, r)
      BY <1>6, <2>2, <3>4 DEF Carried, Valid
    <3>. QED
      BY <3>3, <3>4, <3>5
  <2>. QED
    BY <2>1, <2>2
<1>7. CASE o.action = "step"
  <2>1. CommandLine(o) = <<"--step-game-speed-only", o.step, Four>> /\ o.step \in Operations
    BY <1>1, <1>7 DEF CommandLine, Valid
  <2>2. r = Asked("step", o.step, NotGiven)
    BY <2>1 DEF Understood, Last
  <2>. QED
    BY <1>7, <2>1, <2>2 DEF Carried, Asked, Valid
<1>. QED
  BY <1>1, <1>2, <1>3, <1>4, <1>5, <1>6, <1>7

LEMMA Scripts ==
  ASSUME NEW r, NEW a, Sequence(a)
  PROVE  /\ r.action = "attach" => Len(Script(r, a)) = 2 /\ Script(r, a)[2] = IsRunning
         /\ r.action = "stop" => Len(Script(r, a)) = 2 /\ Script(r, a)[2] = Ask("life", {5})
         /\ r.action = "arm" => /\ Len(Script(r, a)) \in {6, 10}
                                /\ Script(r, a)[Len(Script(r, a))] = IsInstalled
         /\ r.action \in {"preset", "rate"} =>
              Len(Script(r, a)) = 4 /\ Script(r, a)[4] = Ask("rate", {r.arg})
         /\ r.action = "step" =>
              /\ Len(Script(r, a)) = 4 /\ Script(r, a)[3] = Call("step", r.arg, MilliRange)
              /\ a # <<>> => Script(r, a)[4] = Ask("rate", {Last(a)})
<1>1. r.action = "attach" => Script(r, a) = <<Ask("load", Anything), IsRunning>>
  BY DEF Script
<1>2. r.action = "stop" => Script(r, a) = <<Ask("shutdown", {1}), Ask("life", {5})>>
  BY LifeNumbers DEF Script
<1>3. r.action \in {"preset", "rate"} =>
        Script(r, a) = <<IsRunning, IsInstalled, Call("setRate", r.arg, {1}), Ask("rate", {r.arg})>>
  BY DEF Script, SetRate
<1>4. r.action = "step" =>
        Script(r, a) = <<IsRunning, IsInstalled, Call("step", r.arg, MilliRange),
                         Ask("rate", IF a = <<>> THEN {} ELSE {Last(a)})>>
  BY DEF Script, SetRate
<1>5. ASSUME r.action = "arm"
      PROVE  /\ Len(Script(r, a)) \in {6, 10}
             /\ Script(r, a)[Len(Script(r, a))] = IsInstalled
  <2>1. PICK x : x = <<IsRunning, Ask("hooks", {0}), Ask("imports", {15}), Ask("arm", {1}),
                       IsRunning, IsInstalled>>
    OBVIOUS
  <2>2. PICK d : d = Digest({r.digest})
    OBVIOUS
  <2>3. PICK w1, w2, w3, w4 : d = <<w1, w2, w3, w4>>
    BY <2>2 DEF Digest
  <2>4. Script(r, a) = (IF r.digest = NotGiven THEN <<>> ELSE d) \o x
    BY <1>5, <2>1, <2>2 DEF Script
  <2>5. PICK S : /\ {w1, w2, w3, w4} \subseteq S
                 /\ {IsRunning, Ask("hooks", {0}), Ask("imports", {15}), Ask("arm", {1}), IsInstalled} \subseteq S
    <3>1. PICK S : S = {w1, w2, w3, w4, IsRunning, Ask("hooks", {0}), Ask("imports", {15}), Ask("arm", {1}),
                        IsInstalled}
      OBVIOUS
    <3>. QED
      BY <3>1
  <2>6. /\ x \in Seq(S) /\ Len(x) = 6 /\ x[6] = IsInstalled
        /\ d \in Seq(S) /\ Len(d) = 4 /\ <<>> \in Seq(S) /\ Len(<<>>) = 0
    BY <2>1, <2>3, <2>5
  <2>7. CASE r.digest = NotGiven
    <3>1. Script(r, a) = x
      BY <2>4, <2>6, <2>7, JoinedEmpty
    <3>. QED
      BY <2>6, <3>1
  <2>8. CASE r.digest # NotGiven
    <3>1. Script(r, a) = d \o x
      BY <2>4, <2>8
    <3>5. x \in Seq(S) /\ d \in Seq(S)
      BY <2>6
    <3>4. Len(d \o x) = Len(d) + Len(x) /\ \A i \in 1 .. Len(x) : (d \o x)[Len(d) + i] = x[i]
      BY <3>5
    <3>2. Len(d \o x) = 10 /\ \A i \in 1 .. 6 : (d \o x)[4 + i] = x[i]
      BY <2>6, <3>4
    <3>3. (d \o x)[4 + 6] = IsInstalled
      BY <2>6, <3>2
    <3>. QED
      BY <3>1, <3>2, <3>3
  <2>. QED
    BY <2>7, <2>8
<1>. QED
  BY <1>1, <1>2, <1>3, <1>4, <1>5

LEMMA StatusScript ==
  ASSUME NEW r, r.action = "status", NEW a, Sequence(a)
  PROVE  LET full == r.arg = "digest" /\ Len(a) >= 5 /\ a[5] = 1
         IN  /\ Len(Script(r, a)) = IF full THEN 9 ELSE 5
             /\ Script(r, a)[3].export = "rate"
             /\ full => /\ Script(r, a)[6] = Ask("profile", {1}) /\ Script(r, a)[9] = Ask("profile", {1})
                        /\ Script(r, a)[7].export = "word" /\ Script(r, a)[8].export = "word"
<1>. DEFINE full == r.arg = "digest" /\ Len(a) >= 5 /\ a[5] = 1
<1>1. PICK x : x = <<Ask("life", 0 .. 6), Ask("hooks", 0 .. 2), Ask("rate", {0} \cup MilliRange),
                     Ask("imports", 0 .. 15 \cup {Unknown}), Ask("profile", 0 .. 3)>>
  OBVIOUS
<1>2. PICK d : d = Digest(Anything)
  OBVIOUS
<1>3. Script(r, a) = x \o IF full THEN d ELSE <<>>
  BY <1>1, <1>2 DEF Script, Status
<1>4. PICK y1, y2, y3, y4, y5 : x = <<y1, y2, y3, y4, y5>> /\ y3.export = "rate"
  BY <1>1 DEF Ask, Call
<1>5. PICK w1, w2, w3, w4 : /\ d = <<w1, w2, w3, w4>> /\ w1 = Ask("profile", {1}) /\ w4 = Ask("profile", {1})
                            /\ w2.export = "word" /\ w3.export = "word"
  BY <1>2 DEF Digest, Call
<1>6. PICK S : S = {y1, y2, y3, y4, y5, w1, w2, w3, w4}
  OBVIOUS
<1>7. /\ x \in Seq(S) /\ Len(x) = 5 /\ x[3] = y3
      /\ d \in Seq(S) /\ Len(d) = 4 /\ d[1] = w1 /\ d[2] = w2 /\ d[3] = w3 /\ d[4] = w4
      /\ <<>> \in Seq(S) /\ Len(<<>>) = 0
  BY <1>4, <1>5, <1>6
<1>8. CASE full
  <2>1. Script(r, a) = x \o d
    BY <1>3, <1>8
  <2>2. /\ Len(x \o d) = 9 /\ (x \o d)[3] = y3 /\ (x \o d)[6] = w1 /\ (x \o d)[7] = w2
        /\ (x \o d)[8] = w3 /\ (x \o d)[9] = w4
    <3>5. x \in Seq(S) /\ d \in Seq(S)
      BY <1>7
    <3>4. /\ Len(x \o d) = Len(x) + Len(d) /\ \A i \in 1 .. Len(x) : (x \o d)[i] = x[i]
          /\ \A i \in 1 .. Len(d) : (x \o d)[Len(x) + i] = d[i]
      BY <3>5
    <3>3. /\ Len(x \o d) = Len(x) + Len(d) /\ (x \o d)[3] = x[3]
          /\ \A i \in 1 .. Len(d) : (x \o d)[Len(x) + i] = d[i]
      BY <1>7, <3>4
    <3>1. /\ Len(x \o d) = 9 /\ (x \o d)[3] = x[3]
          /\ \A i \in 1 .. 4 : (x \o d)[5 + i] = d[i]
      BY <1>7, <3>3
    <3>2. /\ (x \o d)[5 + 1] = d[1] /\ (x \o d)[5 + 2] = d[2]
          /\ (x \o d)[5 + 3] = d[3] /\ (x \o d)[5 + 4] = d[4]
      BY <3>1, SMTT(30)
    <3>. QED
      BY <1>7, <3>1, <3>2
  <2>. QED
    BY <1>4, <1>5, <1>8, <2>1, <2>2
<1>9. CASE ~full
  <2>1. Script(r, a) = x \o <<>>
    BY <1>3, <1>9
  <2>2. Len(x \o <<>>) = 5 /\ (x \o <<>>)[3] = y3
    BY <1>7
  <2>. QED
    BY <1>4, <1>9, <2>1, <2>2
<1>. QED
  BY <1>8, <1>9

(***************************************************************************)
(* A step of one client                                                    *)
(***************************************************************************)

LEMMA Stepped ==
  ASSUME AttachInv, NEW c \in Clients, NEW to, NEW j, Step(c, to, j)
  PROVE  /\ phase' = [d \in Clients |-> phase'[d]] /\ job' = [d \in Clients |-> job'[d]]
         /\ phase'[c] = to /\ job'[c] = j
         /\ \A d \in Clients \ {c} : phase'[d] = phase[d] /\ job'[d] = job[d]
BY DEF AttachInv, Step

LEMMA OtherClient ==
  ASSUME NEW d \in Clients, ClientInv(d), target' = target, phase'[d] = phase[d], job'[d] = job[d]
  PROVE  ClientInv(d)'
BY DEF ClientInv, Identified, Alive, Progress, StatusInv, Serving, Reported

LEMMA OtherThread ==
  ASSUME NEW t, ThreadInv(t), target' = target,
         t.owner # None => phase'[t.owner] = phase[t.owner] /\ job'[t.owner] = job[t.owner],
         t.owner \in buffers => t.owner \in buffers'
  PROVE  ThreadInv(t)'
<1>1. t.at # "done" => Selected(t)'
  BY DEF ThreadInv, Selected
<1>2. t.at = "done" => Told(t)'
  BY DEF ThreadInv, Told, Alive, Serving
<1>. QED
  BY <1>1, <1>2 DEF ThreadInv, Alive

LEMMA ClientStep ==
  ASSUME AttachInv, NEW c \in Clients, NEW to, NEW j, Step(c, to, j), ClientInv(c)',
         target' = target, processes' = processes,
         \A t \in threads' : t.owner = c => ThreadInv(t)',
         \A t \in threads' : t.owner # c => t \in threads,
         buffers \subseteq buffers' \cup {c},
         to = "called" => \A t, u \in threads' : t.owner = c /\ u.owner = c => t = u
  PROVE  AttachInv'
<1>1. /\ phase' = [d \in Clients |-> phase'[d]] /\ job' = [d \in Clients |-> job'[d]]
      /\ phase'[c] = to /\ job'[c] = j
      /\ \A d \in Clients \ {c} : phase'[d] = phase[d] /\ job'[d] = job[d]
  BY Stepped
<1>2. TargetInv'
  BY DEF AttachInv, TargetInv
<1>3. \A d \in Clients : ClientInv(d)'
  BY <1>1, OtherClient DEF AttachInv
<1>4. ASSUME NEW t \in threads'
      PROVE  ThreadInv(t)'
  <2>1. CASE t.owner = c
    BY <2>1
  <2>2. CASE t.owner # c
    <3>1. t \in threads /\ ThreadInv(t)
      BY <2>2 DEF AttachInv
    <3>2. t.owner # None => t.owner \in Clients \ {c}
      BY <2>2, <3>1 DEF ThreadInv
    <3>3. t.owner # None => phase'[t.owner] = phase[t.owner] /\ job'[t.owner] = job[t.owner]
      BY <1>1, <3>2
    <3>4. t.owner \in buffers => t.owner \in buffers'
      BY <2>2
    <3>. QED
      BY <3>1, <3>3, <3>4, OtherThread
  <2>. QED
    BY <2>1, <2>2
<1>5. OneThread'
  <2>1. SUFFICES ASSUME NEW t \in threads', NEW u \in threads', t.owner # None, t.owner = u.owner,
                        phase'[t.owner] = "called"
                 PROVE  t = u
    BY DEF OneThread
  <2>2. CASE t.owner = c
    BY <1>1, <2>1, <2>2
  <2>3. CASE t.owner # c
    <3>1. t \in threads /\ u \in threads /\ ThreadInv(t)
      BY <2>1, <2>3 DEF AttachInv
    <3>2. t.owner \in Clients \ {c}
      BY <2>1, <2>3, <3>1 DEF ThreadInv
    <3>3. phase[t.owner] = "called"
      BY <1>1, <2>1, <3>2
    <3>. QED
      BY <2>1, <3>1, <3>3 DEF AttachInv, OneThread
  <2>. QED
    BY <2>2, <2>3
<1>. QED
  BY <1>1, <1>2, <1>3, <1>4, <1>5 DEF AttachInv

\* A client that waits for no thread has none, unless it is over.
LEMMA NoThread ==
  ASSUME AttachInv, NEW c \in Clients, phase[c] \notin {"called", "over"}, None \notin Clients
  PROVE  \A t \in threads : t.owner # c
BY DEF AttachInv, ThreadInv

LEMMA OverInv ==
  ASSUME NEW c, phase'[c] = "over", job'[c] = Idle
  PROVE  ClientInv(c)'
BY DEF ClientInv, Held, Reported, Idle

LEMMA SelectKeeps ==
  ASSUME AttachInv, NEW c \in Clients, NEW o \in Options, Select(c, o)
  PROVE  AttachInv'
<1>1. \A t \in threads : t.owner # c
  BY NoThread, AttachAssumption DEF Select
<1>2. CASE o = Fixture
  <2>1. PICK j : j = [Idle EXCEPT !.options = o, !.request = Asked("fixture", NotGiven, NotGiven)]
    OBVIOUS
  <2>2. Step(c, "launched", j)
    BY <1>2, <2>1 DEF Select
  <2>3. /\ DOMAIN j = {"options", "request", "created", "handle", "tries", "answers", "saw"}
        /\ j.options = Fixture /\ j.request = Asked("fixture", NotGiven, NotGiven) /\ j.created = 0
        /\ j.answers = <<>> /\ j.saw = <<>>
    BY <1>2, <2>1 DEF Idle
  <2>4. phase'[c] = "launched" /\ job'[c] = j
    BY <2>2, Stepped
  <2>5. ClientInv(c)'
    BY <2>3, <2>4 DEF ClientInv, Held, Understands, Reported
  <2>. QED
    BY <1>1, <2>2, <2>5, ClientStep DEF Select, targetVars
<1>3. CASE o # Fixture
  <2>1. PICK j : j = [Idle EXCEPT !.options = o, !.created = target.created]
    OBVIOUS
  <2>2. Step(c, "selected", j) /\ Valid(o) /\ target.created # 0
    BY <1>3, <2>1 DEF Select
  <2>3. /\ DOMAIN j = {"options", "request", "created", "handle", "tries", "answers", "saw"}
        /\ j.options = o /\ j.created = target.created /\ j.answers = <<>> /\ j.saw = <<>>
    BY <2>1 DEF Idle
  <2>4. phase'[c] = "selected" /\ job'[c] = j
    BY <2>2, Stepped
  <2>5. ClientInv(c)'
    BY <1>3, <2>2, <2>3, <2>4 DEF ClientInv, Held, Reported
  <2>. QED
    BY <1>1, <2>2, <2>5, ClientStep DEF Select, targetVars
<1>. QED
  BY <1>2, <1>3

LEMMA SnapshotKeeps ==
  ASSUME AttachInv, NEW c \in Clients, Snapshot(c)
  PROVE  AttachInv'
<1>1. \A t \in threads : t.owner # c
  BY NoThread, AttachAssumption DEF Snapshot
<1>2. PICK o : o = job[c].options
  OBVIOUS
<1>3. ClientInv(c) /\ phase[c] = "selected"
  BY DEF AttachInv, Snapshot
<1>4. /\ o \in Options \ {Fixture} /\ Valid(o) /\ job[c].created # 0
      /\ job[c].answers = <<>> /\ job[c].saw = <<>>
      /\ DOMAIN job[c] = {"options", "request", "created", "handle", "tries", "answers", "saw"}
  BY <1>2, <1>3 DEF ClientInv
<1>5. PICK r : r = Understood(CommandLine(o))
  OBVIOUS
<1>6. PICK j : j = [job[c] EXCEPT !.request = r]
  OBVIOUS
<1>7. Step(c, "launched", j)
  BY <1>2, <1>5, <1>6 DEF Snapshot
<1>8. /\ DOMAIN j = {"options", "request", "created", "handle", "tries", "answers", "saw"}
      /\ j.options = o /\ j.request = r /\ j.created = job[c].created
      /\ j.answers = <<>> /\ j.saw = <<>>
  BY <1>2, <1>4, <1>6
<1>9. Understands(j)
  BY <1>4, <1>5, <1>8, LineUnderstood DEF Understands
<1>10. phase'[c] = "launched" /\ job'[c] = j
  BY <1>7, Stepped
<1>11. ClientInv(c)'
  BY <1>4, <1>8, <1>9, <1>10 DEF ClientInv, Held, Reported
<1>. QED
  BY <1>1, <1>7, <1>11, ClientStep DEF Snapshot, targetVars

LEMMA OpenKeeps ==
  ASSUME AttachInv, NEW c \in Clients, Open(c)
  PROVE  AttachInv'
<1>1. \A t \in threads : t.owner # c
  BY NoThread, AttachAssumption DEF Open
<1>2. ClientInv(c) /\ phase[c] = "launched"
  BY DEF AttachInv, Open
<1>3. PICK j : j = [job[c] EXCEPT !.handle = target.created]
  OBVIOUS
<1>4. Step(c, "waiting", j) /\ target.created # 0 /\ Fits(job[c], target)
  BY <1>3 DEF Open
<1>5. /\ Understands(job[c]) /\ job[c].answers = <<>> /\ job[c].saw = <<>>
      /\ IF job[c].options = Fixture THEN job[c].created = 0 ELSE job[c].created # 0
      /\ DOMAIN job[c] = {"options", "request", "created", "handle", "tries", "answers", "saw"}
  BY <1>2 DEF ClientInv
<1>6. /\ DOMAIN j = {"options", "request", "created", "handle", "tries", "answers", "saw"}
      /\ j.options = job[c].options /\ j.request = job[c].request /\ j.created = job[c].created
      /\ j.answers = <<>> /\ j.saw = <<>> /\ j.handle = target.created
  BY <1>3, <1>5
<1>7. Understands(j)
  BY <1>5, <1>6 DEF Understands
<1>8. phase'[c] = "waiting" /\ job'[c] = j /\ target' = target
  BY <1>4, Stepped DEF Open, targetVars
<1>9. Identified(c)'
  BY <1>4, <1>5, <1>6, <1>8 DEF Identified, Fits
<1>10. ClientInv(c)'
  BY <1>6, <1>7, <1>8, <1>9 DEF ClientInv, Held, Reported
<1>. QED
  BY <1>1, <1>4, <1>10, ClientStep DEF Open, targetVars

LEMMA AcquireKeeps ==
  ASSUME AttachInv, NEW c \in Clients, Acquire(c)
  PROVE  AttachInv'
<1>1. \A t \in threads : t.owner # c
  BY NoThread, AttachAssumption DEF Acquire
<1>2. ClientInv(c) /\ phase[c] = "waiting" /\ target' = target
  BY DEF AttachInv, Acquire, targetVars
<1>3. CASE Step(c, "over", Idle)
  <2>1. ClientInv(c)'
    BY <1>3, Stepped, OverInv
  <2>. QED
    BY <1>1, <1>3, <2>1, ClientStep DEF Acquire, targetVars
<1>4. CASE Step(c, "holding", job[c])
  <2>1. phase'[c] = "holding" /\ job'[c] = job[c]
    BY <1>4, Stepped
  <2>2. ClientInv(c)'
    BY <1>2, <2>1 DEF ClientInv, Held, Identified, Alive, Reported
  <2>. QED
    BY <1>1, <1>4, <2>2, ClientStep DEF Acquire, targetVars
<1>. QED
  BY <1>3, <1>4 DEF Acquire

LEMMA InspectKeeps ==
  ASSUME AttachInv, NEW c \in Clients, Inspect(c)
  PROVE  AttachInv'
<1>1. \A t \in threads : t.owner # c
  BY NoThread, AttachAssumption DEF Inspect
<1>2. ClientInv(c) /\ phase[c] = "holding" /\ target' = target
  BY DEF AttachInv, Inspect, targetVars
<1>3. job[c].answers = <<>> /\ job[c].saw = <<>>
  BY <1>2 DEF ClientInv
<1>4. CASE Step(c, "answered", job[c])
  <2>1. phase'[c] = "answered" /\ job'[c] = job[c]
    BY <1>4, Stepped
  <2>2. ClientInv(c)'
    BY <1>2, <1>3, <2>1 DEF ClientInv, Held, Identified, Alive, Reported
  <2>. QED
    BY <1>1, <1>4, <2>2, ClientStep DEF Inspect, targetVars
<1>5. CASE Step(c, "calling", job[c])
  <2>1. phase'[c] = "calling" /\ job'[c] = job[c]
    BY <1>5, Stepped
  <2>2. Progress(c)'
    <3>1. PICK j : j = job[c]
      OBVIOUS
    <3>2. /\ Sequence(j.answers) /\ Sequence(j.saw) /\ Len(j.answers) = 0 /\ Len(j.saw) = 0
      BY <1>3, <3>1, NoSequence
    <3>. QED
      BY <2>1, <3>1, <3>2 DEF Progress, StatusInv, Status3
  <2>3. ClientInv(c)'
    BY <1>2, <2>1, <2>2 DEF ClientInv, Held, Identified, Alive, Reported
  <2>. QED
    BY <1>1, <1>5, <2>3, ClientStep DEF Inspect, targetVars
<1>. QED
  BY <1>4, <1>5 DEF Inspect

LEMMA ReportKeeps ==
  ASSUME AttachInv, NEW c \in Clients, Report(c)
  PROVE  AttachInv'
<1>1. \A t \in threads : t.owner # c
  BY NoThread, AttachAssumption DEF Report
<1>2. Step(c, "over", Idle)
  BY DEF Report
<1>3. ClientInv(c)'
  BY <1>2, Stepped, OverInv
<1>. QED
  BY <1>1, <1>2, <1>3, ClientStep DEF Report, targetVars

LEMMA LeaveKeeps ==
  ASSUME AttachInv, NEW c \in Clients, Step(c, "over", Idle),
         threads' = threads \ Forget(c), target' = target, buffers' = buffers, processes' = processes
  PROVE  AttachInv'
<1>1. phase'[c] = "over" /\ job'[c] = Idle /\ ClientInv(c)'
  BY Stepped, OverInv
<1>2. ASSUME NEW t \in threads', t.owner = c
      PROVE  ThreadInv(t)'
  <2>1. t \in threads /\ t.at # "done" /\ ThreadInv(t)
    BY <1>2 DEF Forget, AttachInv
  <2>2. Selected(t)'
    BY <2>1 DEF ThreadInv, Selected
  <2>. QED
    BY <1>1, <1>2, <2>1, <2>2 DEF ThreadInv
<1>. QED
  BY <1>1, <1>2, ClientStep DEF Forget

LEMMA GiveUpKeeps ==
  ASSUME AttachInv, NEW c \in Clients, GiveUp(c) \/ Kill(c)
  PROVE  AttachInv'
BY LeaveKeeps DEF GiveUp, Kill

LEMMA BeginKeeps ==
  ASSUME AttachInv, NEW c \in Clients, Begin(c)
  PROVE  AttachInv'
<1>. DEFINE call == NextCall(job[c])
            new == [owner |-> c, for |-> job[c].created, export |-> call.export, arg |-> call.arg,
                    at |-> "start", answer |-> 0, saw |-> None]
<1>1. \A t \in threads : t.owner # c
  BY NoThread, AttachAssumption DEF Begin
<1>2. PICK n : n = new
  OBVIOUS
<1>3. /\ ClientInv(c) /\ phase[c] = "calling" /\ target' = target /\ Step(c, "called", job[c])
      /\ threads' = threads \cup {n} /\ buffers' = IF call.export = "load" THEN buffers \cup {c} ELSE buffers
      /\ IF call.export = "load" THEN LoaderResolved(c) ELSE ExportResolved(c)
  BY <1>2 DEF AttachInv, Begin
<1>4. /\ DOMAIN n = {"owner", "for", "export", "arg", "at", "answer", "saw"}
      /\ n.owner = c /\ n.for = job[c].created /\ n.export = call.export /\ n.at = "start"
  BY <1>2
<1>5. phase'[c] = "called" /\ job'[c] = job[c]
  BY <1>3, Stepped
<1>6. Progress(c)'
  BY <1>3, <1>5 DEF ClientInv, Progress, StatusInv, Serving, Alive
<1>7. ClientInv(c)'
  BY <1>3, <1>5, <1>6 DEF ClientInv, Held, Identified, Alive, Reported
<1>8. /\ Alive(c) /\ target.created # 0 /\ (call.export # "load" => target.module = "expected")
      /\ IF job[c].options = Fixture THEN job[c].created = 0 /\ target.kind.image = "fixture"
         ELSE job[c].created = target.created /\ target.kind.image = "game"
  <2>1. Identified(c)
    BY <1>3 DEF ClientInv, Held
  <2>. QED
    BY <1>3, <2>1 DEF Identified, LoaderResolved, ExportResolved, Alive, Presence
<1>9. ThreadInv(n)'
  <2>1. Selected(n)'
    BY <1>3, <1>4, <1>8 DEF Selected
  <2>2. n.export = NextCall(job'[c]).export /\ Alive(c)'
    BY <1>3, <1>4, <1>5, <1>8 DEF Alive
  <2>. QED
    BY <1>3, <1>4, <1>5, <1>8, <2>1, <2>2 DEF ThreadInv
<1>10. /\ \A t \in threads' : t.owner = c => t = n
       /\ \A t \in threads' : t.owner # c => t \in threads
  BY <1>1, <1>3, <1>4
<1>. QED
  BY <1>3, <1>7, <1>9, <1>10, ClientStep DEF Begin

(***************************************************************************)
(* An answer is taken                                                      *)
(***************************************************************************)

Taking(c, t, k) ==
  /\ phase[c] = "called" /\ t \in threads /\ t.owner = c /\ t.at = "done"
  /\ k = [job[c] EXCEPT !.answers = Append(@, t.answer), !.saw = Append(@, t.saw)]
  /\ NextCall(job[c]).expect = Anything \/ t.answer \in NextCall(job[c]).expect

LEMMA Taken ==
  ASSUME AttachInv, NEW c \in Clients, NEW t, NEW k, Taking(c, t, k)
  PROVE  LET j == job[c]
             n == Len(j.answers)
         IN  /\ DOMAIN k = {"options", "request", "created", "handle", "tries", "answers", "saw"}
             /\ k.options = j.options /\ k.request = j.request /\ k.created = j.created /\ k.handle = j.handle
             /\ n \in Nat /\ Len(j.saw) = n /\ Len(k.answers) = n + 1 /\ Len(k.saw) = n + 1
             /\ Sequence(j.answers) /\ Sequence(k.answers) /\ Sequence(k.saw) /\ k.saw # <<>>
             /\ k.answers[n + 1] = t.answer /\ k.saw[n + 1] = t.saw
             /\ Last(k.answers) = t.answer /\ Last(k.saw) = t.saw
             /\ \A i \in 1 .. n : k.answers[i] = j.answers[i] /\ k.saw[i] = j.saw[i]
             /\ Told(t) /\ t.export = NextCall(j).export
             /\ Progress(c) /\ Understands(j)
<1>1. ClientInv(c) /\ ThreadInv(t) /\ phase[c] = "called" /\ t.owner = c /\ t.at = "done" /\ c # None
  BY AttachAssumption DEF AttachInv, Taking
<1>2. Progress(c) /\ Understands(job[c])
      /\ DOMAIN job[c] = {"options", "request", "created", "handle", "tries", "answers", "saw"}
  BY <1>1 DEF ClientInv, Held
<1>3. Told(t) /\ t.export = NextCall(job[c]).export
  BY <1>1 DEF ThreadInv
<1>4. Sequence(job[c].answers) /\ Sequence(job[c].saw) /\ Len(job[c].saw) = Len(job[c].answers)
  BY <1>2 DEF Progress
<1>5. /\ DOMAIN k = {"options", "request", "created", "handle", "tries", "answers", "saw"}
      /\ k.options = job[c].options /\ k.request = job[c].request /\ k.created = job[c].created
      /\ k.handle = job[c].handle
      /\ k.answers = Append(job[c].answers, t.answer) /\ k.saw = Append(job[c].saw, t.saw)
  BY <1>2 DEF Taking
<1>6. PICK a, s : a = job[c].answers /\ s = job[c].saw
  OBVIOUS
<1>7. /\ Sequence(k.answers) /\ Len(a) \in Nat /\ Len(k.answers) = Len(a) + 1
      /\ k.answers[Len(a) + 1] = t.answer /\ \A i \in 1 .. Len(a) : k.answers[i] = a[i]
      /\ Last(k.answers) = t.answer
  BY <1>4, <1>5, <1>6, Appended
<1>8. /\ Sequence(k.saw) /\ k.saw # <<>> /\ Len(k.saw) = Len(s) + 1
      /\ k.saw[Len(s) + 1] = t.saw /\ \A i \in 1 .. Len(s) : k.saw[i] = s[i]
      /\ Last(k.saw) = t.saw
  BY <1>4, <1>5, <1>6, Appended
<1>. QED
  BY <1>2, <1>3, <1>4, <1>5, <1>6, <1>7, <1>8

LEMMA RateNotZero == 0 \notin MilliRange
BY DEF MilliRange

\* What the last answer completes is so.
LEMMA AnswersTrue ==
  \A c \in Clients : \A t, k :
    /\ AttachInv /\ Taking(c, t, k) /\ Len(k.answers) = Len(Script(k.request, k.answers))
    /\ Confirmed(k) /\ t.saw # Gone
    => True(k.request, k)
<1>0. SUFFICES ASSUME NEW c \in Clients, NEW t, NEW k, AttachInv, Taking(c, t, k),
                      Len(k.answers) = Len(Script(k.request, k.answers)), Confirmed(k), t.saw # Gone
               PROVE  True(k.request, k)
  BY Zenon
<1>a. PICK r, a, b, n, call, sa, sb :
        /\ r = k.request /\ a = job[c].answers /\ b = k.answers /\ n = Len(a)
        /\ sa = Script(r, a) /\ sb = Script(r, b) /\ call = sa[n + 1]
  OBVIOUS
<1>b. r = job[c].request /\ Told(t) /\ Progress(c) /\ Understands(job[c]) /\ Sequence(a) /\ Sequence(b)
  BY <1>0, <1>a, Taken
<1>c. k.options = job[c].options
  BY <1>0, Taken
<1>d. n \in Nat /\ Len(b) = n + 1 /\ \A i \in 1 .. n : b[i] = a[i] /\ k.saw[i] = job[c].saw[i]
  BY <1>0, <1>a, Taken
<1>e. Last(b) = t.answer /\ Last(k.saw) = t.saw
  BY <1>0, <1>a, Taken
<1>f. t.export = call.export
  BY <1>0, <1>a, Taken DEF NextCall
<1>2. call.expect = Anything \/ t.answer \in call.expect
  BY <1>0, <1>a, <1>b DEF Taking, NextCall
<1>3. n + 1 = Len(sb)
  <2>1. Len(b) = Len(sb)
    BY <1>0, <1>a, Zenon
  <2>. QED
    BY <1>d, <2>1
<1>4. /\ t.export = "life" => t.answer = t.saw.life /\ (t.answer = 5 => t.saw.hooks = "none")
      /\ t.export = "hooks" /\ t.answer = 1 => t.saw.life = 3 /\ t.saw.hooks = "installed"
      /\ t.export = "rate" /\ t.answer # 0 =>
           t.saw.life = 3 /\ t.saw.hooks = "installed" /\ t.saw.rate = t.answer
  BY <1>0, <1>b DEF Told
<1>5. CASE r.action = "attach"
  <2>1. Len(sb) = 2 /\ sa[2] = IsRunning
    BY <1>a, <1>b, <1>5, Scripts, ZenonT(60)
  <2>2. n = 1
    BY <1>d, <1>3, <2>1
  <2>3. call = Ask("life", {3})
    BY <1>a, <2>1, <2>2, LifeNumbers DEF IsRunning
  <2>4. t.export = "life" /\ t.answer = 3
    BY <1>f, <1>2, <2>3 DEF Ask, Call, Anything
  <2>. QED
    BY <1>a, <1>e, <1>4, <1>5, <2>4, LifeNumbers DEF True
<1>6. CASE r.action = "stop"
  <2>1. Len(sb) = 2 /\ sa[2] = Ask("life", {5})
    BY <1>a, <1>b, <1>6, Scripts, ZenonT(60)
  <2>2. n = 1
    BY <1>d, <1>3, <2>1
  <2>3. call = Ask("life", {5})
    BY <1>a, <2>1, <2>2
  <2>4. t.export = "life" /\ t.answer = 5
    BY <1>f, <1>2, <2>3 DEF Ask, Call, Anything
  <2>. QED
    BY <1>a, <1>e, <1>4, <1>6, <2>4, LifeNumbers DEF True
<1>7. CASE r.action = "arm"
  <2>1. sa = sb
    BY <1>a, <1>7 DEF Script
  <2>2. Script(r, b)[Len(Script(r, b))] = IsInstalled
    BY <1>b, <1>7, Scripts
  <2>3. call = Ask("hooks", {1})
    BY <1>a, <1>3, <2>1, <2>2, Zenon DEF IsInstalled
  <2>4. t.export = "hooks" /\ t.answer = 1
    BY <1>f, <1>2, <2>3 DEF Ask, Call, Anything
  <2>. QED
    BY <1>a, <1>e, <1>4, <1>7, <2>4, LifeNumbers DEF True
<1>8. CASE r.action \in {"preset", "rate"}
  <2>1. Len(sb) = 4 /\ sa[4] = Ask("rate", {r.arg})
    BY <1>a, <1>b, <1>8, Scripts, Zenon
  <2>2. n = 3
    BY <1>d, <1>3, <2>1
  <2>3. call = Ask("rate", {r.arg})
    BY <1>a, <2>1, <2>2
  <2>4. t.export = "rate" /\ t.answer = r.arg
    BY <1>f, <1>2, <2>3 DEF Ask, Call, Anything
  <2>5. r.arg # 0
    BY <1>b, <1>8 DEF Understands, Asked
  <2>. QED
    BY <1>a, <1>e, <1>4, <1>8, <2>4, <2>5, LifeNumbers DEF True
<1>9. CASE r.action = "step"
  <2>1. Len(sb) = 4
    BY <1>a, <1>b, <1>9, Scripts, ZenonT(60)
  <2>2. n = 3
    BY <1>d, <1>3, <2>1
  <2>3. a # <<>> /\ Last(a) = a[3]
    <3>1. Len(a) = 3
      BY <1>a, <2>2
    <3>. QED
      BY <3>1, NoSequence DEF Last
  <2>4. call = Ask("rate", {a[3]})
    <3>1. Script(r, a)[4] = Ask("rate", {Last(a)})
      BY <1>b, <1>9, <2>3, Scripts
    <3>. QED
      BY <1>a, <2>2, <2>3, <3>1
  <2>5. t.export = "rate" /\ t.answer = a[3]
    BY <1>f, <1>2, <2>4 DEF Ask, Call, Anything
  <2>6. a[3] \in MilliRange
    BY <1>a, <1>b, <1>9, <2>2 DEF Progress
  <2>7. a[3] # 0
    BY <2>6, RateNotZero, Zenon
  <2>. QED
    BY <1>a, <1>e, <1>4, <1>9, <2>5, <2>7, LifeNumbers DEF True
<1>10. CASE r.action = "status"
  <2>. DEFINE full == r.arg = "digest" /\ Len(b) >= 5 /\ b[5] = 1
  <2>1. n + 1 = IF full THEN 9 ELSE 5
    <3>1. Len(sb) = IF full THEN 9 ELSE 5
      <4>1. Len(Script(r, b)) = IF full THEN 9 ELSE 5
        BY <1>b, <1>10, StatusScript
      <4>. QED
        BY <1>a, <4>1, Zenon
    <3>. QED
      BY <1>3, <3>1
  <2>2. n \in {4, 8} /\ (n = 8 => full)
    BY <1>d, <2>1
  <2>3. StatusInv(c)
    BY <1>a, <1>b, <1>10 DEF Progress
  <2>4. b[2] = 1 /\ k.saw[3] # Gone => k.saw[3].life = 3 /\ k.saw[3].hooks = "installed"
    <3>1. SUFFICES ASSUME b[2] = 1, k.saw[3] # Gone
                   PROVE  k.saw[3].life = 3 /\ k.saw[3].hooks = "installed"
      OBVIOUS
    <3>2. b # <<>>
      BY <1>d, NoSequence
    <3>3. b[3] # 0
      BY <1>0, <1>a, <1>10, <3>1, <3>2 DEF Confirmed, StatusAgrees
    <3>4. b[3] = a[3] /\ k.saw[3] = job[c].saw[3]
      BY <1>d, <2>2
    <3>. QED
      BY <1>a, <2>2, <2>3, <3>1, <3>3, <3>4 DEF StatusInv, Status3
  <2>5. ASSUME Len(b) > 5
        PROVE  b[7] = b[8] /\ b[7] # 0
    <3>1. n = 8
      BY <1>d, <2>2, <2>5
    <3>2. r.arg = "digest" /\ Len(a) >= 5 /\ a[5] = 1
      BY <1>a, <1>b, <2>3, <3>1 DEF StatusInv
    <3>3. call = Ask("profile", {1})
      <4>1. sa[9] = Ask("profile", {1})
        BY <1>a, <1>b, <1>10, <3>2, StatusScript, ZenonT(60)
      <4>. QED
        BY <1>a, <3>1, <4>1
    <3>4. t.export = "profile" /\ t.answer = 1
      BY <1>f, <1>2, <3>3 DEF Ask, Call, Anything
    <3>5. a[7] = a[8] /\ a[7] # 0
      <4>1. t.owner = c
        BY <1>0 DEF Taking
      <4>. QED
        BY <1>0, <1>a, <1>b, <1>10, <3>1, <3>4, <4>1 DEF Told
    <3>6. b[7] = a[7] /\ b[8] = a[8]
      BY <1>d, <3>1
    <3>. QED
      BY <3>5, <3>6
  <2>. QED
    BY <1>a, <1>10, <2>4, <2>5, LifeNumbers DEF True
<1>11. CASE r.action = "fixture"
  BY <1>a, <1>11 DEF True
<1>12. r.action \in {"attach", "stop", "status", "arm", "preset", "rate", "step", "fixture"}
  BY <1>b DEF Understands, Asked
<1>. QED
  BY <1>5, <1>6, <1>7, <1>8, <1>9, <1>10, <1>11, <1>12

\* What the answers say as far as they go.
LEMMA GoesOn ==
  \A c \in Clients : \A t, k :
    /\ AttachInv /\ Taking(c, t, k) /\ Len(k.answers) # Len(Script(k.request, k.answers))
    /\ target' = target /\ job'[c] = k
    => Progress(c)'
<1>0. SUFFICES ASSUME NEW c \in Clients, NEW t, NEW k, AttachInv, Taking(c, t, k),
                      Len(k.answers) # Len(Script(k.request, k.answers)), target' = target, job'[c] = k
               PROVE  Progress(c)'
  BY Zenon
<1>a. PICK r, a, b, n, call, sa, sb :
        /\ r = k.request /\ a = job[c].answers /\ b = k.answers /\ n = Len(a)
        /\ sa = Script(r, a) /\ sb = Script(r, b) /\ call = sa[n + 1]
  OBVIOUS
<1>b. r = job[c].request /\ Told(t) /\ Progress(c) /\ Sequence(a) /\ Sequence(b) /\ Sequence(k.saw)
  BY <1>0, <1>a, Taken
<1>c. k.handle = job[c].handle
  BY <1>0, Taken
<1>d. /\ n \in Nat /\ Len(b) = n + 1 /\ Len(job[c].saw) = n /\ Len(k.saw) = n + 1
      /\ \A i \in 1 .. n : b[i] = a[i] /\ k.saw[i] = job[c].saw[i]
  BY <1>0, <1>a, Taken
<1>e. b[n + 1] = t.answer /\ k.saw[n + 1] = t.saw
  BY <1>0, <1>a, Taken
<1>f. t.export = call.export
  BY <1>0, <1>a, Taken DEF NextCall
<1>g. t.owner = c
  BY <1>0 DEF Taking
<1>2. call.expect = Anything \/ t.answer \in call.expect
  BY <1>0, <1>a, <1>b DEF Taking, NextCall
<1>3. n + 1 # Len(sb)
  <2>1. Len(b) # Len(sb)
    BY <1>0, <1>a, Zenon
  <2>. QED
    BY <1>d, <2>1
<1>4. Alive(c)' <=> Alive(c)
  BY <1>0, <1>c DEF Alive
<1>5. t.saw = Gone => ~Alive(c)
  BY <1>b, <1>g DEF Told
<1>6. (\E i \in 1 .. Len(k.saw) : k.saw[i] = Gone) => ~Alive(c)
  <2>1. SUFFICES ASSUME NEW i \in 1 .. Len(k.saw), k.saw[i] = Gone
                 PROVE  ~Alive(c)
    OBVIOUS
  <2>2. CASE i = n + 1
    BY <1>5, <1>e, <2>1, <2>2
  <2>3. CASE i # n + 1
    <3>1. i \in 1 .. n
      BY <1>d, <2>1, <2>3
    <3>2. i \in 1 .. Len(job[c].saw) /\ job[c].saw[i] = Gone
      BY <1>d, <2>1, <3>1
    <3>. QED
      BY <1>b, <3>2 DEF Progress
  <2>. QED
    BY <2>2, <2>3
<1>7. ASSUME r.action = "step", n + 1 >= 3
      PROVE  b[3] \in MilliRange
  <2>1. CASE n = 2
    <3>1. sa[3] = Call("step", r.arg, MilliRange)
      BY <1>a, <1>b, <1>7, Scripts, Zenon
    <3>2. call = Call("step", r.arg, MilliRange)
      BY <1>a, <2>1, <3>1
    <3>3. MilliRange # Anything
      <4>1. 100 \in MilliRange
        BY DEF MilliRange
      <4>. QED
        BY <4>1 DEF Anything
    <3>4. t.answer \in MilliRange
      BY <1>2, <3>2, <3>3 DEF Call
    <3>. QED
      BY <1>e, <2>1, <3>4
  <2>2. CASE n # 2
    <3>1. n >= 3
      BY <1>d, <1>7, <2>2
    <3>2. a[3] \in MilliRange
      BY <1>a, <1>b, <1>7, <3>1 DEF Progress
    <3>3. b[3] = a[3]
      BY <1>d, <3>1
    <3>. QED
      BY <3>2, <3>3
  <2>. QED
    BY <2>1, <2>2
<1>8. ASSUME r.action = "status"
      PROVE  StatusInv(c)'
  <2>. DEFINE full == r.arg = "digest" /\ Len(b) >= 5 /\ b[5] = 1
  <2>1. n + 1 # IF full THEN 9 ELSE 5
    <3>1. Len(sb) = IF full THEN 9 ELSE 5
      <4>1. Len(Script(r, b)) = IF full THEN 9 ELSE 5
        BY <1>b, <1>8, StatusScript
      <4>. QED
        BY <1>a, <4>1, Zenon
    <3>. QED
      BY <1>3, <3>1
  <2>2. StatusInv(c)
    BY <1>a, <1>b, <1>8 DEF Progress
  <2>3. Status3(k)
    <3>1. SUFFICES ASSUME n + 1 >= 3, k.saw[3] # Gone, b[3] # 0
                   PROVE  k.saw[3].life = 3 /\ k.saw[3].hooks = "installed"
      BY <1>a, <1>d DEF Status3
    <3>2. CASE n = 2
      <4>1. Script(r, a)[3].export = "rate"
        BY <1>b, <1>8, StatusScript
      <4>2. t.export = "rate"
        BY <1>a, <1>f, <3>2, <4>1
      <4>3. t.saw = k.saw[3] /\ t.answer = b[3]
        BY <1>e, <3>2
      <4>. QED
        BY <1>b, <3>1, <4>2, <4>3 DEF Told
    <3>3. CASE n # 2
      <4>1. n >= 3
        BY <1>d, <3>1, <3>3
      <4>2. b[3] = a[3] /\ k.saw[3] = job[c].saw[3]
        BY <1>d, <4>1
      <4>. QED
        BY <1>a, <2>2, <3>1, <4>1, <4>2 DEF StatusInv, Status3
    <3>. QED
      BY <3>2, <3>3
  <2>4. ASSUME n + 1 >= 5
        PROVE  r.arg = "digest" /\ b[5] = 1
    <3>1. CASE n = 4
      BY <2>1, <3>1
    <3>2. CASE n # 4
      <4>1. n >= 5
        BY <1>d, <2>4, <3>2
      <4>2. r.arg = "digest" /\ a[5] = 1
        BY <1>a, <1>b, <2>2, <4>1 DEF StatusInv
      <4>3. b[5] = a[5]
        BY <1>d, <4>1
      <4>. QED
        BY <4>2, <4>3
    <3>. QED
      BY <3>1, <3>2
  <2>5. ASSUME n >= 5
        PROVE  /\ sa[6] = Ask("profile", {1})
               /\ sa[7].export = "word" /\ sa[8].export = "word"
    <3>1. r.arg = "digest" /\ a[5] = 1 /\ Len(a) >= 5
      BY <1>a, <1>b, <2>2, <2>5 DEF StatusInv
    <3>2. /\ Script(r, a)[6] = Ask("profile", {1})
          /\ Script(r, a)[7].export = "word" /\ Script(r, a)[8].export = "word"
      BY <1>b, <1>8, <3>1, StatusScript
    <3>. QED
      BY <1>a, <3>2
  <2>6. ASSUME n + 1 >= 6, Alive(c)
        PROVE  Serving
    <3>1. CASE n = 5
      <4>1. call = Ask("profile", {1})
        BY <1>a, <2>5, <3>1
      <4>2. t.export = "profile" /\ t.answer = 1
        BY <1>f, <1>2, <4>1 DEF Ask, Call, Anything
      <4>. QED
        BY <1>5, <1>b, <1>g, <1>8, <2>6, <4>2 DEF Told
    <3>2. CASE n # 5
      <4>1. n >= 6
        BY <1>d, <2>6, <3>2
      <4>. QED
        BY <1>a, <2>2, <2>6, <4>1 DEF StatusInv
    <3>. QED
      BY <3>1, <3>2
  <2>7. ASSUME NEW i \in 7 .. 8, i <= n + 1, Alive(c), target.life = 3
        PROVE  b[i] = target.kind.digest
    <3>1. CASE i = n + 1
      <4>1. n \in 6 .. 7
        BY <1>d, <2>7, <3>1
      <4>2. call.export = "word"
        <5>1. n >= 5 /\ (n + 1 = 7 \/ n + 1 = 8)
          BY <4>1
        <5>2. sa[n + 1].export = "word"
          BY <2>5, <5>1
        <5>. QED
          BY <1>a, <5>2
      <4>3. t.answer = target.kind.digest
        BY <1>5, <1>a, <1>b, <1>f, <1>g, <1>8, <2>7, <4>1, <4>2 DEF Told
      <4>. QED
        BY <1>e, <3>1, <4>3
    <3>2. CASE i # n + 1
      <4>1. i <= n
        BY <1>d, <2>7, <3>2
      <4>2. a[i] = target.kind.digest
        BY <1>a, <2>2, <2>7, <4>1 DEF StatusInv
      <4>3. b[i] = a[i]
        BY <1>d, <2>7, <4>1
      <4>. QED
        BY <4>2, <4>3
    <3>. QED
      BY <3>1, <3>2
  <2>8. Serving' <=> Serving
    BY <1>0 DEF Serving
  <2>. QED
    BY <1>0, <1>a, <1>d, <1>4, <2>3, <2>4, <2>6, <2>7, <2>8 DEF StatusInv
<1>. QED
  BY <1>0, <1>a, <1>b, <1>d, <1>4, <1>6, <1>7, <1>8 DEF Progress

LEMMA CollectKeeps ==
  ASSUME AttachInv, NEW c \in Clients, Collect(c)
  PROVE  AttachInv'
<1>. DEFINE j == job[c]
<1>1. PICK t \in threads :
        /\ phase[c] = "called" /\ t.owner = c /\ t.at = "done"
        /\ threads' = threads \ {t} /\ Free(c, t)
        /\ LET taken == [j EXCEPT !.answers = Append(@, t.answer), !.saw = Append(@, t.saw)]
               ok    == NextCall(j).expect = Anything \/ t.answer \in NextCall(j).expect
           IN  IF Waits(j, t) THEN Step(c, "calling", [j EXCEPT !.tries = @ + 1]) /\ UNCHANGED mutex
               ELSE IF ~ok \/ (t.export = "load" /\ ~ExportResolved(c))
                      THEN Step(c, "over", Idle) /\ Release(c)
               ELSE IF Len(taken.answers) = Len(Script(j.request, taken.answers))
                      THEN Step(c, "answered", taken) /\ UNCHANGED mutex
               ELSE Step(c, "calling", taken) /\ UNCHANGED mutex
  BY Zenon DEF Collect
<1>2. target' = target /\ processes' = processes
  BY DEF Collect
<1>3. buffers \subseteq buffers' \cup {c}
  BY <1>1 DEF Free
<1>4. ASSUME NEW u \in threads'
      PROVE  u \in threads /\ u.owner # c
  <2>1. u \in threads /\ u # t
    BY <1>1
  <2>2. u.owner = c => u = t
    BY <1>1, <2>1, AttachAssumption DEF AttachInv, OneThread
  <2>. QED
    BY <2>1, <2>2
<1>5. ASSUME NEW to, NEW k, Step(c, to, k), ClientInv(c)'
      PROVE  AttachInv'
  BY <1>2, <1>3, <1>4, <1>5, ClientStep
<1>6. ClientInv(c)
  BY DEF AttachInv
<1>7. /\ Understands(j) /\ Identified(c) /\ Progress(c)
      /\ DOMAIN j = {"options", "request", "created", "handle", "tries", "answers", "saw"}
  BY <1>1, <1>6 DEF ClientInv, Held
<1>8. CASE Step(c, "calling", [j EXCEPT !.tries = @ + 1])
  <2>1. PICK k : k = [j EXCEPT !.tries = @ + 1]
    OBVIOUS
  <2>2. /\ DOMAIN k = DOMAIN j /\ k.options = j.options /\ k.request = j.request /\ k.created = j.created
        /\ k.handle = j.handle /\ k.answers = j.answers /\ k.saw = j.saw
    BY <1>7, <2>1
  <2>3. phase'[c] = "calling" /\ job'[c] = k
    BY <1>8, <2>1, Stepped
  <2>4. Understands(k)
    BY <1>7, <2>2 DEF Understands
  <2>5. Identified(c)'
    BY <1>2, <1>7, <2>2, <2>3 DEF Identified, Alive
  <2>6. Progress(c)'
    <3>1. Status3(j) <=> Status3(k)
      BY <2>2 DEF Status3
    <3>2. Alive(c)' <=> Alive(c)
      BY <1>2, <2>2, <2>3 DEF Alive
    <3>3. Serving' <=> Serving
      BY <1>2 DEF Serving
    <3>4. StatusInv(c) => StatusInv(c)'
      BY <1>2, <2>2, <2>3, <3>1, <3>2, <3>3 DEF StatusInv
    <3>. QED
      BY <1>7, <2>2, <2>3, <3>2, <3>4 DEF Progress
  <2>7. ClientInv(c)'
    BY <1>7, <2>2, <2>3, <2>4, <2>5, <2>6 DEF ClientInv, Held, Reported
  <2>. QED
    BY <1>5, <1>8, <2>7
<1>9. CASE Step(c, "over", Idle)
  BY <1>5, <1>9, Stepped, OverInv
<1>10. PICK k : k = [j EXCEPT !.answers = Append(@, t.answer), !.saw = Append(@, t.saw)]
  OBVIOUS
<1>11. ASSUME NEW to \in {"calling", "answered"}, Step(c, to, k), Taking(c, t, k),
              to = "calling" => Len(k.answers) # Len(Script(k.request, k.answers)),
              to = "answered" => Len(k.answers) = Len(Script(k.request, k.answers))
       PROVE  AttachInv'
  <2>1. phase'[c] = to /\ job'[c] = k
    BY <1>11, Stepped
  <2>2. /\ DOMAIN k = {"options", "request", "created", "handle", "tries", "answers", "saw"}
        /\ k.options = j.options /\ k.request = j.request /\ k.created = j.created /\ k.handle = j.handle
        /\ Last(k.saw) = t.saw
    BY <1>11, Taken
  <2>3. Understands(k)
    BY <1>7, <2>2 DEF Understands
  <2>4. Identified(c)'
    BY <1>2, <1>7, <2>1, <2>2 DEF Identified, Alive
  <2>5. to = "calling" => Progress(c)'
    BY <1>2, <1>11, <2>1, GoesOn
  <2>6. to = "answered" /\ Reported(c)' => True(k.request, k)
    <3>1. SUFFICES ASSUME to = "answered", Confirmed(k), Last(k.saw) # Gone
                   PROVE  True(k.request, k)
      BY <2>1 DEF Reported
    <3>. QED
      BY <1>11, <2>2, <3>1, AnswersTrue
  <2>7. ClientInv(c)'
    BY <1>11, <2>1, <2>2, <2>3, <2>4, <2>5, <2>6 DEF ClientInv, Held
  <2>. QED
    BY <1>5, <1>11, <2>7
<1>12. CASE /\ Step(c, "answered", k) /\ Len(k.answers) = Len(Script(j.request, k.answers))
            /\ (NextCall(j).expect = Anything \/ t.answer \in NextCall(j).expect)
  <2>1. Taking(c, t, k)
    BY <1>1, <1>10, <1>12 DEF Taking
  <2>2. k.request = j.request
    BY <2>1, Taken
  <2>. QED
    BY <1>11, <1>12, <2>1, <2>2
<1>13. CASE /\ Step(c, "calling", k) /\ Len(k.answers) # Len(Script(j.request, k.answers))
            /\ (NextCall(j).expect = Anything \/ t.answer \in NextCall(j).expect)
  <2>1. Taking(c, t, k)
    BY <1>1, <1>10, <1>13 DEF Taking
  <2>2. k.request = j.request
    BY <2>1, Taken
  <2>. QED
    BY <1>11, <1>13, <2>1, <2>2
<1>. QED
  BY <1>1, <1>8, <1>9, <1>10, <1>12, <1>13

(***************************************************************************)
(* A step of the process                                                   *)
(***************************************************************************)

\* What a process keeps as it goes on.
Forward(p, q) ==
  /\ q.created = p.created /\ q.kind = p.kind
  /\ p.life \in 3 .. 5 => q.life \in 3 .. 5
  /\ p.life \in 3 .. 5 /\ q.life = 3 => p.life = 3
  /\ p.module = "expected" => q.module = "expected"
  /\ p.asked /\ p.hooks = "none" => q.asked /\ q.hooks = "none"

LEMMA SeenParts ==
  ASSUME NEW p
  PROVE  Seen(p) \in Sights <=>
           p.life \in 0 .. 6 /\ p.hooks \in {"none", "pending", "installed"} /\ p.rate \in Nat
BY DEF Seen, Sights

LEMMA ForwardSelf ==
  ASSUME NEW p
  PROVE  Forward(p, p)
BY DEF Forward

LEMMA Rerated ==
  ASSUME NEW p, Proper(p), NEW rate \in Nat, NEW q, q = [p EXCEPT !.rate = rate]
  PROVE  Proper(q) /\ Forward(p, q)
<1>1. DOMAIN p = {"created", "kind", "module", "life", "asked", "hooks", "rate"}
  BY DEF Proper
<1>2. /\ DOMAIN q = DOMAIN p /\ q.created = p.created /\ q.kind = p.kind /\ q.module = p.module
      /\ q.life = p.life /\ q.asked = p.asked /\ q.hooks = p.hooks /\ q.rate = rate
  BY <1>1
<1>. QED
  BY <1>2, SeenParts DEF Proper, Forward

LEMMA LoadOnly ==
  ASSUME NEW p, Proper(p), NEW o \in LoadOutcomes(p)
  PROVE  o.at = "done" /\ Proper(o.target) /\ Forward(p, o.target)
<1>1. CASE o = Outcome(p, 1)
  BY <1>1, ForwardSelf DEF Outcome
<1>2. CASE p.module = "absent" /\ o = Outcome([p EXCEPT !.module = "expected", !.life = Life.attached], 1)
  <2>1. PICK q : q = [p EXCEPT !.module = "expected", !.life = Life.attached]
    OBVIOUS
  <2>2. DOMAIN p = {"created", "kind", "module", "life", "asked", "hooks", "rate"}
    BY DEF Proper
  <2>3. /\ DOMAIN q = DOMAIN p /\ q.created = p.created /\ q.kind = p.kind /\ q.module = "expected"
        /\ q.life = 1 /\ q.asked = p.asked /\ q.hooks = p.hooks /\ q.rate = p.rate
    BY <2>1, <2>2, LifeNumbers
  <2>4. p.life = 0
    BY <1>2, SeenParts DEF Proper
  <2>5. Proper(q) /\ Forward(p, q)
    BY <2>3, <2>4, SeenParts DEF Proper, Forward
  <2>. QED
    BY <1>2, <2>1, <2>5 DEF Outcome
<1>. QED
  BY <1>1, <1>2 DEF LoadOutcomes

LEMMA ArmOnly ==
  ASSUME NEW p, Proper(p), NEW o \in ArmOutcomes(p)
  PROVE  o.at = "done" /\ Proper(o.target) /\ Forward(p, o.target)
<1>1. CASE o = Outcome(p, 0)
  BY <1>1, ForwardSelf DEF Outcome
<1>2. ASSUME p.life = 3, ~p.asked, NEW h \in {"none", "pending", "installed"}, NEW q, NEW rate \in Nat,
             DOMAIN q = DOMAIN p, q.created = p.created, q.kind = p.kind, q.module = p.module,
             q.life = p.life, q.asked = p.asked, q.hooks = h, q.rate = rate
      PROVE  Proper(q) /\ Forward(p, q)
  BY <1>2, SeenParts DEF Proper, Forward
<1>3. CASE /\ p.life = 3 /\ ~p.asked
           /\ \E h \in {"none", "pending"} : o = Outcome([p EXCEPT !.hooks = h], 0)
  <2>1. PICK h \in {"none", "pending"} : o = Outcome([p EXCEPT !.hooks = h], 0)
    BY <1>3
  <2>2. PICK q : q = [p EXCEPT !.hooks = h]
    OBVIOUS
  <2>3. DOMAIN p = {"created", "kind", "module", "life", "asked", "hooks", "rate"} /\ p.rate \in Nat
    BY SeenParts DEF Proper
  <2>4. /\ DOMAIN q = DOMAIN p /\ q.created = p.created /\ q.kind = p.kind /\ q.module = p.module
        /\ q.life = p.life /\ q.asked = p.asked /\ q.hooks = h /\ q.rate = p.rate
    BY <2>2, <2>3
  <2>5. Proper(q) /\ Forward(p, q)
    BY <1>2, <1>3, <2>3, <2>4
  <2>. QED
    BY <2>1, <2>2, <2>5 DEF Outcome
<1>4. CASE p.life = 3 /\ ~p.asked /\ o = Outcome([p EXCEPT !.hooks = "installed", !.rate = Presets.normal], 1)
  <2>2. PICK q : q = [p EXCEPT !.hooks = "installed", !.rate = Presets.normal]
    OBVIOUS
  <2>3. DOMAIN p = {"created", "kind", "module", "life", "asked", "hooks", "rate"}
    BY DEF Proper
  <2>4. /\ DOMAIN q = DOMAIN p /\ q.created = p.created /\ q.kind = p.kind /\ q.module = p.module
        /\ q.life = p.life /\ q.asked = p.asked /\ q.hooks = "installed" /\ q.rate = 1000
    BY <2>2, <2>3, PresetNumbers
  <2>5. Proper(q) /\ Forward(p, q)
    BY <1>2, <1>4, <2>4
  <2>. QED
    BY <1>4, <2>2, <2>5 DEF Outcome
<1>. QED
  BY <1>1, <1>3, <1>4, LifeNumbers DEF ArmOutcomes

LEMMA RateOnly ==
  ASSUME NEW p, Proper(p), NEW rate, NEW answer, NEW o \in RateOutcomes(p, rate, answer)
  PROVE  o.at = "done" /\ Proper(o.target) /\ Forward(p, o.target)
<1>1. CASE o = Outcome(p, 0)
  BY <1>1, ForwardSelf DEF Outcome
<1>2. CASE rate \in Rates /\ o = Outcome([p EXCEPT !.rate = rate], answer)
  <2>1. PICK q : q = [p EXCEPT !.rate = rate]
    OBVIOUS
  <2>2. Proper(q) /\ Forward(p, q)
    BY <1>2, <2>1, Rerated, AttachAssumption
  <2>. QED
    BY <1>2, <2>1, <2>2 DEF Outcome
<1>. QED
  BY <1>1, <1>2 DEF RateOutcomes

LEMMA ShutdownOnly ==
  ASSUME NEW p, Proper(p), p.module = "expected", NEW at \in {"start", "restored", "stopping"},
         at # "start" => p.asked /\ p.hooks = "none", NEW o \in Shutdown(p, at)
  PROVE  /\ o.at \in {"restored", "stopping", "done"} /\ Proper(o.target) /\ Forward(p, o.target)
         /\ o.at # "done" => o.target.asked /\ o.target.hooks = "none"
<1>1. /\ DOMAIN p = {"created", "kind", "module", "life", "asked", "hooks", "rate"}
      /\ p.life \in 0 .. 6 /\ p.hooks \in {"none", "pending", "installed"} /\ p.rate \in Nat
      /\ p.life \in 4 .. 5 => p.asked /\ p.hooks = "none"
      /\ p.created \in Nat \ {0} /\ p.kind \in Kinds
  BY SeenParts DEF Proper
<1>2. CASE at = "start"
  <2>1. PICK a : a = [p EXCEPT !.asked = TRUE]
    OBVIOUS
  <2>2. PICK h \in {"none", "pending"} :
          /\ o.target = [a EXCEPT !.hooks = h]
          /\ h = "none" => o.at = "restored"
          /\ h = "pending" => o.at = "done" /\ p.hooks # "none"
    <3>1. \/ o = [target |-> [a EXCEPT !.hooks = "none"], answer |-> 0, at |-> "restored"]
          \/ p.hooks # "none" /\ o = Outcome([a EXCEPT !.hooks = "pending"], 0)
      BY <1>2, <2>1 DEF Shutdown
    <3>. QED
      BY <3>1 DEF Outcome
  <2>3. PICK q : q = o.target
    OBVIOUS
  <2>4. /\ DOMAIN a = DOMAIN p /\ a.created = p.created /\ a.kind = p.kind /\ a.module = p.module
        /\ a.life = p.life /\ a.asked = TRUE /\ a.rate = p.rate
    BY <1>1, <2>1
  <2>5. /\ DOMAIN q = DOMAIN p /\ q.created = p.created /\ q.kind = p.kind /\ q.module = p.module
        /\ q.life = p.life /\ q.asked = TRUE /\ q.hooks = h /\ q.rate = p.rate
    BY <1>1, <2>2, <2>3, <2>4
  <2>6. p.life \in 4 .. 5 => h = "none"
    BY <1>1, <2>2
  <2>7. Proper(q)
    BY <1>1, <2>5, <2>6, SeenParts DEF Proper
  <2>8. Forward(p, q)
    BY <2>2, <2>5 DEF Forward
  <2>. QED
    BY <2>2, <2>3, <2>5, <2>7, <2>8
<1>3. CASE at = "restored" /\ o = Outcome(p, 1)
  BY <1>3, ForwardSelf DEF Outcome
<1>4. ASSUME NEW q, NEW life \in 4 .. 5, at # "start", q = [p EXCEPT !.life = life]
      PROVE  Proper(q) /\ Forward(p, q) /\ q.asked /\ q.hooks = "none"
  <2>1. /\ DOMAIN q = DOMAIN p /\ q.created = p.created /\ q.kind = p.kind /\ q.module = p.module
        /\ q.life = life /\ q.asked = p.asked /\ q.hooks = p.hooks /\ q.rate = p.rate
    BY <1>1, <1>4
  <2>2. q.asked /\ q.hooks = "none"
    BY <1>4, <2>1
  <2>3. q.life \in 0 .. 6 /\ q.life \in 3 .. 5 /\ q.life # 3
    BY <1>4, <2>1
  <2>4. Proper(q)
    BY <1>1, <1>4, <2>1, <2>2, <2>3, SeenParts DEF Proper
  <2>5. Forward(p, q)
    BY <2>1, <2>3 DEF Forward
  <2>. QED
    BY <2>2, <2>4, <2>5
<1>5. CASE /\ at = "restored"
           /\ o = [target |-> [p EXCEPT !.life = Life.stopping], answer |-> 0, at |-> "stopping"]
  <2>1. PICK q : q = [p EXCEPT !.life = 4]
    OBVIOUS
  <2>2. Proper(q) /\ Forward(p, q) /\ q.asked /\ q.hooks = "none"
    BY <1>4, <1>5, <2>1
  <2>. QED
    BY <1>5, <2>1, <2>2, LifeNumbers
<1>6. CASE at = "stopping" /\ o = Outcome([p EXCEPT !.life = Life.stopped], 1)
  <2>1. PICK q : q = [p EXCEPT !.life = 5]
    OBVIOUS
  <2>2. Proper(q) /\ Forward(p, q)
    BY <1>4, <1>6, <2>1
  <2>. QED
    BY <1>6, <2>1, <2>2, LifeNumbers DEF Outcome
<1>. QED
  BY <1>2, <1>3, <1>5, <1>6 DEF Shutdown

Looks == {"life", "hooks", "rate", "imports", "profile", "word"}

\* What a step of a thread makes of the process.
LEMMA OutcomesOnly ==
  ASSUME NEW p, Proper(p), NEW t, t.at \in {"start", "restored", "stopping"},
         t.export # "load" => p.module = "expected",
         t.at # "start" => p.asked /\ p.hooks = "none", NEW o \in Outcomes(p, t)
  PROVE  /\ o.at \in {"restored", "stopping", "done"} /\ Proper(o.target) /\ Forward(p, o.target)
         /\ o.at # "done" => o.target.asked /\ o.target.hooks = "none"
         /\ t.export \in Looks => o.target = p /\ o.answer = Query(p, t)
<1>1. CASE t.export = "load"
  <2>1. o \in LoadOutcomes(p)
    BY <1>1 DEF Outcomes
  <2>. QED
    BY <1>1, <2>1, LoadOnly DEF Looks
<1>2. CASE t.export = "arm"
  <2>1. o \in ArmOutcomes(p)
    BY <1>2 DEF Outcomes
  <2>. QED
    BY <1>2, <2>1, ArmOnly DEF Looks
<1>3. CASE t.export = "setRate"
  <2>1. o \in RateOutcomes(p, t.arg, 1)
    BY <1>3 DEF Outcomes
  <2>. QED
    BY <1>3, <2>1, RateOnly DEF Looks
<1>4. CASE t.export = "step"
  <2>1. PICK rate \in Rates : o \in RateOutcomes(p, rate, rate)
    BY <1>4 DEF Outcomes
  <2>. QED
    BY <1>4, <2>1, RateOnly DEF Looks
<1>5. CASE t.export = "shutdown"
  <2>1. o \in Shutdown(p, t.at)
    BY <1>5 DEF Outcomes
  <2>. QED
    BY <1>5, <2>1, ShutdownOnly DEF Looks
<1>6. CASE t.export \notin {"load", "arm", "setRate", "step", "shutdown"}
  <2>1. o = Outcome(p, Query(p, t))
    BY <1>6 DEF Outcomes
  <2>. QED
    BY <2>1, ForwardSelf DEF Outcome
<1>. QED
  BY <1>1, <1>2, <1>3, <1>4, <1>5, <1>6

LEMMA ProcessClient ==
  ASSUME NEW c, ClientInv(c), phase'[c] = phase[c], job'[c] = job[c],
         phase[c] \in Held /\ Alive(c)' => Alive(c) /\ Forward(target, target')
  PROVE  ClientInv(c)'
<1>1. ASSUME phase[c] \in Held, Identified(c)
      PROVE  Identified(c)'
  BY <1>1 DEF Identified, Forward
<1>2. ASSUME phase[c] \in Held, Progress(c)
      PROVE  Progress(c)'
  <2>1. StatusInv(c) => StatusInv(c)'
    <3>1. Alive(c)' /\ Serving => Serving'
      BY <1>2 DEF Serving, Forward
    <3>2. ASSUME Alive(c)', Serving, target'.life = 3
          PROVE  target.life = 3 /\ target'.kind = target.kind
      BY <1>2, <3>2 DEF Serving, Forward
    <3>. QED
      BY <1>2, <3>1, <3>2 DEF StatusInv
  <2>. QED
    BY <1>2, <2>1 DEF Progress
<1>. QED
  BY <1>1, <1>2 DEF ClientInv, Held, Reported

LEMMA WordServed ==
  ASSUME NEW c, Progress(c), job[c].request.action = "status", Len(job[c].answers) \in 6 .. 7, Alive(c)
  PROVE  Serving
<1>1. PICK n : n = Len(job[c].answers)
  OBVIOUS
<1>2. n >= 6
  <2>1. n \in 6 .. 7
    BY <1>1
  <2>. QED
    BY <2>1
<1>. QED
  BY <1>1, <1>2 DEF Progress, StatusInv

LEMMA ProcessThread ==
  ASSUME NEW t, ThreadInv(t), t.owner # None => ClientInv(t.owner),
         phase' = phase, job' = job, target.created # 0, Proper(target), Forward(target, target'),
         t.owner \in buffers => t.owner \in buffers'
  PROVE  ThreadInv(t)'
<1>1. \A c : Alive(c)' <=> Alive(c)
  BY DEF Alive, Forward
<1>2. t.at # "done" => Selected(t)'
  BY DEF ThreadInv, Selected, Forward
<1>3. ASSUME t.at = "done"
      PROVE  Told(t)'
  <2>1. Told(t) /\ t.owner # None /\ phase[t.owner] = "called"
    BY <1>3 DEF ThreadInv
  <2>2. Progress(t.owner)
    BY <2>1 DEF ClientInv
  <2>3. Serving => Serving'
    BY DEF Serving, Forward
  <2>4. Serving /\ target'.life = 3 => target.life = 3 /\ target'.kind = target.kind
    BY DEF Serving, Forward
  <2>5. Len(job[t.owner].answers) \in 6 .. 7 /\ job[t.owner].request.action = "status" /\ Alive(t.owner) => Serving
    BY <2>2, WordServed
  <2>. QED
    BY <1>1, <2>1, <2>3, <2>4, <2>5 DEF Told
<1>. QED
  BY <1>1, <1>2, <1>3 DEF ThreadInv, Forward

LEMMA ProcessStep ==
  ASSUME AttachInv, phase' = phase, job' = job, buffers' = buffers, processes' = processes,
         target.created # 0, Proper(target'), Forward(target, target'),
         \A t \in threads' : t \in threads \/ ThreadInv(t)', OneThread'
  PROVE  AttachInv'
<1>1. TargetInv'
  BY DEF AttachInv, TargetInv, Forward
<1>2. \A c : Alive(c)' <=> Alive(c)
  BY DEF Alive, Forward
<1>3. \A c \in Clients : ClientInv(c)'
  BY <1>2, ProcessClient DEF AttachInv
<1>4. ASSUME NEW t \in threads'
      PROVE  ThreadInv(t)'
  <2>1. CASE t \in threads
    <3>1. ThreadInv(t) /\ Proper(target) /\ (t.owner # None => ClientInv(t.owner))
      BY <2>1 DEF AttachInv, ThreadInv, TargetInv
    <3>. QED
      BY <3>1, ProcessThread
  <2>. QED
    BY <2>1
<1>. QED
  BY <1>1, <1>3, <1>4 DEF AttachInv

LEMMA ExecuteKeeps ==
  ASSUME AttachInv, NEW t \in threads, Execute(t)
  PROVE  AttachInv'
<1>1. PICK o \in Outcomes(target, t) :
        /\ target' = o.target
        /\ threads' = (threads \ {t}) \cup
             IF o.at = "done" /\ (t.owner = None \/ phase[t.owner] # "called") THEN {}
             ELSE {[t EXCEPT !.at = o.at, !.answer = o.answer,
                             !.saw = IF o.at = "done" THEN Seen(o.target) ELSE None]}
  BY DEF Execute
<1>2. /\ t.at # "done" /\ phase' = phase /\ job' = job /\ buffers' = buffers /\ processes' = processes
      /\ ThreadInv(t)
  BY DEF Execute, AttachInv
<1>3. /\ target.created # 0 /\ (t.export # "load" => target.module = "expected")
      /\ (t.at # "start" => target.asked /\ target.hooks = "none") /\ Selected(t)
      /\ t.at \in {"start", "restored", "stopping"}
      /\ DOMAIN t = {"owner", "for", "export", "arg", "at", "answer", "saw"}
  BY <1>2 DEF ThreadInv
<1>4. Proper(target)
  BY <1>3 DEF AttachInv, TargetInv
<1>5. /\ o.at \in {"restored", "stopping", "done"} /\ Proper(target') /\ Forward(target, target')
      /\ o.at # "done" => target'.asked /\ target'.hooks = "none"
      /\ t.export \in Looks => target' = target /\ o.answer = Query(target, t)
  BY <1>1, <1>3, <1>4, OutcomesOnly
<1>6. PICK n : n = [t EXCEPT !.at = o.at, !.answer = o.answer,
                             !.saw = IF o.at = "done" THEN Seen(o.target) ELSE None]
  OBVIOUS
<1>7. /\ DOMAIN n = DOMAIN t /\ n.owner = t.owner /\ n.for = t.for /\ n.export = t.export
      /\ n.at = o.at /\ n.answer = o.answer /\ (o.at = "done" => n.saw = Seen(target'))
  BY <1>1, <1>3, <1>6
<1>8. \A u \in threads' : u = n \/ (u \in threads /\ u # t)
  BY <1>1, <1>6
<1>9. n \in threads' => ThreadInv(n)' \/ n \in threads
  <2>1. SUFFICES ASSUME n \in threads', n \notin threads
                 PROVE  ThreadInv(n)'
    OBVIOUS
  <2>2. o.at = "done" => t.owner # None /\ phase[t.owner] = "called"
    BY <1>1, <2>1
  <2>3. t.owner # None => t.owner \in Clients /\ phase[t.owner] \in {"called", "over"}
    BY <1>2 DEF ThreadInv
  <2>4. \A c : Alive(c)' <=> Alive(c)
    BY <1>2, <1>5 DEF Alive, Forward
  <2>5. o.at # "done" => Selected(n)'
    BY <1>2, <1>3, <1>5, <1>7 DEF Selected, Forward
  <2>6. t.owner # None /\ phase[t.owner] = "called" =>
          t.export = NextCall(job[t.owner]).export /\ Alive(t.owner)
    BY <1>2 DEF ThreadInv
  <2>7. ASSUME o.at = "done"
        PROVE  Told(n)'
    <3>1. PICK c : c = t.owner
      OBVIOUS
    <3>2. c \in Clients /\ phase[c] = "called" /\ Alive(c) /\ n.owner = c
      BY <1>7, <2>2, <2>3, <2>6, <2>7, <3>1
    <3>3. Progress(c)
      BY <3>2 DEF AttachInv, ClientInv
    <3>4. PICK p : p = target'
      OBVIOUS
    <3>5. /\ n.saw \in Sights /\ n.saw # Gone
          /\ n.saw.life = p.life /\ n.saw.hooks = p.hooks /\ n.saw.rate = p.rate
      BY <1>5, <1>7, <2>7, <3>4, AttachAssumption DEF Proper, Seen
    <3>6. t.export \in Looks => p = target /\ n.answer = Query(p, t)
      BY <1>5, <1>7, <3>4
    <3>7. n.export = "life" => n.answer = n.saw.life /\ (n.answer = 5 => n.saw.hooks = "none")
      BY <1>4, <1>7, <3>5, <3>6 DEF Looks, Query, Proper
    <3>8. n.export = "hooks" /\ n.answer = 1 => n.saw.life = 3 /\ n.saw.hooks = "installed"
      BY <1>7, <3>5, <3>6, LifeNumbers DEF Looks, Query, Full
    <3>9. n.export = "rate" /\ n.answer # 0 =>
            n.saw.life = 3 /\ n.saw.hooks = "installed" /\ n.saw.rate = n.answer
      BY <1>7, <3>5, <3>6, LifeNumbers DEF Looks, Query, Full
    <3>10. n.export = "profile" /\ n.answer = 1 => target.life = 3 /\ Serving /\ Serving'
      BY <1>7, <3>4, <3>6, LifeNumbers DEF Looks, Query, Profile, Serving
    <3>11. ASSUME job[c].request.action = "status", n.export = "profile", n.answer = 1,
                  Len(job[c].answers) = 8
           PROVE  job[c].answers[7] = job[c].answers[8] /\ job[c].answers[7] # 0
      <4>1. StatusInv(c) /\ target.life = 3
        BY <3>3, <3>10, <3>11 DEF Progress
      <4>2. job[c].answers[7] = target.kind.digest /\ job[c].answers[8] = target.kind.digest
        BY <3>2, <3>11, <4>1 DEF StatusInv
      <4>3. target.kind.digest # 0
        BY <1>4, AttachAssumption DEF Proper
      <4>. QED
        BY <4>2, <4>3
    <3>12. ASSUME job[c].request.action = "status", n.export = "word", Len(job[c].answers) \in 6 .. 7,
                  target'.life = 3
           PROVE  n.answer = target'.kind.digest
      <4>1. Serving
        BY <3>2, <3>3, <3>12, WordServed
      <4>2. Profile(p) = 1
        BY <1>7, <3>4, <3>6, <3>12, <4>1, LifeNumbers DEF Looks, Profile, Serving
      <4>. QED
        BY <1>7, <3>4, <3>6, <3>12, <4>2 DEF Looks, Query
    <3>. QED
      BY <1>2, <2>4, <3>2, <3>5, <3>7, <3>8, <3>9, <3>10, <3>11, <3>12 DEF Told
  <2>. QED
    BY <1>2, <1>3, <1>5, <1>7, <2>2, <2>3, <2>4, <2>5, <2>6, <2>7 DEF ThreadInv, Forward
<1>10. OneThread'
  <2>1. \A u \in threads : t.owner # None /\ u.owner = t.owner /\ phase[t.owner] = "called" => u = t
    BY DEF AttachInv, OneThread
  <2>. QED
    BY <1>2, <1>7, <1>8, <2>1 DEF AttachInv, OneThread
<1>. QED
  BY <1>2, <1>3, <1>5, <1>8, <1>9, <1>10, ProcessStep

\* A thread that the process starts of its own accord.
LEMMA InternalInv ==
  ASSUME NEW export \in {"arm", "shutdown"}, target'.created # 0, target'.module = "expected",
         None \notin Clients
  PROVE  ThreadInv(Internal(export))'
<1>1. PICK u : u = Internal(export)'
  OBVIOUS
<1>2. /\ DOMAIN u = {"owner", "for", "export", "arg", "at", "answer", "saw"}
      /\ u.owner = None /\ u.export = export /\ u.at = "start"
  BY <1>1 DEF Internal
<1>3. ThreadInv(u)'
  BY <1>2 DEF ThreadInv, Selected
<1>. QED
  BY <1>1, <1>3

LEMMA InternalThreads ==
  ASSUME AttachInv, phase' = phase, NEW export,
         threads' = threads \/ threads' = threads \cup {Internal(export)}
  PROVE  OneThread'
<1>1. Internal(export).owner = None
  BY DEF Internal
<1>. QED
  BY <1>1 DEF AttachInv, OneThread

LEMMA BootstrapKeeps ==
  ASSUME AttachInv, Bootstrap
  PROVE  AttachInv'
<1>1. PICK life \in {Life.bootstrapping, Life.running, Life.failed} :
        /\ target.life \in 1 .. 2 /\ target' = [target EXCEPT !.life = life]
        /\ threads' = threads \/ threads' = threads \cup {Internal("arm")}
  BY LifeNumbers DEF Bootstrap
<1>2. /\ target.created # 0 /\ phase' = phase /\ job' = job /\ buffers' = buffers /\ processes' = processes
  BY DEF Bootstrap
<1>3. Proper(target)
  BY <1>2 DEF AttachInv, TargetInv
<1>4. PICK q : q = target'
  OBVIOUS
<1>5. DOMAIN target = {"created", "kind", "module", "life", "asked", "hooks", "rate"}
  BY <1>3 DEF Proper
<1>6. /\ DOMAIN q = DOMAIN target /\ q.created = target.created /\ q.kind = target.kind
      /\ q.module = target.module /\ q.life = life /\ q.asked = target.asked /\ q.hooks = target.hooks
      /\ q.rate = target.rate
  BY <1>1, <1>4, <1>5
<1>7. life \in {2, 3, 6} /\ target.module = "expected"
  BY <1>1, <1>3, LifeNumbers DEF Proper
<1>8. Proper(q) /\ Forward(target, q)
  BY <1>1, <1>3, <1>6, <1>7, SeenParts DEF Proper, Forward
<1>9. \A t \in threads' : t \in threads \/ t = Internal("arm")
  BY <1>1
<1>10. Internal("arm")' = Internal("arm")
  BY <1>4, <1>6 DEF Internal
<1>11. ThreadInv(Internal("arm"))'
  BY <1>2, <1>4, <1>6, <1>7, InternalInv, AttachAssumption
<1>12. \A t \in threads' : t \in threads \/ ThreadInv(t)'
  BY <1>9, <1>10, <1>11
<1>13. OneThread'
  BY <1>1, <1>2, InternalThreads
<1>. QED
  BY <1>2, <1>4, <1>8, <1>12, <1>13, ProcessStep

LEMMA InsideKeeps ==
  ASSUME AttachInv, Inside
  PROVE  AttachInv'
<1>1. /\ target.created # 0 /\ phase' = phase /\ job' = job /\ buffers' = buffers /\ processes' = processes
  BY DEF Inside
<1>2. Proper(target)
  BY <1>1 DEF AttachInv, TargetInv
<1>3. CASE \E rate \in Rates : Full(target) /\ target' = [target EXCEPT !.rate = rate] /\ UNCHANGED threads
  <2>1. PICK rate \in Rates : target' = [target EXCEPT !.rate = rate] /\ threads' = threads
    BY <1>3
  <2>2. Proper(target') /\ Forward(target, target')
    BY <1>2, <2>1, Rerated, AttachAssumption
  <2>3. OneThread'
    BY <1>1, <2>1, InternalThreads
  <2>. QED
    BY <1>1, <2>1, <2>2, <2>3, ProcessStep
<1>4. CASE target.life = 3 /\ threads' = threads \cup {Internal("shutdown")} /\ target' = target
  <2>1. target.module = "expected"
    BY <1>2, <1>4 DEF Proper
  <2>2. Internal("shutdown")' = Internal("shutdown")
    BY <1>4 DEF Internal
  <2>3. ThreadInv(Internal("shutdown"))'
    BY <1>1, <1>4, <2>1, InternalInv, AttachAssumption
  <2>4. \A t \in threads' : t \in threads \/ ThreadInv(t)'
    BY <1>4, <2>2, <2>3
  <2>5. OneThread'
    BY <1>1, <1>4, InternalThreads
  <2>. QED
    BY <1>1, <1>2, <1>4, <2>4, <2>5, ForwardSelf, ProcessStep
<1>. QED
  BY <1>3, <1>4, LifeNumbers DEF Inside

LEMMA ExitKeeps ==
  ASSUME AttachInv, NEW code \in ExitCodes, Exit(code)
  PROVE  AttachInv'
<1>1. /\ target' = Nobody /\ target'.created = 0 /\ phase' = phase /\ job' = job /\ processes' = processes
  BY DEF Exit, Nobody
<1>2. TargetInv'
  BY <1>1 DEF AttachInv, TargetInv
<1>3. ASSUME NEW c \in Clients
      PROVE  ClientInv(c)'
  <2>1. ClientInv(c)
    BY DEF AttachInv
  <2>2. phase[c] \in Held => ~Alive(c)'
    BY <1>1, <2>1 DEF ClientInv, Identified, Alive
  <2>. QED
    BY <1>1, <2>1, <2>2, ProcessClient
<1>4. ASSUME NEW n \in threads'
      PROVE  ThreadInv(n)' /\ \E u \in threads : n = [u EXCEPT !.at = "done", !.answer = IF u.at = "done" THEN @ ELSE code,
                                                            !.saw = IF u.at = "done" THEN @ ELSE Gone]
  <2>1. PICK u \in threads :
          /\ u.owner # None /\ phase[u.owner] = "called"
          /\ n = [u EXCEPT !.at = "done", !.answer = IF u.at = "done" THEN @ ELSE code,
                           !.saw = IF u.at = "done" THEN @ ELSE Gone]
    BY <1>4 DEF Exit
  <2>2. ThreadInv(u) /\ DOMAIN u = {"owner", "for", "export", "arg", "at", "answer", "saw"}
        /\ u.owner \in Clients
    BY <2>1 DEF AttachInv, ThreadInv
  <2>3. /\ DOMAIN n = DOMAIN u /\ n.owner = u.owner /\ n.export = u.export /\ n.at = "done"
        /\ u.at = "done" => n.answer = u.answer /\ n.saw = u.saw
        /\ u.at # "done" => n.saw = Gone
    BY <2>1, <2>2
  <2>4. ~Alive(n.owner)'
    BY <1>1, <2>1, <2>2, <2>3 DEF AttachInv, ClientInv, Held, Identified, Alive
  <2>5. Told(n)'
    <3>1. CASE u.at = "done"
      <4>1. Told(u)
        BY <2>2, <3>1 DEF ThreadInv
      <4>. QED
        BY <1>1, <2>3, <2>4, <3>1, <4>1 DEF Told
    <3>2. CASE u.at # "done"
      BY <2>3, <2>4, <3>2 DEF Told
    <3>. QED
      BY <3>1, <3>2
  <2>6. n.export = NextCall(job[n.owner]).export
    BY <2>1, <2>2, <2>3 DEF ThreadInv
  <2>. QED
    BY <1>1, <2>1, <2>2, <2>3, <2>5, <2>6 DEF ThreadInv
<1>5. OneThread'
  <2>1. SUFFICES ASSUME NEW n \in threads', NEW m \in threads', n.owner # None, n.owner = m.owner,
                        phase'[n.owner] = "called"
                 PROVE  n = m
    BY DEF OneThread
  <2>2. PICK u \in threads : n = [u EXCEPT !.at = "done", !.answer = IF u.at = "done" THEN @ ELSE code,
                                           !.saw = IF u.at = "done" THEN @ ELSE Gone]
    BY <1>4
  <2>3. PICK v \in threads : m = [v EXCEPT !.at = "done", !.answer = IF v.at = "done" THEN @ ELSE code,
                                           !.saw = IF v.at = "done" THEN @ ELSE Gone]
    BY <1>4
  <2>4. /\ DOMAIN u = {"owner", "for", "export", "arg", "at", "answer", "saw"}
        /\ DOMAIN v = {"owner", "for", "export", "arg", "at", "answer", "saw"}
    BY DEF AttachInv, ThreadInv
  <2>5. n.owner = u.owner /\ m.owner = v.owner
    BY <2>2, <2>3, <2>4
  <2>6. u = v
    BY <1>1, <2>1, <2>5 DEF AttachInv, OneThread
  <2>. QED
    BY <2>2, <2>3, <2>6
<1>. QED
  BY <1>1, <1>2, <1>3, <1>4, <1>5 DEF AttachInv

LEMMA SpawnKeeps ==
  ASSUME AttachInv, NEW k \in Kinds, Spawn(k)
  PROVE  AttachInv'
<1>1. /\ target.created = 0 /\ phase' = phase /\ job' = job /\ threads' = threads
      /\ processes' = processes + 1 /\ target' = NewProcess(processes + 1, k) /\ processes \in Nat
      /\ \A c \in Clients : phase[c] \notin Held
  BY DEF Spawn, Held, AttachInv, TargetInv
<1>2. threads = {}
  <2>1. ASSUME NEW t \in threads
        PROVE  FALSE
    <3>1. ThreadInv(t)
      BY <2>1 DEF AttachInv
    <3>. QED
      BY <1>1, <3>1 DEF ThreadInv, Held
  <2>. QED
    BY <2>1
<1>3. TargetInv'
  <2>1. PICK p : p = NewProcess(processes + 1, k)
    OBVIOUS
  <2>2. /\ DOMAIN p = {"created", "kind", "module", "life", "asked", "hooks", "rate"}
        /\ p.created = processes + 1 /\ p.kind = k /\ p.life = 0 /\ p.hooks = "none" /\ p.rate = 0
    BY <2>1 DEF NewProcess
  <2>3. Proper(p)
    BY <1>1, <2>2, SeenParts DEF Proper
  <2>. QED
    BY <1>1, <2>1, <2>2, <2>3 DEF TargetInv
<1>4. \A c \in Clients : ClientInv(c)'
  BY <1>1, ProcessClient DEF AttachInv
<1>. QED
  BY <1>1, <1>2, <1>3, <1>4 DEF AttachInv, OneThread

LEMMA AttachStarts == AttachInit => AttachInv
<1>1. SUFFICES ASSUME AttachInit
               PROVE  AttachInv
  OBVIOUS
<1>2. PICK k \in Kinds : target = NewProcess(1, k)
  BY <1>1 DEF AttachInit
<1>3. PICK p : p = NewProcess(1, k)
  OBVIOUS
<1>4. /\ DOMAIN p = {"created", "kind", "module", "life", "asked", "hooks", "rate"}
      /\ p.created = 1 /\ p.kind = k /\ p.life = 0 /\ p.hooks = "none" /\ p.rate = 0
  BY <1>3 DEF NewProcess
<1>5. Proper(p)
  BY <1>4, SeenParts DEF Proper
<1>6. TargetInv
  BY <1>1, <1>2, <1>3, <1>4, <1>5 DEF AttachInit, TargetInv
<1>7. ASSUME NEW c \in Clients
      PROVE  ClientInv(c)
  <2>1. phase[c] = "idle" /\ job[c] = Idle
    BY <1>1 DEF AttachInit
  <2>. QED
    BY <2>1 DEF ClientInv, Held, Idle
<1>. QED
  BY <1>1, <1>6, <1>7 DEF AttachInit, AttachInv, OneThread

LEMMA AttachKept == AttachInv /\ [AttachNext]_attachVars => AttachInv'
<1>1. SUFFICES ASSUME AttachInv, [AttachNext]_attachVars
               PROVE  AttachInv'
  OBVIOUS
<1>2. ASSUME NEW c \in Clients, NEW o \in Options, Select(c, o)
      PROVE  AttachInv'
  BY <1>1, <1>2, SelectKeeps
<1>3. ASSUME NEW c \in Clients,
             Snapshot(c) \/ Open(c) \/ Acquire(c) \/ Inspect(c) \/ Begin(c) \/ Collect(c)
             \/ Report(c) \/ GiveUp(c) \/ Kill(c)
      PROVE  AttachInv'
  BY <1>1, <1>3, SnapshotKeeps, OpenKeeps, AcquireKeeps, InspectKeeps, BeginKeeps, CollectKeeps, ReportKeeps,
     GiveUpKeeps
<1>4. ASSUME NEW t \in threads, Execute(t)
      PROVE  AttachInv'
  BY <1>1, <1>4, ExecuteKeeps
<1>5. CASE Bootstrap
  BY <1>1, <1>5, BootstrapKeeps
<1>6. CASE Inside
  BY <1>1, <1>6, InsideKeeps
<1>7. ASSUME NEW code \in ExitCodes, Exit(code)
      PROVE  AttachInv'
  BY <1>1, <1>7, ExitKeeps
<1>8. ASSUME NEW k \in Kinds, Spawn(k)
      PROVE  AttachInv'
  BY <1>1, <1>8, SpawnKeeps
<1>9. CASE UNCHANGED attachVars
  <2>1. /\ target' = target /\ threads' = threads /\ buffers' = buffers /\ phase' = phase /\ job' = job
        /\ processes' = processes
    BY <1>9 DEF attachVars
  <2>2. TargetInv' /\ OneThread'
    BY <1>1, <2>1 DEF AttachInv, TargetInv, OneThread
  <2>3. \A c \in Clients : ClientInv(c)'
    BY <1>1, <2>1, OtherClient DEF AttachInv
  <2>4. \A t \in threads : ThreadInv(t)'
    BY <1>1, <2>1, OtherThread DEF AttachInv
  <2>. QED
    BY <1>1, <2>1, <2>2, <2>3, <2>4 DEF AttachInv
<1>. QED
  BY <1>1, <1>2, <1>3, <1>4, <1>5, <1>6, <1>7, <1>8, <1>9 DEF AttachNext

\* A helper runs nothing but in the process that was selected, and no loader outlives
\* the path it reads: run_selected_game and its remote threads.
THEOREM HelpersInSelected == AttachSpec => []HelpersSelected
<1>1. AttachInv => HelpersSelected
  BY DEF AttachInv, ThreadInv, Selected, HelpersSelected
<1>. QED
  BY AttachStarts, AttachKept, <1>1, PTL DEF AttachSpec

\* What a helper reports was asked for and was so when the last question was answered,
\* whatever the process, its user and other helpers did meanwhile.
THEOREM ReportsAreTrue == AttachSpec => []ReportsTrue
<1>1. AttachInv => ReportsTrue
  <2>1. SUFFICES ASSUME AttachInv, NEW c \in Clients
                 PROVE  /\ phase[c] \notin {"idle", "selected", "over"} /\ job[c].options # Fixture =>
                             Carried(job[c].options, job[c].request)
                        /\ Reported(c) => True(job[c].request, job[c])
    BY DEF ReportsTrue
  <2>2. ClientInv(c)
    BY <2>1 DEF AttachInv
  <2>. QED
    BY <2>2 DEF ClientInv, Held, Understands, Reported
<1>. QED
  BY AttachStarts, AttachKept, <1>1, PTL DEF AttachSpec

(***************************************************************************)
(* live-match and attach-game: what is known of the process that is named  *)
(***************************************************************************)

Maybe(S) == S \cup {Nothing}
Keyed == {PathKey[p] : p \in DOMAIN PathKey}
ImagePaths == {k.path : k \in Images}

Rows == [id : Ids, created : Maybe(Nat), machine : Maybe({k.machine : k \in Images}), path : Maybe(ImagePaths),
         file : Maybe({f.machine : f \in FileContents}), imports : Maybe({f.imports : f \in FileContents})]

Reviews == [action : {"review", "attach", "arm"}, choice : Candidates, expected : Maybe(Nat) \cup {Unset},
            config : Maybe({l.config : l \in Libraries}), runner : {"unknown", "verified"},
            programs : {l.programs : l \in Libraries} \cup {<<>>},
            left : Seq([id : Ids, name : ImagePaths]), rows : Seq(Rows)]

Was(id) == [created : Nat, id : {id}, path : ImagePaths, machine : {k.machine : k \in Images}]

\* Processes that run and rows that tell of them.
MatchShape ==
  /\ library \in Libraries
  /\ files \in [Keyed -> FileContents]
  /\ DOMAIN running = Ids /\ IsFiniteSet(history)
  /\ \A id \in Ids : running[id] # Nothing => running[id] \in history /\ running[id] \in Was(id)
  /\ review \in Reviews

\* Each process of the snapshot is looked at once.
Once ==
  /\ \A m, n \in DOMAIN review.rows : review.rows[m].id = review.rows[n].id => m = n
  /\ \A m, n \in DOMAIN review.left : review.left[m].id = review.left[n].id => m = n
  /\ \A m \in DOMAIN review.rows, n \in DOMAIN review.left : review.rows[m].id # review.left[n].id
  /\ stage \in {"file", "imports"} => review.rows # <<>> /\ Last(review.rows).imports = Nothing
  /\ stage \in {"idle", "root", "runner", "programs", "processes"} => review.rows = <<>>

ImportsRead == \A n \in DOMAIN review.rows : review.rows[n].imports # Nothing => review.rows[n].file = "x64"

MatchInv ==
  /\ MatchShape /\ Once /\ ImportsRead /\ OneProcessPerRow
  /\ stage = "admitted" => Admissible(review)

LEMMA MatchStarts == MatchInit => MatchInv
<1> SUFFICES ASSUME MatchInit PROVE MatchInv
  OBVIOUS
<1>1. PICK c \in Candidates : review = Fresh("review", c, Unset)
  BY DEF MatchInit
<1>2. PICK id \in Ids, k \in Images :
        /\ running = [i \in Ids |-> IF i = id THEN Process(1, id, k) ELSE Nothing]
        /\ history = {Process(1, id, k)}
  BY DEF MatchInit
<1>3. review \in Reviews /\ review.rows = <<>> /\ review.left = <<>>
  BY <1>1 DEF Fresh, Reviews, Maybe
<1>4. MatchShape
  <2>1. Process(1, id, k) \in Was(id)
    BY DEF Process, Was, ImagePaths
  <2>2. files \in [Keyed -> FileContents]
    BY MatchAssumption DEF MatchInit, Keyed
  <2>3. IsFiniteSet(history)
    BY <1>2, FS_Singleton
  <2> QED BY <1>2, <1>3, <2>1, <2>2, <2>3 DEF MatchInit, MatchShape
<1>5. stage = "idle"
  BY DEF MatchInit
<1> QED BY <1>3, <1>4, <1>5 DEF MatchInv, Once, ImportsRead, OneProcessPerRow

\* A step of the tool that leaves the rows alone.
LEMMA Steps ==
  ASSUME MatchInv, review' \in Reviews, UNCHANGED world,
         review'.rows = review.rows, review'.left = review.left,
         stage' \notin {"file", "imports", "admitted"},
         stage' \in {"idle", "root", "runner", "programs", "processes"} => review.rows = <<>>
  PROVE  MatchInv'
  BY DEF MatchInv, MatchShape, Once, ImportsRead, OneProcessPerRow, world

LEMMA Plainly ==
  ASSUME MatchInv, ListBottles \/ CheckPrefix \/ CheckRunner \/ ReadPrograms \/ Review \/ Refuse
  PROVE  MatchInv'
<1>1. CASE ListBottles
  <2>1. review' \in Reviews /\ review'.rows = review.rows /\ review'.left = review.left
    BY <1>1 DEF ListBottles, Go, MatchInv, MatchShape, Reviews, Maybe
  <2> QED BY <1>1, <2>1, Steps DEF ListBottles, Go, MatchInv, Once
<1>2. CASE CheckPrefix
  BY <1>2, Steps DEF CheckPrefix, Go, MatchInv, MatchShape, Once
<1>3. CASE CheckRunner
  <2>1. review' \in Reviews /\ review'.rows = review.rows /\ review'.left = review.left
    BY <1>3 DEF CheckRunner, Go, MatchInv, MatchShape, Reviews
  <2> QED BY <1>3, <2>1, Steps DEF CheckRunner, Go, MatchInv, Once
<1>4. CASE ReadPrograms
  <2>1. review' \in Reviews /\ review'.rows = review.rows /\ review'.left = review.left
    BY <1>4 DEF ReadPrograms, Go, MatchInv, MatchShape, Reviews
  <2> QED BY <1>4, <2>1, Steps DEF ReadPrograms, Go, MatchInv, Once
<1>5. CASE Review
  BY <1>5, Steps DEF Review, Go, MatchInv, MatchShape
<1>6. CASE Refuse
  BY <1>6, Steps DEF Refuse, Go, MatchInv, MatchShape
<1> QED BY <1>1, <1>2, <1>3, <1>4, <1>5, <1>6

LEMMA AdmitKeeps == ASSUME MatchInv, Admit PROVE MatchInv'
<1>1. review' = review /\ stage' = "admitted" /\ UNCHANGED world /\ Admissible(review)
  BY DEF Admit, Go
<1>2. Admissible(review)'
  BY <1>1, Zenon
<1> QED BY <1>1, <1>2 DEF MatchInv, MatchShape, Once, ImportsRead, OneProcessPerRow, world

LEMMA TakeUpKeeps == ASSUME MatchInv, NEW action \in {"attach", "arm"}, TakeUp(action) PROVE MatchInv'
<1>1. review' = Fresh(action, review.choice, Assess(review).created) /\ stage' = "idle" /\ UNCHANGED world
  BY DEF TakeUp, Go
<1>2. Assess(review).created \in Maybe(Nat)
  <2>. DEFINE own == {n \in DOMAIN review.rows : review.rows[n].id = review.choice.id}
  <2>1. CASE own = {}
    BY <2>1 DEF Assess, NotSeen, Maybe
  <2>2. CASE own # {}
    <3>1. PICK n : n \in own
      BY <2>2
    <3>2. \A m \in own : m = n
      BY <3>1 DEF MatchInv, Once
    <3>3. Min(own) = n
      BY <3>1, <3>2 DEF Min, MatchInv, MatchShape, Reviews
    <3>4. Assess(review).created = review.rows[n].created
      BY <2>2, <3>3 DEF Assess
    <3>5. review.rows[n] \in Rows
      BY <3>1 DEF MatchInv, MatchShape, Reviews
    <3> QED BY <3>4, <3>5 DEF Rows
  <2> QED BY <2>1, <2>2
<1>3. review' \in Reviews /\ review'.rows = <<>> /\ review'.left = <<>>
  BY <1>1, <1>2 DEF Fresh, Reviews, Maybe, MatchInv, MatchShape
<1> QED BY <1>1, <1>3 DEF MatchInv, MatchShape, Once, ImportsRead, OneProcessPerRow, world

LEMMA EnumerateKeeps == ASSUME MatchInv, Enumerate PROVE MatchInv'
<1>. DEFINE S == {i \in Ids : running[i] # Nothing}
<1>1. PICK ids \in SetToSeqs(S) : Go("look", [review EXCEPT !.left =
         [n \in DOMAIN ids |-> [id |-> ids[n], name |-> running[ids[n]].path]]])
  BY DEF Enumerate
<1>2. PICK N \in Nat : ids \in [1 .. N -> S] /\ \A i, j \in 1 .. N : i # j => ids[i] # ids[j]
  <2>1. IsFiniteSet(S)
    BY MatchAssumption, FS_Subset
  <2>2. Cardinality(S) \in Nat
    BY <2>1, FS_CardinalityType
  <2> QED BY <2>2 DEF SetToSeqs
<1>. DEFINE left == [n \in DOMAIN ids |-> [id |-> ids[n], name |-> running[ids[n]].path]]
<1>3. left \in Seq([id : Ids, name : ImagePaths])
  <2>1. \A n \in 1 .. N : running[ids[n]].path \in ImagePaths /\ ids[n] \in Ids
    BY <1>2 DEF MatchInv, MatchShape, Was
  <2>2. left = [n \in 1 .. N |-> [id |-> ids[n], name |-> running[ids[n]].path]]
    BY <1>2
  <2>3. left \in [1 .. N -> [id : Ids, name : ImagePaths]]
    BY <2>1, <2>2
  <2> QED BY <2>3
<1>4. \A n, m \in DOMAIN left : left[n].id = left[m].id => n = m
  BY <1>2
<1>. HIDE DEF left
<1>5. review' = [review EXCEPT !.left = left] /\ stage' = "look" /\ UNCHANGED world
  BY <1>1 DEF Go, left
<1>6. review' \in Reviews /\ review'.rows = <<>> /\ review'.left = left
  BY <1>3, <1>5 DEF Reviews, MatchInv, MatchShape, Once, Enumerate
<1> QED BY <1>4, <1>5, <1>6 DEF MatchInv, MatchShape, Once, ImportsRead, OneProcessPerRow, world

LEMMA InspectProcessKeeps == ASSUME MatchInv, InspectProcess PROVE MatchInv'
<1>. DEFINE id == Head(review.left).id
<1>1. PICK born, machine, path : review' = [review EXCEPT !.left = Tail(@), !.rows = Append(@, Row(id, born, machine, path))]
                    /\ born \in {Nothing, running[id].created} /\ machine \in {Nothing, running[id].machine}
                    /\ path \in {Nothing, running[id].path}
                    /\ (running[id] = Nothing => born = Nothing /\ machine = Nothing /\ path = Nothing)
                    /\ stage' = "file" /\ UNCHANGED world
  <2>1. PICK failed : LET Answer(field) == IF running[id] = Nothing \/ field \in failed THEN Nothing ELSE running[id][field]
           IN  Go("file", [review EXCEPT !.left = Tail(@),
                  !.rows = Append(@, Row(id, Answer("created"), Answer("machine"), Answer("path")))])
    BY Zenon DEF InspectProcess
  <2>. DEFINE A(field) == IF running[id] = Nothing \/ field \in failed THEN Nothing ELSE running[id][field]
  <2>2. Go("file", [review EXCEPT !.left = Tail(@),
                  !.rows = Append(@, Row(id, A("created"), A("machine"), A("path")))])
    BY <2>1
  <2>3. /\ A("created") \in {Nothing, running[id].created} /\ A("machine") \in {Nothing, running[id].machine}
        /\ A("path") \in {Nothing, running[id].path}
        /\ (running[id] = Nothing => A("created") = Nothing /\ A("machine") = Nothing /\ A("path") = Nothing)
    OBVIOUS
  <2>. HIDE DEF A, id
  <2> QED BY <2>2, <2>3, Zenon DEF Go
<1>. DEFINE row == Row(id, born, machine, path)
<1>2. /\ review.left \in Seq([id : Ids, name : ImagePaths]) /\ review.left # <<>> /\ review.rows \in Seq(Rows)
      /\ stage = "look"
  BY DEF InspectProcess, MatchInv, MatchShape, Reviews
<1>3. /\ id \in Ids /\ id = review.left[1].id /\ 1 \in DOMAIN review.left
      /\ Tail(review.left) \in Seq([id : Ids, name : ImagePaths])
      /\ \A n \in DOMAIN Tail(review.left) : n + 1 \in DOMAIN review.left /\ Tail(review.left)[n] = review.left[n + 1]
                                            /\ n \in Nat \ {0}
  <2>9. PICK T : T = [id : Ids, name : ImagePaths]
    OBVIOUS
  <2>0. review.left \in Seq(T)
    BY <1>2, <2>9
  <2>1. review.left[1] \in T /\ Head(review.left) = review.left[1] /\ 1 \in DOMAIN review.left
        /\ Tail(review.left) \in Seq(T)
    BY <1>2, <2>0
  <2>2. \A n \in DOMAIN Tail(review.left) : n + 1 \in DOMAIN review.left /\ Tail(review.left)[n] = review.left[n + 1]
                                            /\ n \in Nat \ {0}
    BY <1>2
  <2> QED BY <1>2, <2>1, <2>2, <2>9
<1>4. row \in Rows /\ row.id = id /\ row.imports = Nothing
  <2>1. CASE running[id] = Nothing
    BY <1>1, <1>3, <2>1 DEF Rows, Row, Maybe
  <2>2. CASE running[id] # Nothing
    <3>1. running[id] \in Was(id)
      BY <1>3, <2>2 DEF MatchInv, MatchShape
    <3>2. born \in Maybe(Nat) /\ machine \in Maybe({k.machine : k \in Images}) /\ path \in Maybe(ImagePaths)
      BY <1>1, <3>1 DEF Was, Maybe
    <3> QED BY <1>3, <3>2 DEF Rows, Row, Maybe
  <2> QED BY <2>1, <2>2
<1>. HIDE DEF id
<1>5. \E p \in history \cup {[id |-> id, created |-> Nothing, machine |-> Nothing, path |-> Nothing]} :
        \A field \in {"id", "created", "machine", "path"} : row[field] \in {p[field], Nothing}
  <2>1. CASE running[id] = Nothing
    <3>1. row.id = id /\ row.created = Nothing /\ row.machine = Nothing /\ row.path = Nothing
      BY <1>1, <2>1 DEF Row
    <3>. DEFINE nobody == [id |-> id, created |-> Nothing, machine |-> Nothing, path |-> Nothing]
    <3>2. row["id"] \in {nobody["id"], Nothing} /\ row["created"] = Nothing /\ row["machine"] = Nothing /\ row["path"] = Nothing
      BY <3>1
    <3>. HIDE DEF row
    <3>3. \A field \in {"id", "created", "machine", "path"} : row[field] \in {nobody[field], Nothing}
      BY <3>2
    <3> QED BY <3>3
  <2>2. CASE running[id] # Nothing
    <3>1. running[id] \in history /\ running[id].id = id
      BY <1>3, <2>2 DEF MatchInv, MatchShape, Was
    <3>2. \A field \in {"id", "created", "machine", "path"} : row[field] \in {running[id][field], Nothing}
      BY <1>1, <3>1 DEF Row
    <3> QED BY <3>1, <3>2
  <2> QED BY <2>1, <2>2
<1>. HIDE DEF row
<1>6. /\ review'.rows = Append(review.rows, row) /\ review'.left = Tail(review.left)
      /\ review' \in Reviews
  <2>1. Append(review.rows, row) \in Seq(Rows)
    BY <1>2, <1>4
  <2> QED BY <1>1, <1>3, <2>1 DEF row, MatchInv, MatchShape, Reviews
<1>7. /\ \A n \in DOMAIN review'.rows : \/ n \in DOMAIN review.rows /\ review'.rows[n] = review.rows[n]
                                        \/ n = Len(review.rows) + 1 /\ review'.rows[n] = row
      /\ Len(review.rows) + 1 \notin DOMAIN review.rows
      /\ review'.rows # <<>> /\ Last(review'.rows) = row
  <2>9. PICK R : R = Rows
    OBVIOUS
  <2>1. review.rows \in Seq(R) /\ row \in R
    BY <1>2, <1>4, <2>9
  <2>2. PICK rows : rows = review.rows
    OBVIOUS
  <2>3. rows \in Seq(R)
    BY <2>1, <2>2
  <2>4. \A n \in DOMAIN Append(rows, row) : \/ n \in DOMAIN rows /\ Append(rows, row)[n] = rows[n]
                                            \/ n = Len(rows) + 1 /\ Append(rows, row)[n] = row
    BY <2>1, <2>3
  <2>5. Len(rows) + 1 \notin DOMAIN rows
    BY <2>3
  <2>6. Append(rows, row) # <<>> /\ Append(rows, row)[Len(Append(rows, row))] = row
    BY <2>1, <2>3
  <2> QED BY <1>6, <2>2, <2>4, <2>5, <2>6 DEF Last
<1>8. MatchShape'
  BY <1>1, <1>6 DEF MatchInv, MatchShape, world
<1>9. Once'
  <2>1. \A m, n \in DOMAIN review'.rows : review'.rows[m].id = review'.rows[n].id => m = n
    BY <1>3, <1>4, <1>7 DEF MatchInv, Once
  <2>2. \A m, n \in DOMAIN review'.left : review'.left[m].id = review'.left[n].id => m = n
    <3>1. SUFFICES ASSUME NEW m \in DOMAIN Tail(review.left), NEW n \in DOMAIN Tail(review.left),
                          review.left[m + 1].id = review.left[n + 1].id
                   PROVE  m = n
      BY <1>3, <1>6
    <3>2. m + 1 = n + 1
      BY <1>3, <3>1 DEF MatchInv, Once
    <3> QED BY <1>3, <3>1, <3>2
  <2>3. \A m \in DOMAIN review'.rows, n \in DOMAIN review'.left : review'.rows[m].id # review'.left[n].id
    <3>1. SUFFICES ASSUME NEW m \in DOMAIN review'.rows, NEW n \in DOMAIN review'.left
                   PROVE  review'.rows[m].id # review'.left[n].id
      OBVIOUS
    <3>2. n + 1 \in DOMAIN review.left /\ review'.left[n] = review.left[n + 1] /\ n + 1 # 1
      BY <1>3, <1>6
    <3>3. review.left[n + 1].id # review.left[1].id
      BY <1>3, <3>2 DEF MatchInv, Once
    <3> QED BY <1>3, <1>4, <1>7, <3>2, <3>3 DEF MatchInv, Once
  <2> QED BY <1>1, <1>4, <1>7, <2>1, <2>2, <2>3 DEF Once
<1>10. ImportsRead'
  BY <1>4, <1>7 DEF MatchInv, ImportsRead
<1>11. OneProcessPerRow'
  BY <1>1, <1>4, <1>5, <1>7 DEF MatchInv, OneProcessPerRow, world
<1> QED BY <1>1, <1>8, <1>9, <1>10, <1>11 DEF MatchInv

\* A row that is filled in still tells of the same process.
LEMMA Filled ==
  ASSUME MatchInv, stage \in {"file", "imports"}, NEW row \in Rows,
         \A field \in {"id", "created", "machine", "path"} : row[field] = Last(review.rows)[field],
         review' = [review EXCEPT !.rows[Len(review.rows)] = row],
         row.imports # Nothing => row.file = "x64",
         stage' \in {"imports", "look"}, stage' = "imports" => row.imports = Nothing,
         UNCHANGED world
  PROVE  MatchInv'
<1>0. review.rows \in Seq(Rows) /\ review.rows # <<>>
  BY DEF MatchInv, MatchShape, Once, Reviews
<1>1. PICK rows : rows = review.rows
  OBVIOUS
<1>2. PICK R : R = Rows
  OBVIOUS
<1>3. PICK last : last = Len(rows)
  OBVIOUS
<1>4. rows \in Seq(R) /\ rows # <<>> /\ row \in R
  BY <1>0, <1>1, <1>2
<1>5. last \in DOMAIN rows
  BY <1>3, <1>4
<1>6. PICK more : more = [rows EXCEPT ![last] = row]
  OBVIOUS
<1>7. more \in Seq(R) /\ DOMAIN more = DOMAIN rows /\ Len(more) = last /\ more[last] = row /\ more # <<>>
      /\ \A n \in DOMAIN rows \ {last} : more[n] = rows[n]
  BY <1>3, <1>4, <1>5, <1>6
<1>8. review' = [review EXCEPT !.rows = more]
  BY <1>1, <1>3, <1>6
<1>9. review' \in Reviews /\ review'.rows = more /\ review'.left = review.left
  BY <1>2, <1>7, <1>8 DEF MatchInv, MatchShape, Reviews
<1>10. \A field \in {"id", "created", "machine", "path"} : row[field] = rows[last][field]
  BY <1>1, <1>3 DEF Last
<1>11. \A n \in DOMAIN rows : \A field \in {"id", "created", "machine", "path"} : more[n][field] = rows[n][field]
  BY <1>7, <1>10
<1>12. \A n \in DOMAIN rows : more[n].id = rows[n].id
  BY <1>11
<1>13. MatchShape'
  BY <1>9 DEF MatchInv, MatchShape, world
<1>14. Once'
  <2>1. Last(review'.rows) = row
    BY <1>7, <1>9 DEF Last
  <2> QED BY <1>1, <1>7, <1>9, <1>12, <2>1 DEF MatchInv, Once
<1>15. ImportsRead'
  BY <1>1, <1>7, <1>9 DEF MatchInv, ImportsRead
<1>16. OneProcessPerRow'
  <2>1. SUFFICES ASSUME NEW n \in DOMAIN rows
                 PROVE  \E p \in history \cup {[id |-> more[n].id, created |-> Nothing, machine |-> Nothing, path |-> Nothing]} :
                          \A field \in {"id", "created", "machine", "path"} : more[n][field] \in {p[field], Nothing}
    BY <1>7, <1>9 DEF OneProcessPerRow, world
  <2>2. PICK p \in history \cup {[id |-> rows[n].id, created |-> Nothing, machine |-> Nothing, path |-> Nothing]} :
          \A field \in {"id", "created", "machine", "path"} : rows[n][field] \in {p[field], Nothing}
    BY <1>1, <2>1 DEF MatchInv, OneProcessPerRow
  <2>3. p \in history \cup {[id |-> more[n].id, created |-> Nothing, machine |-> Nothing, path |-> Nothing]}
    BY <1>12, <2>2
  <2>4. \A field \in {"id", "created", "machine", "path"} : more[n][field] \in {p[field], Nothing}
    BY <1>11, <2>2
  <2> QED BY <2>3, <2>4
<1> QED BY <1>13, <1>14, <1>15, <1>16 DEF MatchInv

LEMMA DiskRead ==
  ASSUME MatchShape, NEW path
  PROVE  /\ OnDisk(path).machine \in Maybe({f.machine : f \in FileContents})
         /\ OnDisk(path).imports \in Maybe({f.imports : f \in FileContents})
<1>1. CASE path \in DOMAIN PathKey
  <2>1. PathKey[path] \in Keyed
    BY <1>1 DEF Keyed
  <2>2. files[PathKey[path]] \in FileContents
    BY <2>1 DEF MatchShape
  <2> QED BY <1>1, <2>2 DEF OnDisk, Maybe
<1>2. CASE path \notin DOMAIN PathKey
  BY <1>2 DEF OnDisk, Maybe
<1> QED BY <1>1, <1>2

LEMMA InspectFileKeeps == ASSUME MatchInv, InspectFile PROVE MatchInv'
<1>1. PICK f : f = OnDisk(Last(review.rows).path).machine
  OBVIOUS
<1>2. f \in Maybe({g.machine : g \in FileContents})
  BY <1>1, DiskRead DEF MatchInv
<1>3. /\ review' = [review EXCEPT !.rows[Len(review.rows)].file = f]
      /\ stage = "file" /\ stage' = "imports" /\ UNCHANGED world
  BY <1>1 DEF InspectFile, Go
<1>. DEFINE row == [Last(review.rows) EXCEPT !.file = f]
<1>4. Last(review.rows) \in Rows /\ Last(review.rows).imports = Nothing
  <2>1. review.rows \in Seq(Rows) /\ review.rows # <<>> /\ Last(review.rows).imports = Nothing
    BY <1>3 DEF MatchInv, MatchShape, Once, Reviews
  <2> QED BY <2>1 DEF Last
<1>5. row \in Rows /\ row.imports = Nothing
      /\ \A field \in {"id", "created", "machine", "path"} : row[field] = Last(review.rows)[field]
  BY <1>2, <1>4 DEF Rows
<1>6. review' = [review EXCEPT !.rows[Len(review.rows)] = row]
  BY <1>3 DEF Last
<1>. HIDE DEF row
<1> QED BY <1>3, <1>5, <1>6, Filled

LEMMA InspectImportsKeeps == ASSUME MatchInv, InspectImports PROVE MatchInv'
<1>. DEFINE last == Last(review.rows)
            read == IF last.file = "x64" /\ OnDisk(last.path).machine = "x64" THEN OnDisk(last.path).imports ELSE Nothing
<1>1. PICK f : f = read
  OBVIOUS
<1>2. f \in Maybe({g.imports : g \in FileContents}) /\ (f # Nothing => last.file = "x64")
  BY <1>1, DiskRead DEF MatchInv, Maybe
<1>3. /\ review' = [review EXCEPT !.rows[Len(review.rows)].imports = f]
      /\ stage = "imports" /\ stage' = "look" /\ UNCHANGED world
  BY <1>1 DEF InspectImports, Go
<1>. DEFINE row == [last EXCEPT !.imports = f]
<1>4. Last(review.rows) \in Rows
  <2>1. review.rows \in Seq(Rows) /\ review.rows # <<>>
    BY <1>3 DEF MatchInv, MatchShape, Once, Reviews
  <2> QED BY <2>1 DEF Last
<1>5. row \in Rows /\ (row.imports # Nothing => row.file = "x64")
      /\ \A field \in {"id", "created", "machine", "path"} : row[field] = Last(review.rows)[field]
  BY <1>2, <1>4 DEF Rows
<1>6. review' = [review EXCEPT !.rows[Len(review.rows)] = row]
  BY <1>3 DEF Last
<1>. HIDE DEF row
<1> QED BY <1>3, <1>5, <1>6, Filled

\* What others do leaves what was read as it is.
LEMMA OthersKeep ==
  ASSUME MatchInv, UnchangedTool, MatchShape', history \subseteq history'
  PROVE  MatchInv'
<1>1. review' = review /\ stage' = stage
  BY DEF UnchangedTool
<1>2. Admissible(review)' = Admissible(review)
  BY <1>1, Zenon
<1>3. OneProcessPerRow'
  BY <1>1 DEF MatchInv, OneProcessPerRow
<1> QED BY <1>1, <1>2, <1>3 DEF MatchInv, Once, ImportsRead

LEMMA MatchKept == MatchInv /\ [MatchNext]_matchVars => MatchInv'
<1> SUFFICES ASSUME MatchInv, [MatchNext]_matchVars PROVE MatchInv'
  OBVIOUS
<1>1. CASE ListBottles \/ CheckPrefix \/ CheckRunner \/ ReadPrograms \/ Review \/ Refuse
  BY <1>1, Plainly
<1>2. CASE Enumerate
  BY <1>2, EnumerateKeeps
<1>3. CASE InspectProcess
  BY <1>3, InspectProcessKeeps
<1>4. CASE InspectFile
  BY <1>4, InspectFileKeeps
<1>5. CASE InspectImports
  BY <1>5, InspectImportsKeeps
<1>6. ASSUME NEW action \in {"attach", "arm"}, TakeUp(action) PROVE MatchInv'
  BY <1>6, TakeUpKeeps
<1>7. CASE Admit
  BY <1>7, AdmitKeeps
<1>8. ASSUME NEW id \in Ids, End(id) PROVE MatchInv'
  BY <1>8, OthersKeep DEF End, MatchInv, MatchShape, UnchangedTool
<1>9. ASSUME NEW id \in Ids, NEW k \in Images, Start(id, k) PROVE MatchInv'
  <2>0. Cardinality(history) + 1 \in Nat
    BY FS_CardinalityType DEF MatchInv, MatchShape
  <2>5. PICK n \in Nat : n = Cardinality(history) + 1
    BY <2>0
  <2>1. PICK p : p = Process(n, id, k) /\ running' = [running EXCEPT ![id] = p] /\ history' = history \cup {p}
    BY <1>9, <2>5 DEF Start
  <2>4. IsFiniteSet(history')
    BY <2>1, FS_AddElement DEF MatchInv, MatchShape
  <2>2. p \in Was(id)
    BY <2>1 DEF Process, Was, ImagePaths
  <2>3. MatchShape'
    BY <1>9, <2>1, <2>2, <2>4 DEF Start, UnchangedTool, MatchInv, MatchShape
  <2> QED BY <1>9, <2>1, <2>3, OthersKeep DEF Start
<1>10. CASE Edit
  <2>1. MatchShape'
    BY <1>10 DEF Edit, UnchangedTool, MatchInv, MatchShape
  <2> QED BY <1>10, <2>1, OthersKeep DEF Edit
<1>11. CASE UNCHANGED matchVars
  <2>1. MatchShape'
    BY <1>11 DEF matchVars, MatchInv, MatchShape
  <2> QED BY <1>11, <2>1, OthersKeep DEF matchVars, UnchangedTool
<1> QED BY <1>1, <1>2, <1>3, <1>4, <1>5, <1>6, <1>7, <1>8, <1>9, <1>10, <1>11 DEF MatchNext

\* A review names no blocker where the look of an attachment would find none.
LEMMA Agree == ASSUME review \in Reviews PROVE ReviewAgrees
<1>. DEFINE j == [review EXCEPT !.action = "attach", !.expected = Assess(review).created]
<1>1. j.rows = review.rows /\ j.programs = review.programs /\ j.choice = review.choice /\ j.runner = review.runner
      /\ j.action = "attach" /\ j.expected = Assess(review).created
  BY DEF Reviews
<1>2. Assess(j) = Assess(review)
  BY <1>1, Zenon DEF Assess
<1>. DEFINE c == Assess(review)
<1>3. Admissible(j) <=> /\ review.runner = "verified" /\ c.created # Nothing
                        /\ c.registered /\ c.seen /\ c.image /\ c.x64 = "yes" /\ c.status = "candidate"
  <2>. HIDE DEF j
  <2> QED BY <1>1, <1>2, Zenon DEF Admissible
<1>4. /\ review.runner = "verified" <=> "runner" \notin Blockers(review)
      /\ c.created # Nothing <=> "created" \notin Blockers(review)
      /\ c.seen <=> "id" \notin Blockers(review)
      /\ c.seen /\ ~c.image <=> "image" \in Blockers(review)
      /\ (c.registered /\ c.status = "candidate") <=> "registration" \notin Blockers(review)
      /\ c.x64 = "yes" <=> "machine" \notin Blockers(review)
      /\ Blockers(review) \subseteq {"runner", "created", "id", "image", "registration", "machine", "imports"}
  <2>. HIDE DEF c
  <2>1. PICK d : d = c
    OBVIOUS
  <2> QED BY <2>1 DEF Blockers, c
<1>5. Blockers(review) \subseteq {"imports"} <=> Admissible(j)
  <2>. HIDE DEF c, j
  <2> QED BY <1>3, <1>4
<1> QED BY <1>5 DEF ReviewAgrees

LEMMA Admitted == ASSUME MatchInv PROVE AdmitsTheReviewed
<1> SUFFICES ASSUME Admissible(review)
             PROVE  \E p \in history :
                      /\ p.id = review.choice.id /\ p.created = review.expected
                      /\ p.path \in DOMAIN PathKey /\ PathKey[p.path] = PathKey[review.choice.exe]
                      /\ p.machine = "x64"
                      /\ Cardinality(Registered(review.programs, review.choice.exe)) = 1
  BY DEF MatchInv, AdmitsTheReviewed
<1>. DEFINE own == {n \in DOMAIN review.rows : review.rows[n].id = review.choice.id}
            row == review.rows[Min(own)]
            image == row.path \in DOMAIN PathKey /\ PathKey[row.path] = PathKey[review.choice.exe]
            match == Match(row, review.programs)
<1>1. own # {}
  BY DEF Admissible, Assess, NotSeen
<1>2. PICK n \in own : row = review.rows[n]
  <2>1. PICK n : n \in own
    BY <1>1
  <2>2. \A m \in own : m = n
    BY <2>1 DEF MatchInv, Once
  <2>3. Min(own) = n
    BY <2>1, <2>2 DEF Min, MatchInv, MatchShape, Reviews
  <2> QED BY <2>1, <2>3
<1>3. /\ row.created # Nothing /\ row.created = review.expected
      /\ image /\ match = "exact" /\ X64(row) = "yes"
  BY <1>1 DEF Admissible, Assess
<1>. HIDE DEF row, own
<1>4. /\ row.path # Nothing /\ row.machine # Nothing /\ row.machine = "x64"
  BY <1>3, MatchAssumption DEF X64
<1>5. Cardinality(Registered(review.programs, row.path)) = 1
  BY <1>3, <1>4 DEF Match
<1>6. Registered(review.programs, row.path) = Registered(review.programs, review.choice.exe)
  BY <1>3 DEF Registered
<1>7. PICK p \in history \cup {[id |-> row.id, created |-> Nothing, machine |-> Nothing, path |-> Nothing]} :
        \A field \in {"id", "created", "machine", "path"} : row[field] \in {p[field], Nothing}
  BY <1>2 DEF MatchInv, OneProcessPerRow, own
<1>8. /\ row.id \in {p.id, Nothing} /\ row.created \in {p.created, Nothing}
      /\ row.machine \in {p.machine, Nothing} /\ row.path \in {p.path, Nothing}
  BY <1>7
<1>9. p.created = row.created /\ p.machine = row.machine /\ p.path = row.path /\ p \in history
  BY <1>3, <1>4, <1>7, <1>8
<1>10. p.id = review.choice.id
  <2>1. row.id \in Ids /\ row.id = review.choice.id
    <3>1. n \in DOMAIN review.rows /\ review.rows[n].id = review.choice.id /\ review.rows \in Seq(Rows)
      BY <1>2 DEF own, MatchInv, MatchShape, Reviews
    <3>2. review.rows[n] \in Rows
      BY <3>1
    <3>3. review.rows[n].id \in Ids
      BY <3>2 DEF Rows
    <3> QED BY <1>2, <3>1, <3>3
  <2> QED BY <1>8, <1>9, <2>1, MatchAssumption
<1> QED BY <1>3, <1>4, <1>5, <1>6, <1>9, <1>10

\* The process that is admitted is the one the user reviewed.
THEOREM SelectionIsTrue == MatchSpec => []SelectionTrue
<1>1. MatchInv => SelectionTrue
  <2> SUFFICES ASSUME MatchInv PROVE SelectionTrue
    OBVIOUS
  <2>1. review \in Reviews
    BY DEF MatchInv, MatchShape
  <2>2. SnapshotsAccepted
    BY DEF MatchInv, Once, ImportsRead, SnapshotsAccepted, WellFormed
  <2> QED BY <2>1, <2>2, Agree, Admitted DEF SelectionTrue, MatchInv
<1> QED BY MatchStarts, MatchKept, <1>1, PTL DEF MatchSpec

(***************************************************************************)
(* The filters of plan.  The table that matches a pattern is a function of *)
(* how far it is built: Counting and Recursion say that there is one.      *)
(***************************************************************************)

LEMMA Counting ==
  ASSUME NEW S, 0 \in S, \A n \in Nat : n \in S => n + 1 \in S
  PROVE  Nat \subseteq S
<1>1. SUFFICES ASSUME Nat \ S # {} PROVE FALSE
  OBVIOUS
<1>2. PICK m \in Nat \ S : \A n \in Nat \ S : <<n, m>> \notin OpToRel(<, Nat)
  BY <1>1, WFMin, NatLessThanWellFounded, Zenon
<1>3. m \in Nat \ S /\ \A n \in Nat \ S : ~(n < m)
  <2>1. ASSUME NEW n \in Nat \ S, n < m PROVE FALSE
    BY <1>2, <2>1, Zenon DEF OpToRel
  <2>. QED
    BY <1>2, <2>1
<1>4. m # 0 /\ m \in Nat
  BY <1>3
<1>5. m - 1 \in Nat /\ m - 1 < m /\ (m - 1) + 1 = m
  BY <1>4
<1>6. m - 1 \in S
  BY <1>3, <1>5
<1>. QED
  BY <1>3, <1>5, <1>6

\* One step after the other is a function of how many there were.
Iterates(f, a, stride, n) == f = [i \in 0 .. n |-> IF i = 0 THEN a ELSE stride[i][f[i - 1]]]

LEMMA Recursion ==
  ASSUME NEW n \in Nat, NEW S, NEW a \in S, NEW stride \in [1 .. n -> [S -> S]]
  PROVE  \E f \in [0 .. n -> S] : Iterates(f, a, stride, n)
<1>. DEFINE Known == {m \in Nat : m <= n => \E f \in [0 .. m -> S] : Iterates(f, a, stride, m)}
<1>1. 0 \in Known
  <2>1. [i \in 0 .. 0 |-> a] \in [0 .. 0 -> S]
    OBVIOUS
  <2>2. Iterates([i \in 0 .. 0 |-> a], a, stride, 0)
    BY DEF Iterates
  <2> QED BY <2>1, <2>2
<1>2. ASSUME NEW m \in Nat, m \in Known PROVE m + 1 \in Known
  <2> SUFFICES ASSUME m + 1 <= n PROVE \E f \in [0 .. m + 1 -> S] : Iterates(f, a, stride, m + 1)
    OBVIOUS
  <2>1. PICK g \in [0 .. m -> S] : Iterates(g, a, stride, m)
    BY <1>2
  <2>2. stride[m + 1] \in [S -> S] /\ g[m] \in S
    OBVIOUS
  <2>. DEFINE f == [i \in 0 .. m + 1 |-> IF i = m + 1 THEN stride[m + 1][g[m]] ELSE g[i]]
  <2>3. f \in [0 .. m + 1 -> S]
    BY <2>2
  <2>4. \A i \in 0 .. m + 1 : f[i] = IF i = 0 THEN a ELSE stride[i][f[i - 1]]
    <3>1. \A i \in 0 .. m : g[i] = IF i = 0 THEN a ELSE stride[i][g[i - 1]]
      BY <2>1 DEF Iterates
    <3>2. \A i \in 0 .. m : f[i] = g[i]
      OBVIOUS
    <3>3. \A i \in 1 .. m + 1 : i - 1 \in 0 .. m
      OBVIOUS
    <3>4. f[m + 1] = stride[m + 1][g[m]]
      OBVIOUS
    <3>. HIDE DEF f
    <3> QED BY <3>1, <3>2, <3>3, <3>4
  <2>5. Iterates(f, a, stride, m + 1)
    <3>1. f = [i \in 0 .. m + 1 |-> f[i]]
      OBVIOUS
    <3>. HIDE DEF f
    <3> QED BY <2>4, <3>1 DEF Iterates
  <2> QED BY <2>3, <2>5
<1>. HIDE DEF Known
<1>3. n \in Known
  BY <1>1, <1>2, Counting
<1> QED BY <1>3 DEF Known

\* One line of the table.
LEMMA OneLine ==
  ASSUME NEW L \in Nat, NEW prior \in [0 .. L -> BOOLEAN], NEW token, NEW value
  PROVE  /\ NextPrior(prior, token, value) \in [0 .. L -> BOOLEAN]
         /\ \A j \in 0 .. L : NextPrior(prior, token, value)[j] =
              IF j = 0 THEN token = "*" /\ prior[0]
              ELSE IF token = "*" THEN prior[j] \/ NextPrior(prior, token, value)[j - 1]
              ELSE prior[j - 1] /\ (token = "?" \/ SameLetter(token, value[j]))
<1>. DEFINE first == token = "*" /\ prior[0]
            stride == [j \in 1 .. L |-> [b \in BOOLEAN |->
                      IF token = "*" THEN prior[j] \/ b
                      ELSE prior[j - 1] /\ (token = "?" \/ SameLetter(token, value[j]))]]
            Line(f) == [j \in DOMAIN prior |->
                         IF j = 0 THEN token = "*" /\ prior[0]
                         ELSE IF token = "*" THEN prior[j] \/ f[j - 1]
                         ELSE prior[j - 1] /\ (token = "?" \/ SameLetter(token, value[j]))]
<1>1. first \in BOOLEAN /\ stride \in [1 .. L -> [BOOLEAN -> BOOLEAN]]
  <2>1. \A j \in 1 .. L : prior[j] \in BOOLEAN /\ prior[j - 1] \in BOOLEAN
    OBVIOUS
  <2>2. \A j \in 1 .. L : stride[j] \in [BOOLEAN -> BOOLEAN]
    BY <2>1, Zenon
  <2>3. stride = [j \in 1 .. L |-> stride[j]]
    BY Zenon
  <2>4. stride \in [1 .. L -> [BOOLEAN -> BOOLEAN]]
    <3>. HIDE DEF stride
    <3> QED BY <2>2, <2>3, Zenon
  <2> QED BY <2>4, Zenon
<1>2. PICK f \in [0 .. L -> BOOLEAN] : Iterates(f, first, stride, L)
  <2>. HIDE DEF first, stride
  <2> QED BY <1>1, Recursion, Zenon
<1>3. f = Line(f)
  <2>1. \A j \in 0 .. L : f[j] = IF j = 0 THEN first ELSE stride[j][f[j - 1]]
    BY <1>2, Zenon DEF Iterates
  <2>2. \A j \in 1 .. L : j - 1 \in 0 .. L /\ f[j - 1] \in BOOLEAN /\ j # 0
    <3>. HIDE DEF first, stride
    <3> QED OBVIOUS
  <2>3. \A j \in 1 .. L : stride[j][f[j - 1]] = IF token = "*" THEN prior[j] \/ f[j - 1]
                         ELSE prior[j - 1] /\ (token = "?" \/ SameLetter(token, value[j]))
    BY <2>2, Zenon
  <2>4. \A j \in 0 .. L : j = 0 \/ j \in 1 .. L
    OBVIOUS
  <2>5. \A j \in 0 .. L : f[j] = Line(f)[j]
    <3>1. DOMAIN prior = 0 .. L
      OBVIOUS
    <3>. HIDE DEF stride
    <3> QED BY <2>1, <2>2, <2>3, <2>4, <3>1, Zenon
  <2>6. DOMAIN Line(f) = 0 .. L /\ DOMAIN f = 0 .. L /\ f = [j \in 0 .. L |-> f[j]] /\ Line(f) = [j \in 0 .. L |-> Line(f)[j]]
    BY Zenon
  <2>. HIDE DEF Line
  <2> QED BY <2>5, <2>6, Zenon
<1>. DEFINE next == CHOOSE g : g = Line(g)
<1>4. next = Line(next)
  BY <1>3, Zenon
<1>5. NextPrior(prior, token, value) = next
  BY Zenon DEF NextPrior
<1>. HIDE DEF next
<1>6. \A j \in 0 .. L : next[j] =
              IF j = 0 THEN token = "*" /\ prior[0]
              ELSE IF token = "*" THEN prior[j] \/ next[j - 1]
              ELSE prior[j - 1] /\ (token = "?" \/ SameLetter(token, value[j]))
  BY <1>4, Zenon
<1>7. next \in [0 .. L -> BOOLEAN]
  <2>1. \A j \in 0 .. L : next[j] \in BOOLEAN
    BY <1>6, Zenon DEF SameLetter
  <2>2. DOMAIN next = 0 .. L /\ next = [j \in 0 .. L |-> next[j]]
    BY <1>4, Zenon
  <2> QED BY <2>1, <2>2, Zenon
<1> QED BY <1>5, <1>6, <1>7, Zenon

Table(line, pattern, value, L) ==
  /\ line \in [0 .. Len(pattern) -> [0 .. L -> BOOLEAN]]
  /\ line[0] = [j \in 0 .. L |-> j = 0]
  /\ \A n \in 1 .. Len(pattern) : line[n] = NextPrior(line[n - 1], Slashed(pattern)[n], value)

LEMMA TheTable ==
  ASSUME NEW pattern \in Seq(Characters), NEW text \in Seq(Characters)
  PROVE  \E line : /\ Table(line, pattern, Slashed(text), Len(text))
                   /\ WildcardMatch(pattern, text) = line[Len(pattern)][Len(text)]
<1>1. PICK L \in Nat : L = Len(text)
  OBVIOUS
<1>2. PICK N \in Nat : N = Len(pattern)
  OBVIOUS
<1>3. PICK value : value = Slashed(text)
  OBVIOUS
<1>4. PICK tokens : tokens = Slashed(pattern)
  OBVIOUS
<1>. DEFINE S == [0 .. L -> BOOLEAN]
            first == [j \in 0 .. L |-> j = 0]
            stride == [n \in 1 .. N |-> [prior \in S |-> NextPrior(prior, tokens[n], value)]]
            Lines(f) == [n \in 0 .. N |-> IF n = 0 THEN first ELSE NextPrior(f[n - 1], tokens[n], value)]
<1>5. first \in S
  BY Zenon
<1>6. stride \in [1 .. N -> [S -> S]]
  <2>1. \A n \in 1 .. N : \A prior \in S : NextPrior(prior, tokens[n], value) \in S
    BY OneLine, Zenon
  <2> QED BY <2>1, Zenon
<1>7. PICK f \in [0 .. N -> S] : Iterates(f, first, stride, N)
  <2>. HIDE DEF first, stride, S
  <2> QED BY <1>5, <1>6, Recursion, Zenon
<1>8. f = Lines(f)
  <2>1. \A n \in 0 .. N : f[n] = IF n = 0 THEN first ELSE stride[n][f[n - 1]]
    BY <1>7, Zenon DEF Iterates
  <2>2. \A n \in 1 .. N : n - 1 \in 0 .. N /\ f[n - 1] \in S
    <3>. HIDE DEF S, first, stride
    <3> QED OBVIOUS
  <2>3. \A n \in 1 .. N : stride[n][f[n - 1]] = NextPrior(f[n - 1], tokens[n], value)
    <3>. HIDE DEF S
    <3> QED BY <2>2, Zenon
  <2>4. \A n \in 0 .. N : n = 0 \/ n \in 1 .. N
    OBVIOUS
  <2>. HIDE DEF S, first, stride
  <2>5. \A n \in 0 .. N : f[n] = Lines(f)[n]
    BY <2>1, <2>3, <2>4, Zenon
  <2>6. f = [n \in 0 .. N |-> f[n]] /\ Lines(f) = [n \in 0 .. N |-> Lines(f)[n]]
    BY Zenon
  <2>. HIDE DEF Lines
  <2> QED BY <2>5, <2>6, Zenon
<1>. DEFINE line == CHOOSE g : g = Lines(g)
<1>9. line = Lines(line)
  BY <1>8, Zenon
<1>10. Len(value) = L
  BY <1>1, <1>3 DEF Slashed
<1>11. WildcardMatch(pattern, text) = line[N][L]
  BY <1>1, <1>2, <1>3, <1>4, <1>10, Zenon DEF WildcardMatch
<1>. HIDE DEF line, S, first
<1>12. \A n \in 0 .. N : line[n] = IF n = 0 THEN first ELSE NextPrior(line[n - 1], tokens[n], value)
  BY <1>9, Zenon
<1>. DEFINE Good == {m \in Nat : m <= N => line[m] \in S}
<1>13. 0 \in Good
  BY <1>5, <1>12
<1>14. ASSUME NEW m \in Nat, m \in Good PROVE m + 1 \in Good
  <2> SUFFICES ASSUME m + 1 <= N PROVE line[m + 1] \in S
    OBVIOUS
  <2>1. line[m] \in S /\ m + 1 \in 0 .. N /\ m + 1 # 0 /\ (m + 1) - 1 = m
    BY <1>14
  <2>2. line[m + 1] = NextPrior(line[m], tokens[m + 1], value)
    BY <1>12, <2>1
  <2>3. \A prior \in S : NextPrior(prior, tokens[m + 1], value) \in S
    BY OneLine, Zenon DEF S
  <2> QED BY <2>1, <2>2, <2>3, Zenon
<1>15. \A n \in 0 .. N : line[n] \in S
  <2>. HIDE DEF Good
  <2>1. Nat \subseteq Good
    BY <1>13, <1>14, Counting
  <2> QED BY <2>1 DEF Good
<1>16. line \in [0 .. N -> S]
  <2>1. line = [n \in 0 .. N |-> line[n]]
    BY <1>9, Zenon
  <2> QED BY <1>15, <2>1, Zenon
<1>17. Table(line, pattern, value, L)
  <2>1. \A n \in 1 .. N : n \in 0 .. N /\ n # 0
    OBVIOUS
  <2>2. 0 \in 0 .. N
    OBVIOUS
  <2>3. /\ line[0] = first
        /\ \A n \in 1 .. N : line[n] = NextPrior(line[n - 1], tokens[n], value)
    BY <1>12, <2>1, <2>2, Zenon
  <2> QED BY <1>2, <1>4, <1>16, <2>3, Zenon DEF Table, S, first
<1> QED BY <1>1, <1>2, <1>3, <1>11, <1>17

(***************************************************************************)
(* What the table says is what a pattern means.                            *)
(***************************************************************************)

\* The piece of the text that one character of the pattern may stand for.
Piece(token, value, from, to) ==
  IF token = "*" THEN from <= to
  ELSE to = from + 1 /\ (token = "?" \/ Lower[token] = Lower[value[to]])

\* The first n characters of the pattern can stand for the first j of the text.
Stands(tokens, value, L, n, j) ==
  \E cut \in [0 .. n -> 0 .. L] :
    /\ cut[0] = 0 /\ cut[n] = j
    /\ \A i \in 1 .. n : Piece(tokens[i], value, cut[i - 1], cut[i])

LEMMA StandsFirst ==
  ASSUME NEW tokens, NEW value, NEW L \in Nat, NEW j \in 0 .. L
  PROVE  Stands(tokens, value, L, 0, j) <=> j = 0
<1>1. ASSUME j = 0 PROVE Stands(tokens, value, L, 0, j)
  <2>1. PICK cut : cut = [i \in 0 .. 0 |-> 0]
    OBVIOUS
  <2>2. cut \in [0 .. 0 -> 0 .. L] /\ cut[0] = 0 /\ \A i \in 1 .. 0 : FALSE
    BY <2>1
  <2> QED BY <1>1, <2>2, Zenon DEF Stands
<1>2. ASSUME Stands(tokens, value, L, 0, j) PROVE j = 0
  BY <1>2 DEF Stands
<1> QED BY <1>1, <1>2

LEMMA StandsNext ==
  ASSUME NEW tokens, NEW value, NEW L \in Nat, NEW n \in Nat, NEW j \in 0 .. L
  PROVE  Stands(tokens, value, L, n + 1, j) <=>
           \E k \in 0 .. L : Stands(tokens, value, L, n, k) /\ Piece(tokens[n + 1], value, k, j)
<1>1. ASSUME NEW k \in 0 .. L, Stands(tokens, value, L, n, k), Piece(tokens[n + 1], value, k, j)
      PROVE  Stands(tokens, value, L, n + 1, j)
  <2>1. PICK cut \in [0 .. n -> 0 .. L] :
          /\ cut[0] = 0 /\ cut[n] = k
          /\ \A i \in 1 .. n : Piece(tokens[i], value, cut[i - 1], cut[i])
    BY <1>1 DEF Stands
  <2>. DEFINE more == [i \in 0 .. n + 1 |-> IF i = n + 1 THEN j ELSE cut[i]]
  <2>2. more \in [0 .. n + 1 -> 0 .. L] /\ more[0] = 0 /\ more[n + 1] = j /\ more[n] = k
        /\ \A i \in 1 .. n : more[i] = cut[i] /\ more[i - 1] = cut[i - 1]
    BY <2>1
  <2>. HIDE DEF more
  <2>3. ASSUME NEW i \in 1 .. n + 1 PROVE Piece(tokens[i], value, more[i - 1], more[i])
    <3>1. CASE i = n + 1
      <4>1. i - 1 = n
        BY <3>1
      <4> QED BY <1>1, <2>2, <3>1, <4>1, Zenon
    <3>2. CASE i # n + 1
      <4>1. i \in 1 .. n
        BY <3>2
      <4> QED BY <2>1, <2>2, <4>1, Zenon
    <3> QED BY <3>1, <3>2
  <2> QED BY <2>2, <2>3, Zenon DEF Stands
<1>2. ASSUME Stands(tokens, value, L, n + 1, j)
      PROVE  \E k \in 0 .. L : Stands(tokens, value, L, n, k) /\ Piece(tokens[n + 1], value, k, j)
  <2>1. PICK cut \in [0 .. n + 1 -> 0 .. L] :
          /\ cut[0] = 0 /\ cut[n + 1] = j
          /\ \A i \in 1 .. n + 1 : Piece(tokens[i], value, cut[i - 1], cut[i])
    BY <1>2 DEF Stands
  <2>. DEFINE less == [i \in 0 .. n |-> cut[i]]
  <2>2. less \in [0 .. n -> 0 .. L] /\ less[0] = 0 /\ less[n] = cut[n] /\ cut[n] \in 0 .. L
        /\ \A i \in 1 .. n : less[i] = cut[i] /\ less[i - 1] = cut[i - 1] /\ i \in 1 .. n + 1
    BY <2>1
  <2>. HIDE DEF less
  <2>3. Stands(tokens, value, L, n, cut[n])
    <3>1. \A i \in 1 .. n : Piece(tokens[i], value, less[i - 1], less[i])
      BY <2>1, <2>2, Zenon
    <3> QED BY <2>2, <3>1, Zenon DEF Stands
  <2>4. Piece(tokens[n + 1], value, cut[n], j)
    <3>1. n + 1 \in 1 .. n + 1 /\ (n + 1) - 1 = n
      OBVIOUS
    <3> QED BY <2>1, <3>1, Zenon
  <2> QED BY <2>2, <2>3, <2>4, Zenon
<1> QED BY <1>1, <1>2, Zenon

\* A line of the table follows from the one before it as what it means does.
LEMMA LineStands ==
  ASSUME NEW tokens, NEW value, NEW L \in Nat, NEW n \in Nat, NEW prior \in [0 .. L -> BOOLEAN],
         \A j \in 0 .. L : prior[j] <=> Stands(tokens, value, L, n, j)
  PROVE  \A j \in 0 .. L : NextPrior(prior, tokens[n + 1], value)[j] <=> Stands(tokens, value, L, n + 1, j)
<1>2. PICK token : token = tokens[n + 1]
  OBVIOUS
<1>1. PICK next \in [0 .. L -> BOOLEAN] : next = NextPrior(prior, token, value)
  BY OneLine, Zenon
<1>3. \A j \in 0 .. L : next[j] =
              IF j = 0 THEN token = "*" /\ prior[0]
              ELSE IF token = "*" THEN prior[j] \/ next[j - 1]
              ELSE prior[j - 1] /\ (token = "?" \/ SameLetter(token, value[j]))
  BY <1>1, OneLine, ZenonT(60)
<1>4. \A j \in 0 .. L : Stands(tokens, value, L, n + 1, j) <=> \E k \in 0 .. L : prior[k] /\ Piece(token, value, k, j)
  BY <1>2, StandsNext, Zenon
<1>5. CASE token = "*"
  <2>. DEFINE Good == {j \in Nat : j <= L => (next[j] <=> \E k \in 0 .. L : prior[k] /\ k <= j)}
  <2>1. 0 \in Good
    <3>1. next[0] <=> prior[0]
      BY <1>3, <1>5
    <3>2. \A k \in 0 .. L : k <= 0 <=> k = 0
      OBVIOUS
    <3>3. 0 \in 0 .. L
      OBVIOUS
    <3>4. next[0] <=> \E k \in 0 .. L : prior[k] /\ k <= 0
      BY <3>1, <3>2, <3>3, Zenon
    <3> QED BY <3>4
  <2>2. ASSUME NEW j \in Nat, j \in Good PROVE j + 1 \in Good
    <3> SUFFICES ASSUME j + 1 <= L PROVE next[j + 1] <=> \E k \in 0 .. L : prior[k] /\ k <= j + 1
      OBVIOUS
    <3>1. j \in 0 .. L /\ j + 1 \in 0 .. L /\ j + 1 # 0 /\ (j + 1) - 1 = j
      OBVIOUS
    <3>2. next[j + 1] <=> (prior[j + 1] \/ next[j])
      BY <1>3, <1>5, <3>1, Zenon
    <3>3. next[j] <=> \E k \in 0 .. L : prior[k] /\ k <= j
      BY <2>2, <3>1
    <3>4. \A k \in 0 .. L : k <= j + 1 <=> (k <= j \/ k = j + 1)
      OBVIOUS
    <3> QED BY <3>1, <3>2, <3>3, <3>4, Zenon
  <2>3. \A j \in 0 .. L : next[j] <=> \E k \in 0 .. L : prior[k] /\ k <= j
    <3>. HIDE DEF Good
    <3>1. Nat \subseteq Good
      BY <2>1, <2>2, Counting
    <3> QED BY <3>1 DEF Good
  <2> QED BY <1>1, <1>2, <1>4, <1>5, <2>3, Zenon DEF Piece
<1>6. CASE token # "*"
  <2> SUFFICES ASSUME NEW j \in 0 .. L PROVE next[j] <=> \E k \in 0 .. L : prior[k] /\ Piece(token, value, k, j)
    BY <1>1, <1>2, <1>4, Zenon
  <2>1. CASE j = 0
    <3>1. ~next[j]
      BY <1>3, <1>6, <2>1, Zenon
    <3>2. \A k \in 0 .. L : j # k + 1
      BY <2>1
    <3> QED BY <1>6, <3>1, <3>2, Zenon DEF Piece
  <2>2. CASE j # 0
    <3>1. next[j] <=> (prior[j - 1] /\ (token = "?" \/ SameLetter(token, value[j])))
      BY <1>3, <1>6, <2>2, Zenon
    <3>2. j - 1 \in 0 .. L /\ \A k \in 0 .. L : j = k + 1 <=> k = j - 1
      BY <2>2
    <3> QED BY <1>6, <3>1, <3>2, Zenon DEF Piece, SameLetter
  <2> QED BY <2>1, <2>2
<1> QED BY <1>5, <1>6

\* A pattern matches a text exactly if the text falls into the pieces that it stands for.
LEMMA MatchesMeaning ==
  ASSUME NEW pattern \in Seq(Characters), NEW text \in Seq(Characters)
  PROVE  WildcardMatch(pattern, text) <=> Means(pattern, text)
<1>1. PICK L \in Nat : L = Len(text)
  OBVIOUS
<1>2. PICK N \in Nat : N = Len(pattern) /\ DOMAIN pattern = 1 .. N
  OBVIOUS
<1>3. PICK value : value = Slashed(text)
  OBVIOUS
<1>4. PICK tokens : tokens = Slashed(pattern)
  OBVIOUS
<1>5. PICK line : Table(line, pattern, value, L) /\ WildcardMatch(pattern, text) = line[N][L]
  BY <1>1, <1>2, <1>3, TheTable
<1>6. /\ line \in [0 .. N -> [0 .. L -> BOOLEAN]]
      /\ line[0] = [j \in 0 .. L |-> j = 0]
      /\ \A n \in 1 .. N : line[n] = NextPrior(line[n - 1], tokens[n], value)
  BY <1>2, <1>4, <1>5, Zenon DEF Table
<1>. DEFINE Good == {n \in Nat : n <= N => \A j \in 0 .. L : line[n][j] <=> Stands(tokens, value, L, n, j)}
<1>7. 0 \in Good
  <2>1. \A j \in 0 .. L : line[0][j] <=> j = 0
    BY <1>6
  <2> QED BY <2>1, StandsFirst
<1>8. ASSUME NEW n \in Nat, n \in Good PROVE n + 1 \in Good
  <2> SUFFICES ASSUME n + 1 <= N
               PROVE  \A j \in 0 .. L : line[n + 1][j] <=> Stands(tokens, value, L, n + 1, j)
    OBVIOUS
  <2>1. n + 1 \in 1 .. N /\ (n + 1) - 1 = n /\ n \in 0 .. N
    OBVIOUS
  <2>2. line[n + 1] = NextPrior(line[n], tokens[n + 1], value) /\ line[n] \in [0 .. L -> BOOLEAN]
    BY <1>6, <2>1, Zenon
  <2>3. \A j \in 0 .. L : line[n][j] <=> Stands(tokens, value, L, n, j)
    BY <1>8, <2>1
  <2>4. PICK prior : prior = line[n]
    OBVIOUS
  <2>5. \A j \in 0 .. L : NextPrior(prior, tokens[n + 1], value)[j] <=> Stands(tokens, value, L, n + 1, j)
    BY <2>2, <2>3, <2>4, LineStands
  <2> QED BY <2>2, <2>4, <2>5
<1>9. line[N][L] <=> Stands(tokens, value, L, N, L)
  <2>. HIDE DEF Good
  <2>1. Nat \subseteq Good
    BY <1>7, <1>8, Counting
  <2> QED BY <2>1 DEF Good
<1>10. Stands(tokens, value, L, N, L) <=> Means(pattern, text)
  <2>1. Means(pattern, text) <=>
          \E cut \in [0 .. Len(pattern) -> 0 .. Len(text)] :
            /\ cut[0] = 0 /\ cut[Len(pattern)] = Len(text)
            /\ \A n \in DOMAIN pattern : Piece(Slashed(pattern)[n], Slashed(text), cut[n - 1], cut[n])
    BY Zenon DEF Means, Piece
  <2>2. DOMAIN pattern = 1 .. Len(pattern)
    OBVIOUS
  <2>3. Means(pattern, text) <=> Stands(Slashed(pattern), Slashed(text), Len(text), Len(pattern), Len(text))
    BY <2>1, <2>2, Zenon DEF Stands
  <2> QED BY <1>1, <1>2, <1>3, <1>4, <2>3
<1> QED BY <1>5, <1>9, <1>10

LEMMA AnyNamed ==
  ASSUME NEW patterns \in Seq(Seq(Characters)), NEW texts, texts \subseteq Seq(Characters)
  PROVE  (\E text \in texts : AnyMatch(patterns, text)) <=> Named(patterns, texts)
<1>1. \A n \in DOMAIN patterns : patterns[n] \in Seq(Characters)
  OBVIOUS
<1>2. \A n \in DOMAIN patterns, text \in texts : WildcardMatch(patterns[n], text) <=> Means(patterns[n], text)
  BY <1>1, MatchesMeaning, Zenon
<1> QED BY <1>2, Zenon DEF AnyMatch, Named

PlanInv ==
  /\ filters \in Filters /\ inventory \in Inventories
  /\ plan # Unplanned =>
       /\ ValidFilters(filters)
       /\ plan = [n \in DOMAIN inventory.programs |->
                    Decision(filters, inventory.bottle, inventory.programs[n])]

LEMMA Planned == ASSUME PlanInv PROVE PlanExact
<1> SUFFICES ASSUME plan # Unplanned, NEW n \in DOMAIN inventory.programs
             PROVE  LET p     == inventory.programs[n]
                        own   == {p.name, p.executable, p.path}
                        home  == {inventory.bottle}
                    IN  plan[n] = "selected" <=>
                          /\ ~Named(filters.notBottles, home) /\ ~Named(filters.notPrograms, own)
                          /\ filters.bottles # <<>> => Named(filters.bottles, home)
                          /\ filters.programs # <<>> => Named(filters.programs, own)
                          /\ filters.all \/ filters.bottles # <<>> \/ filters.programs # <<>>
  BY DEF PlanExact
<1>1. PICK p : p = inventory.programs[n]
  OBVIOUS
<1>2. PICK f : f = filters
  OBVIOUS
<1>3. /\ f.bottles \in Seq(Seq(Characters)) /\ f.programs \in Seq(Seq(Characters))
      /\ f.notBottles \in Seq(Seq(Characters)) /\ f.notPrograms \in Seq(Seq(Characters))
  BY <1>2, SelectionAssumption DEF PlanInv
<1>4. p \in Programs /\ inventory.bottle \in Seq(Characters)
  BY <1>1, SelectionAssumption DEF PlanInv
<1>. DEFINE own == {p.name, p.executable, p.path}
            home == {inventory.bottle}
<1>5. own \subseteq Seq(Characters) /\ home \subseteq Seq(Characters)
  BY <1>4 DEF Programs
<1>6. \A patterns \in Seq(Seq(Characters)) :
        /\ AnyMatch(patterns, inventory.bottle) <=> Named(patterns, home)
        /\ MatchesProgram(patterns, p) <=> Named(patterns, own)
  <2> SUFFICES ASSUME NEW patterns \in Seq(Seq(Characters))
               PROVE  /\ AnyMatch(patterns, inventory.bottle) <=> Named(patterns, home)
                      /\ MatchesProgram(patterns, p) <=> Named(patterns, own)
    OBVIOUS
  <2>1. Named(patterns, home) <=> \E text \in home : AnyMatch(patterns, text)
    BY <1>5, AnyNamed
  <2>2. Named(patterns, own) <=> \E text \in own : AnyMatch(patterns, text)
    <3>. HIDE DEF own
    <3> QED BY <1>5, AnyNamed
  <2>3. MatchesProgram(patterns, p) <=> \E text \in own : AnyMatch(patterns, text)
    BY Zenon DEF MatchesProgram
  <2>4. AnyMatch(patterns, inventory.bottle) <=> \E text \in home : AnyMatch(patterns, text)
    BY Zenon
  <2> QED BY <2>1, <2>2, <2>3, <2>4
<1>7. f.all <=> (f.bottles = <<>> /\ f.programs = <<>>)
  <2>1. f.all <=> f.bottles \o f.programs = <<>>
    BY <1>2, Zenon DEF PlanInv, ValidFilters
  <2>2. f.bottles \o f.programs = <<>> <=> (f.bottles = <<>> /\ f.programs = <<>>)
    BY <1>3
  <2> QED BY <2>1, <2>2
<1>8. plan[n] = Decision(f, inventory.bottle, p)
  BY <1>1, <1>2 DEF PlanInv
<1>. HIDE DEF own, home
<1>9. plan[n] = "selected" <=>
        /\ ~Named(f.notBottles, home) /\ ~Named(f.notPrograms, own)
        /\ \/ f.all
           \/ /\ f.bottles = <<>> \/ Named(f.bottles, home)
              /\ f.programs = <<>> \/ Named(f.programs, own)
  BY <1>3, <1>6, <1>8 DEF Decision
<1>10. plan[n] = "selected" <=>
          /\ ~Named(f.notBottles, home) /\ ~Named(f.notPrograms, own)
          /\ f.bottles # <<>> => Named(f.bottles, home)
          /\ f.programs # <<>> => Named(f.programs, own)
          /\ f.all \/ f.bottles # <<>> \/ f.programs # <<>>
  BY <1>7, <1>9
<1> QED BY <1>1, <1>2, <1>10 DEF own, home

\* A program is planned for if, and only if, the filters name it and exclude it not.
THEOREM PlansAreExact == SelectionSpec => []PlanExact
<1>1. SelectionInit => PlanInv
  BY DEF SelectionInit, PlanInv
<1>2. PlanInv /\ [Plan]_svars => PlanInv'
  <2> SUFFICES ASSUME PlanInv, [Plan]_svars PROVE PlanInv'
    OBVIOUS
  <2>1. CASE Plan
    <3>1. /\ filters' = filters /\ inventory' = inventory /\ ValidFilters(filters)
          /\ plan' = [n \in DOMAIN inventory.programs |-> Decision(filters, inventory.bottle, inventory.programs[n])]
      BY <2>1, Zenon DEF Plan
    <3> QED BY <3>1, Zenon DEF PlanInv
  <2>2. CASE UNCHANGED svars
    BY <2>2, Zenon DEF PlanInv, svars
  <2> QED BY <2>1, <2>2
<1> QED BY <1>1, <1>2, Planned, PTL DEF SelectionSpec

\* A helper works in the process that was selected, that process is the one the user
\* reviewed, and the programs that are planned for are those that were named.
THEOREM OnlySelectedAlways == AttachSpec /\ MatchSpec /\ SelectionSpec => []OnlySelected
<1>1. HelpersSelected /\ SelectionTrue /\ PlanExact => OnlySelected
  BY DEF OnlySelected
<1> QED BY HelpersInSelected, SelectionIsTrue, PlansAreExact, <1>1, PTL
=============================================================================
