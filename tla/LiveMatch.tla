------------------------------- MODULE LiveMatch -------------------------------
(***************************************************************************)
(* How the manager comes to believe that a process id is a registered game *)
(* (bin/intimatr_bottles/live_match.rs): it asks Bottles for the bottle,   *)
(* its root and its programs, has a helper list the processes of the       *)
(* bottle's Wine (wine-process-list.rs), and matches the two.  The user    *)
(* reviews one candidate and then asks attach-game for it, which looks at  *)
(* everything again.  Between any two looks processes end, their ids are   *)
(* taken again, files are replaced and Bottles is configured anew.         *)
(***************************************************************************)
EXTENDS Integers, FiniteSets, SequencesExt

CONSTANTS
  Libraries,   \* what Bottles may say: [bottles, config, root, programs]
  Layout,      \* what lies under the bottle's name in each root: "bottle", "link", ...
  Steam, Managed,  \* the Wine binary in each runner's directory; "none", "link"
  Candidates,     \* candidates of the user: [bottle, prefix, runner, id, exe]
  Images,      \* programs that run: [path, machine]
  Ids,         \* process ids
  FileContents,\* of an executable file: [machine, imports]
  Disks,       \* executables there may be at first: contents by identity
  PathKey,     \* game_path_key: the identity of each valid path
  Unset, Nothing,
  MaxStarted, MaxEdits   \* bounds: processes that are started; edits of files and of Bottles

ASSUME MatchAssumption ==
  /\ Nothing \notin DOMAIN PathKey /\ Nothing \notin Ids
  /\ IsFiniteSet(Ids)
  /\ Disks \subseteq [{PathKey[p] : p \in DOMAIN PathKey} -> FileContents]

VARIABLES
  library, files, \* what Bottles says; the executables, by their identity
  running,        \* the process under each id, or Nothing
  history,        \* all there were
  edits,
  stage, review

matchVars == <<library, files, running, history, edits, stage, review>>
world == <<library, files, running, history, edits>>

Fresh(action, choice, expected) ==
  [action |-> action, choice |-> choice, expected |-> expected, config |-> Nothing,
   runner |-> "unknown", programs |-> <<>>, left |-> <<>>, rows |-> <<>>]

Process(n, id, kind) == [created |-> n, id |-> id, path |-> kind.path, machine |-> kind.machine]

MatchInit ==
  /\ library \in Libraries
  /\ files \in Disks
  /\ \E id \in Ids, k \in Images :
       /\ running = [i \in Ids |-> IF i = id THEN Process(1, id, k) ELSE Nothing]
       /\ history = {Process(1, id, k)}
  /\ edits = 0 /\ stage = "idle"
  /\ \E c \in Candidates : review = Fresh("review", c, Unset)

Go(to, j) == stage' = to /\ review' = j /\ UNCHANGED world

\* An error ends the command.
Refuse == stage \notin {"idle", "reported", "admitted", "over"} /\ Go("over", review)

(***************************************************************************)
(* Bottles: the bottle, its prefix, its runner, its programs               *)
(***************************************************************************)

\* validate_explicit_candidate_selection, before anything is started.  A list of
\* names only says nothing of the configuration.
ListBottles ==
  /\ stage = "idle"
  /\ review.choice.id # 0 /\ review.choice.exe \in DOMAIN PathKey
  /\ review.choice.bottle \in library.bottles
  /\ Go("root", [review EXCEPT !.config = library.config])

\* verify_bottle_prefix: a plain directory of that name in the root, with its marks.
OwnsPrefix(root, prefix) == Layout[root] = "bottle" /\ prefix \in {Unset, root}

CheckPrefix ==
  /\ stage = "root" /\ OwnsPrefix(library.root, review.choice.prefix)
  /\ Go("runner", review)

\* audit_recorded_runner, audit_native_managed_runner: the binary that the
\* configuration leads to, if it leads to one.
Recorded(config) ==
  IF config.environment = "Steam"
    THEN IF config.path = Unset THEN "none" ELSE Steam[config.path]
    ELSE IF config.path # Unset \/ config.runner \in {Unset, "sys-wine"} THEN "none"
    ELSE Managed[config.runner]

CheckRunner ==
  /\ stage = "runner"
  /\ LET found == IF review.config = Nothing THEN "none" ELSE Recorded(review.config)
     IN  /\ found \in {"none", review.choice.runner}
         /\ Go("programs", [review EXCEPT !.runner = IF found = "none" THEN "unknown" ELSE "verified"])

ReadPrograms == stage = "programs" /\ Go("processes", [review EXCEPT !.programs = library.programs])

(***************************************************************************)
(* The helper in the bottle's Wine                                         *)
(***************************************************************************)

\* CreateToolhelp32Snapshot: ids, in some order, and the names of what ran under them.
Enumerate ==
  /\ stage = "processes"
  /\ \E ids \in SetToSeqs({i \in Ids : running[i] # Nothing}) :
       Go("look", [review EXCEPT !.left = [n \in DOMAIN ids |-> [id |-> ids[n], name |-> running[ids[n]].path]]])

Row(id, created, machine, path) ==
  [id |-> id, created |-> created, machine |-> machine, path |-> path, file |-> Nothing, imports |-> Nothing]

\* Fault: the path is not asked of the handle.
LookByName ==
  /\ stage = "look" /\ review.left # <<>>
  /\ LET next == Head(review.left)
         p    == running[next.id]
         row  == IF p = Nothing THEN Row(next.id, Nothing, Nothing, next.name)
                 ELSE Row(next.id, p.created, p.machine, next.name)
     IN  Go("file", [review EXCEPT !.left = Tail(@), !.rows = Append(@, row)])

\* inspect_process: one handle answers all three questions, or some of them.
InspectProcess ==
  /\ stage = "look" /\ review.left # <<>>
  /\ LET id == Head(review.left).id
         p  == running[id]
     IN  \E failed \in {{}, {"created"}, {"machine"}, {"path"}, {"created", "machine", "path"}} :
           LET Answer(field) == IF p = Nothing \/ field \in failed THEN Nothing ELSE p[field]
           IN  Go("file", [review EXCEPT !.left = Tail(@),
                  !.rows = Append(@, Row(id, Answer("created"), Answer("machine"), Answer("path")))])

OnDisk(path) == IF path \in DOMAIN PathKey THEN files[PathKey[path]] ELSE [machine |-> Nothing, imports |-> Nothing]

\* inspect_pe, of whatever file is under the path by now.
InspectFile ==
  /\ stage = "file"
  /\ Go("imports", [review EXCEPT !.rows[Len(review.rows)].file = OnDisk(Last(review.rows).path).machine])

\* inspect_pe_timer_imports opens the file again.
InspectImports ==
  /\ stage = "imports"
  /\ LET row  == Last(review.rows)
         file == OnDisk(row.path)
         read == IF row.file = "x64" /\ file.machine = "x64" THEN file.imports ELSE Nothing
     IN  Go("look", [review EXCEPT !.rows[Len(review.rows)].imports = read])

(***************************************************************************)
(* Matching                                                                *)
(***************************************************************************)

\* WindowsProcessSnapshot::parse, as far as it looks at what depends on each other.
WellFormed(rows) ==
  /\ \A m, n \in DOMAIN rows : rows[m].id = rows[n].id => m = n
  /\ \A n \in DOMAIN rows : rows[n].imports # Nothing => rows[n].file = "x64"

X64(row) ==
  IF Nothing \in {row.machine, row.file} THEN "unknown"
  ELSE IF row.machine = "x64" /\ row.file = "x64" THEN "yes" ELSE "no"

Registered(programs, path) == {n \in DOMAIN programs :
  programs[n] \in DOMAIN PathKey /\ PathKey[programs[n]] = PathKey[path]}

\* Fault: the first registration is as good as the only one.
MatchAny(row, programs) ==
  CASE X64(row) = "no" -> "unsupported"
    [] X64(row) # "no" /\ row.path = Nothing -> "unknownPath"
    [] X64(row) # "no" /\ row.path \notin DOMAIN PathKey \cup {Nothing} -> "unsupportedPath"
    [] OTHER -> IF Registered(programs, row.path) = {} THEN "unregistered" ELSE "exact"

\* match_registered_programs; a conflict of the two machines is unsupported as well.
Match(row, programs) ==
  CASE X64(row) = "no" -> "unsupported"
    [] X64(row) # "no" /\ row.path = Nothing -> "unknownPath"
    [] X64(row) # "no" /\ row.path \notin DOMAIN PathKey \cup {Nothing} -> "unsupportedPath"
    [] OTHER -> CASE Cardinality(Registered(programs, row.path)) = 0 -> "unregistered"
                  [] Cardinality(Registered(programs, row.path)) = 1 -> "exact"
                  [] OTHER -> "ambiguous"

NotSeen == [status |-> "notInSnapshot", seen |-> FALSE, image |-> FALSE, registered |-> FALSE,
            x64 |-> "unknown", imports |-> Nothing, created |-> Nothing]

\* assess_explicit_candidate
Assess(j) ==
  LET own  == {n \in DOMAIN j.rows : j.rows[n].id = j.choice.id}
      row  == j.rows[Min(own)]
      match == Match(row, j.programs)
      image == row.path \in DOMAIN PathKey /\ PathKey[row.path] = PathKey[j.choice.exe]
  IN  IF own = {} THEN NotSeen
      ELSE [status     |-> IF ~image THEN "otherImage"
                           ELSE IF match # "exact" THEN match
                           ELSE IF X64(row) = "unknown" THEN "unknownMachine" ELSE "candidate",
            seen       |-> TRUE,
            image      |-> image,
            registered |-> image /\ match = "exact",
            x64        |-> X64(row),
            imports    |-> row.imports,
            created    |-> row.created]

\* review_attachment_readiness: what the user is told stands in the way, besides what
\* always does.
Blockers(j) ==
  LET c == Assess(j)
      When(b, name) == IF b THEN {name} ELSE {}
  IN  UNION {When(j.runner # "verified", "runner"),
             When(c.created = Nothing, "created"),
             When(~c.seen, "id"),
             When(c.seen /\ ~c.image, "image"),
             When(~c.registered \/ c.status # "candidate", "registration"),
             When(c.x64 # "yes", "machine"),
             When(c.imports # 15, "imports")}

Review ==
  /\ stage = "look" /\ review.action = "review" /\ review.left = <<>> /\ WellFormed(review.rows)
  /\ Go("reported", review)

\* The user takes the creation time from the report.
TakeUp(action) ==
  /\ stage = "reported" /\ Assess(review).created # Nothing
  /\ Go("idle", Fresh(action, review.choice, Assess(review).created))

\* Fault: the id and the image are thought to be enough.
AdmissibleByImage(j) ==
  LET c == Assess(j)
  IN  /\ j.runner = "verified"
      /\ c.registered /\ c.seen /\ c.image /\ c.x64 = "yes" /\ c.status = "candidate"
      /\ j.action = "arm" => c.imports \in {Nothing, 15}

\* run_game_action.  Imports that are not known are left to the DLL.
Admissible(j) ==
  LET c == Assess(j)
  IN  /\ j.runner = "verified"
      /\ c.created # Nothing /\ c.created = j.expected
      /\ c.registered /\ c.seen /\ c.image /\ c.x64 = "yes" /\ c.status = "candidate"
      /\ j.action = "arm" => c.imports \in {Nothing, 15}

Admit ==
  /\ stage = "look" /\ review.action # "review" /\ review.left = <<>> /\ WellFormed(review.rows)
  /\ Admissible(review)
  /\ Go("admitted", review)

(***************************************************************************)
(* Meanwhile                                                               *)
(***************************************************************************)

UnchangedTool == UNCHANGED <<stage, review>>

Start(id, kind) ==
  /\ running[id] = Nothing /\ Cardinality(history) < MaxStarted
  /\ LET p == Process(Cardinality(history) + 1, id, kind)
     IN  running' = [running EXCEPT ![id] = p] /\ history' = history \cup {p}
  /\ UNCHANGED <<library, files, edits>> /\ UnchangedTool

End(id) ==
  /\ running[id] # Nothing
  /\ running' = [running EXCEPT ![id] = Nothing]
  /\ UNCHANGED <<library, files, history, edits>> /\ UnchangedTool

Edit ==
  /\ edits < MaxEdits /\ edits' = edits + 1
  /\ \/ library' \in Libraries \ {library} /\ UNCHANGED files
     \/ /\ \E k \in DOMAIN files, c \in FileContents : files' = [files EXCEPT ![k] = c]
        /\ UNCHANGED library
  /\ UNCHANGED <<running, history>> /\ UnchangedTool

MatchNext ==
  \/ ListBottles \/ CheckPrefix \/ CheckRunner \/ ReadPrograms
  \/ Enumerate \/ InspectProcess \/ InspectFile \/ InspectImports
  \/ Review \/ \E action \in {"attach", "arm"} : TakeUp(action)
  \/ Admit \/ Refuse
  \/ \E id \in Ids : End(id) \/ \E k \in Images : Start(id, k)
  \/ Edit

MatchSpec == MatchInit /\ [][MatchNext]_matchVars

(***************************************************************************)
(* Properties                                                              *)
(***************************************************************************)

\* What a row says of a process is said of one process, whatever became of the id.
OneProcessPerRow == \A n \in DOMAIN review.rows :
  \E p \in history \cup {[id |-> review.rows[n].id, created |-> Nothing, machine |-> Nothing, path |-> Nothing]} :
    \A field \in {"id", "created", "machine", "path"} : review.rows[n][field] \in {p[field], Nothing}

\* The process that attach-game goes on with is the one whose report the user saw: it
\* runs the chosen image as a 64-bit process, and Bottles had it registered once.
AdmitsTheReviewed ==
  stage = "admitted" => \E p \in history :
    /\ p.id = review.choice.id /\ p.created = review.expected
    /\ p.path \in DOMAIN PathKey /\ PathKey[p.path] = PathKey[review.choice.exe]
    /\ p.machine = "x64"
    /\ Cardinality(Registered(review.programs, review.choice.exe)) = 1

\* The review and the attachment judge alike: where the one names no blocker but the
\* imports, the other, asked of the same evidence, agrees, and the other way round.
ReviewAgrees ==
  stage \in {"reported", "admitted"} =>
    Blockers(review) \subseteq {"imports"}
      <=> Admissible([review EXCEPT !.action = "attach", !.expected = Assess(review).created])

\* A snapshot the helper printed is never refused as contradictory.
SnapshotsAccepted == stage = "look" => WellFormed(review.rows)

SelectionTrue == OneProcessPerRow /\ AdmitsTheReviewed /\ ReviewAgrees /\ SnapshotsAccepted
=============================================================================
