------------------------------ MODULE OsModule ------------------------------
(***************************************************************************)
(* The file operations of Python's os module (modos.c), the search for an  *)
(* imported module (mp_import_stat in use.c) and what they call in the     *)
(* script file protocol (usf.c): how a path is brought into its unified    *)
(* form, how a volume's root and a file are opened, and the working        *)
(* directory, which the UEFI Shell keeps when there is one.                *)
(*                                                                         *)
(* A place is a volume followed by names. A handle stands for the address  *)
(* of an EFI_FILE_PROTOCOL. The file systems are external: their calls may *)
(* fail as Faults says, and Delete closes its handle whether it succeeds   *)
(* or not, with a warning and not an error when it does not.  "memory" in  *)
(* Faults is an allocation on the Python heap that raises MemoryError, out *)
(* of the C function that made it.                                         *)
(***************************************************************************)
EXTENDS Integers, Sequences, SequencesExt, FiniteSets

CONSTANTS Volumes,    \* the file systems, in the order LocateHandleBuffer lists them
          Place,      \* sequences: a volume, followed by names
          Paths,      \* what scripts pass: records of form, vol and steps
          MaxHandles, \* files that the file systems keep open at a time
          Iter,
          ImageDir,   \* directory of the driver's image
          Shells,     \* shells to consider: "none", "accepts", "rejects"
          Faults,     \* calls of file systems, and allocations, that may fail
          NULL

Forms == {"cwd", "relative", "rooted", "mapped", "label", "drive"}
Handle == 1..MaxHandles

Names == UNION {{x[k] : k \in 1..Len(x)} : x \in Place}
ASSUME PlaceAssumption ==
  /\ Place \subseteq Seq(Names)
  /\ \A k \in 1..Len(Volumes) : <<Volumes[k]>> \in Place
  /\ \A x \in Place : Len(x) > 0 /\ \E k \in 1..Len(Volumes) : Volumes[k] = x[1]
  /\ \A x \in Place : \A n \in 1..Len(x) : SubSeq(x, 1, n) \in Place
  /\ ImageDir \in Place /\ NULL \notin Place
\* A label may be one that no volume has: its vol is past the last.
ASSUME PathAssumption == \A p \in Paths : /\ p.form \in Forms /\ p.vol \in 1..(Len(Volumes) + 1)
                                         /\ p.form # "label" => p.vol \in 1..Len(Volumes)
ASSUME SizeAssumption == MaxHandles \in Nat /\ NULL \notin Handle
ASSUME WorldAssumption == /\ Shells \subseteq {"none", "accepts", "rejects"}
                          /\ Faults \subseteq {"open", "info", "delete", "memory"}

VARIABLES
  kind,              \* what is at every place of the volumes
  CurrentDirectory,  \* mUsfData.CurrentDirectory
  shell, ShellDir,   \* the UEFI Shell and the directory it is in
  open,              \* the handles that are open
  leaked,            \* open handles that nothing refers to any more
  pc, target,        \* rmdir going on, its path and its variables fh and status
  fh, status,
  dirs,              \* the active calls of remove_dir: handle, place, entries to come
  it,                \* iterators of ilistdir
  fault, blame,      \* history: a misused handle, and what explains it
  wanted             \* history: the directory of the last chdir, unless the Shell refused it

cwd == <<CurrentDirectory, shell, ShellDir>>
frame == <<pc, target, fh, status, dirs>>
history == <<fault, blame, wanted>>
vars == <<kind, cwd, open, leaked, frame, it, history>>

NoIter == [fh |-> NULL, at |-> NULL]

Under(x, y) == IsPrefix(y, x)
Entries(d) == {x \in Place : Len(x) = Len(d) + 1 /\ Under(x, d) /\ kind[x] # "none"}
Free == Handle \ open

\* Ranges of the variables.
TypeOK ==
  /\ kind \in [Place -> {"none", "file", "dir"}]
  /\ CurrentDirectory \in Place \cup {NULL} /\ ShellDir \in Place \cup {NULL}
  /\ shell \in Shells /\ open \subseteq Handle /\ leaked \subseteq Handle
  /\ pc \in {"idle", "remove_dir", "exit"} /\ target \in Place \cup {NULL}
  /\ fh \in Handle \cup {NULL} /\ status \in {"ok", "warn", "error"}
  /\ dirs \in Seq([h : Handle, x : Place, todo : SUBSET Place])
  /\ it \in [Iter -> [fh : Handle \cup {NULL}, at : Place \cup {NULL}]]
  /\ fault \in {"none", "closed_handle", "no_iterator"}
  /\ blame \in {"none", "delete", "next"}
  /\ wanted \in Place \cup {NULL}

Init ==
  /\ kind = [x \in Place |-> IF Under(ImageDir, x) \/ Len(x) = 1 THEN "dir" ELSE "none"]
  /\ CurrentDirectory = NULL /\ shell \in Shells
  /\ ShellDir \in IF shell = "none" THEN {NULL} ELSE {NULL, SubSeq(ImageDir, 1, 1)}
  /\ open = {} /\ leaked = {}
  /\ pc = "idle" /\ target = NULL /\ fh = NULL /\ status = "ok"
  /\ dirs = <<>> /\ it = [i \in Iter |-> NoIter]
  /\ fault = "none" /\ blame = "none" /\ wanted = NULL

-----------------------------------------------------------------------------
(* Paths and the working directory.                                         *)

\* What UsfGetCurrentDirectory returns; it remembers it as well.
UsfGetCurrentDirectory ==
  IF shell = "none" \/ ShellDir = NULL THEN CurrentDirectory ELSE ShellDir

\* The directory of paths without a volume.
CurDir == IF shell = "none" THEN CurrentDirectory ELSE ShellDir

\* The place a path means. NULL where UsfFilePathNorm has no answer, and for
\* places that cannot exist on the volumes.
UsfFilePathNorm(p) ==
  LET base == CASE p.form = "cwd" -> UsfGetCurrentDirectory
                [] p.form = "relative" -> CurDir
                [] p.form = "rooted" -> IF CurDir = NULL THEN NULL ELSE SubSeq(CurDir, 1, 1)
                [] p.form = "drive" -> IF shell = "none" THEN NULL ELSE <<Volumes[p.vol]>>
                [] OTHER -> IF p.vol > Len(Volumes) THEN NULL ELSE <<Volumes[p.vol]>>
  IN IF base # NULL /\ base \o p.steps \in Place THEN base \o p.steps ELSE NULL

\* A Shell that refuses the directory is not noticed.
UsfChangeCurrentDirectory(x) ==
  /\ CurrentDirectory' = x
  /\ ShellDir' = IF shell = "accepts" THEN x ELSE ShellDir

\* Between two operations of a script. Nothing is said of what comes after a
\* handle was misused.
Idle == pc = "idle" /\ fault = "none"

\* Mutant: every script starts in the directory of the image.
StartScript_Image ==
  /\ pc = "idle" /\ UsfChangeCurrentDirectory(ImageDir)
  /\ UNCHANGED <<kind, shell, open, leaked, frame, it, history>>

\* The working directory at the start of a script.
StartScript ==
  /\ pc = "idle"
  /\ IF UsfGetCurrentDirectory = NULL THEN UsfChangeCurrentDirectory(ImageDir)
     ELSE CurrentDirectory' = UsfGetCurrentDirectory /\ ShellDir' = ShellDir
  /\ UNCHANGED <<kind, shell, open, leaked, frame, it, history>>

mod_os_getcwd ==
  /\ Idle /\ CurrentDirectory' = UsfGetCurrentDirectory
  /\ UNCHANGED <<kind, shell, ShellDir, open, leaked, frame, it, history>>

\* The user changes the Shell's directory between two scripts.
ShellCd(x) ==
  /\ Idle /\ shell # "none" /\ kind[x] = "dir"
  /\ ShellDir' = x /\ wanted' = NULL
  /\ UNCHANGED <<kind, CurrentDirectory, shell, open, leaked, frame, it, fault, blame>>

\* A file is written, by open() of a script or by another program.
FileAppears(x) ==
  /\ Idle /\ Len(x) > 1 /\ kind[x] = "none" /\ kind[Front(x)] = "dir"
  /\ kind' = [kind EXCEPT ![x] = "file"]
  /\ UNCHANGED <<cwd, open, leaked, frame, it, history>>

-----------------------------------------------------------------------------
(* UsfOpen.                                                                 *)

\* UsfOpenRootByLabel does not close the roots it tried before the right one: of all
\* volumes, when none has the label.
UsfOpenRootByLabel(p, free) ==
  {h \in free : p.form = "label" /\ Cardinality({k \in free : k <= h}) < p.vol}
Left(p) == UsfOpenRootByLabel(p, Free)

\* UsfOpen finds the place of path p and has a handle for it; or it fails. The
\* root it opened to get there is closed in both cases.
Found(p) == UsfFilePathNorm(p) # NULL /\ kind[UsfFilePathNorm(p)] # "none"
UsfOpen(p) == Found(p) /\ Free \ Left(p) # {}
UsfOpenFails(p) == UsfOpen(p) => "open" \in Faults
NewHandle(taken) == CHOOSE h \in Free \ taken : \A k \in Free \ taken : h <= k

\* What an operation leaves open that closes its own handle before it returns.
Leaves(handles) == open' = open \cup handles /\ leaked' = leaked \cup handles

\* MemoryError is raised while the function's own handle is open: the exception
\* leaves the function, and nothing closes it.
RaisesMemoryError(p) ==
  /\ "memory" \in Faults /\ UsfOpen(p)
  /\ Leaves(Left(p) \cup {NewHandle(Left(p))})

\* Close of a handle: of one that is not open, too.
Close(h) ==
  /\ fault' = IF h \in open THEN fault ELSE "closed_handle"
  /\ open' = open \ {h}

\* FileHandleGetInfo returns NULL, or a directory cannot be read on.
NoInfo == "info" \in Faults

\* Delete of the file at x is refused.
Refused(x) == "delete" \in Faults \/ Entries(x) # {} \/ Len(x) = 1

-----------------------------------------------------------------------------
(* Operations that return before anything else happens.                      *)

\* mkdir of something that is there ends with the value EEXIST, which is no
\* error status and raises nothing; otherwise the path is opened once more.
mod_os_mkdir(p) ==
  LET x == UsfFilePathNorm(p)
      again == UsfOpenRootByLabel(p, Free \ Left(p))
  IN /\ Idle
     /\ \/ UsfOpen(p) /\ Leaves(Left(p)) /\ kind' = kind
        \/ /\ UsfOpenFails(p) /\ Leaves(Left(p) \cup again)
           /\ \/ kind' = kind
              \/ /\ x # NULL /\ Len(x) > 1 /\ kind[Front(x)] = "dir" /\ kind[x] # "file"
                 /\ Free \ (Left(p) \cup again) # {}
                 /\ kind' = [kind EXCEPT ![x] = "dir"]
     /\ UNCHANGED <<cwd, frame, it, history>>

\* The result is allocated between the open and the close.
mod_os_stat(p) ==
  /\ Idle
  /\ Leaves(Left(p)) \/ RaisesMemoryError(p)
  /\ UNCHANGED <<kind, cwd, frame, it, history>>

\* A Delete that fails gives a warning, which raises nothing.
mod_os_remove(p) ==
  LET x == UsfFilePathNorm(p)
  IN /\ Idle /\ Leaves(Left(p))
     /\ \/ UsfOpen(p) /\ kind[x] = "file" /\ kind' = [kind EXCEPT ![x] = "none"]
        \/ (UsfOpen(p) /\ kind[x] = "file" => NoInfo \/ Refused(x) \/ "open" \in Faults) /\ kind' = kind
     /\ UNCHANGED <<cwd, frame, it, history>>

\* The file system moves the file, and what is below it, or refuses.
Moved(x, y) ==
  [z \in Place |-> IF Under(z, y)
                   THEN LET old == x \o SubSeq(z, Len(y) + 1, Len(z))
                        IN IF old \in Place THEN kind[old] ELSE "none"
                   ELSE IF Under(z, x) THEN "none" ELSE kind[z]]

mod_os_rename(p) ==
  LET x == UsfFilePathNorm(p)
  IN /\ Idle /\ Leaves(Left(p))
     /\ \/ kind' = kind
        \/ \E y \in Place :
             /\ UsfOpen(p) /\ Len(x) > 1 /\ Len(y) > 1 /\ y[1] = x[1] /\ ~Under(y, x)
             /\ kind[y] = "none" /\ kind[Front(y)] = "dir"
             /\ kind' = Moved(x, y)
     /\ UNCHANGED <<cwd, frame, it, history>>

\* Anything that can be opened will do: it may be a file.
mod_os_chdir(p) ==
  /\ Idle /\ Leaves(Left(p))
  /\ \/ /\ UsfOpen(p) /\ UsfChangeCurrentDirectory(UsfFilePathNorm(p))
        /\ wanted' = IF shell = "rejects" THEN NULL ELSE UsfFilePathNorm(p)
     \/ UsfOpenFails(p) /\ UNCHANGED <<CurrentDirectory, ShellDir, wanted>>
  /\ UNCHANGED <<kind, shell, frame, it, fault, blame>>

\* The handle of a module that was found stays open.
mp_import_stat(p) ==
  /\ Idle
  /\ \/ UsfOpen(p) /\ Leaves(Left(p) \cup {NewHandle(Left(p))})
     \/ (NoInfo \/ UsfOpenFails(p)) /\ Leaves(Left(p))
  /\ UNCHANGED <<kind, cwd, frame, it, history>>

\* listdir runs an iterator of ilistdir to its end. When ilistdir could not open
\* the path it goes on with the empty tuple in place of an iterator. The iterator
\* and every entry are allocated while the directory is open.
mod_os_listdir(p) ==
  /\ Idle
  /\ CurrentDirectory' = IF p.form = "cwd" THEN UsfGetCurrentDirectory ELSE CurrentDirectory
  /\ \/ UsfOpen(p) /\ Leaves(Left(p)) /\ fault' = fault
     \/ RaisesMemoryError(p) /\ fault' = fault
     \/ p.form = "cwd" /\ UsfGetCurrentDirectory = NULL /\ Leaves(Left(p)) /\ fault' = fault
     \/ /\ p.form = "cwd" => UsfGetCurrentDirectory # NULL
        /\ UsfOpenFails(p) /\ Leaves(Left(p)) /\ fault' = "no_iterator"
  /\ UNCHANGED <<kind, shell, ShellDir, frame, it, blame, wanted>>

-----------------------------------------------------------------------------
(* rmdir: remove_dir calls itself for the directories it finds.              *)

Top == Last(dirs)
Enter(h, x, outer) == dirs' = Append(outer, [h |-> h, x |-> x, todo |-> Entries(x)])

\* Delete of a directory closes its handle in any case.
Delete(h, x, ok) ==
  /\ IF ok THEN Entries(x) = {} /\ Len(x) > 1 ELSE Refused(x)
  /\ Close(h)
  /\ blame' = IF ok THEN blame ELSE "delete"
  /\ kind' = IF ok THEN [kind EXCEPT ![x] = "none"] ELSE kind

\* The path is opened and remove_dir called; it returns at once from a file, and
\* when there is no info.
mod_os_rmdir(p) ==
  LET x == UsfFilePathNorm(p)
      h == NewHandle(Left(p))
  IN /\ Idle
     /\ \/ /\ UsfOpen(p) /\ kind[x] = "dir"
           /\ open' = open \cup Left(p) \cup {h} /\ leaked' = leaked \cup Left(p)
           /\ pc' = "remove_dir" /\ target' = x /\ fh' = h /\ Enter(h, x, <<>>)
        \/ /\ UsfOpenFails(p) \/ NoInfo \/ (Found(p) /\ kind[x] = "file")
           /\ Leaves(Left(p)) /\ UNCHANGED <<pc, target, fh, dirs>>
     /\ UNCHANGED <<kind, cwd, status, it, history>>

\* The next entry is a file: it is opened and deleted. When Delete fails, the
\* handle, which is closed, is closed again.
RemoveFile(x) ==
  /\ pc = "remove_dir" /\ status = "ok" /\ x \in Top.todo /\ kind[x] = "file" /\ Free # {}
  /\ dirs' = Append(Front(dirs), [Top EXCEPT !.todo = @ \ {x}])
  /\ \/ kind' = [kind EXCEPT ![x] = "none"] /\ UNCHANGED <<status, fault, blame>>
     \/ /\ Refused(x) /\ kind' = kind
        /\ status' = "warn" /\ fault' = "closed_handle" /\ blame' = "delete"
  /\ UNCHANGED <<cwd, open, leaked, pc, target, fh, it, wanted>>

\* The next entry is a directory: it is opened and remove_dir calls itself.
RemoveSubdir(x) ==
  /\ pc = "remove_dir" /\ status = "ok" /\ x \in Top.todo /\ kind[x] = "dir" /\ Free # {}
  /\ Enter(NewHandle({}), x, Append(Front(dirs), [Top EXCEPT !.todo = @ \ {x}]))
  /\ open' = open \cup {NewHandle({})}
  /\ UNCHANGED <<kind, cwd, leaked, pc, target, fh, status, it, history>>

\* The entry cannot be opened, or is a directory without info and is closed again.
EntryFails(x) ==
  /\ pc = "remove_dir" /\ status = "ok" /\ x \in Top.todo
  /\ "open" \in Faults \/ Free = {} \/ (kind[x] = "dir" /\ NoInfo)
  /\ status' = "error"
  /\ UNCHANGED <<kind, cwd, open, leaked, pc, target, fh, dirs, it, history>>

\* Mutants: rmdir keeps its handle after success; the status of Delete is dropped.
RemoveSelf_KeepHandle ==
  /\ pc = "remove_dir" /\ status = "ok" /\ (Top.todo = {} \/ NoInfo)
  /\ \E ok \in BOOLEAN :
       /\ Delete(Top.h, Top.x, ok)
       /\ status' = IF ok THEN "ok" ELSE "warn"
       /\ dirs' = IF ok THEN Front(dirs) ELSE dirs
       /\ pc' = IF ok /\ Len(dirs) = 1 THEN "exit" ELSE pc
  /\ UNCHANGED <<cwd, leaked, target, fh, it, wanted>>
RemoveSelf_NoStatus ==
  /\ pc = "remove_dir" /\ status = "ok" /\ (Top.todo = {} \/ NoInfo)
  /\ \E ok \in BOOLEAN : Delete(Top.h, Top.x, ok)
  /\ dirs' = Front(dirs)
  /\ IF Len(dirs) = 1 THEN pc' = "exit" /\ fh' = NULL ELSE UNCHANGED <<pc, fh>>
  /\ UNCHANGED <<cwd, leaked, target, status, it, wanted>>

\* No further entry, or none that can be read: the directory itself is deleted,
\* and the call returns.
RemoveSelf ==
  /\ pc = "remove_dir" /\ status = "ok" /\ (Top.todo = {} \/ NoInfo)
  /\ \E ok \in BOOLEAN :
       /\ Delete(Top.h, Top.x, ok)
       /\ status' = IF ok THEN "ok" ELSE "warn"
       /\ dirs' = IF ok THEN Front(dirs) ELSE dirs
       /\ IF ok /\ Len(dirs) = 1 THEN pc' = "exit" /\ fh' = NULL ELSE UNCHANGED <<pc, fh>>
  /\ UNCHANGED <<cwd, leaked, target, it, wanted>>

\* Mutants: the handle of the entry is not closed on the way back; the caller
\* drops the status and looks for its first entry again.
Unwind_NoClose ==
  /\ pc = "remove_dir" /\ status # "ok"
  /\ dirs' = Front(dirs) /\ pc' = IF Len(dirs) = 1 THEN "exit" ELSE pc
  /\ UNCHANGED <<kind, cwd, open, leaked, target, fh, status, it, history>>
Unwind_Restart ==
  /\ pc = "remove_dir" /\ status # "ok"
  /\ IF Len(dirs) = 1 THEN pc' = "exit" /\ dirs' = <<>> /\ UNCHANGED <<open, fault, status>>
     ELSE /\ Close(Top.h) /\ pc' = pc /\ status' = "ok"
          /\ dirs' = [Front(dirs) EXCEPT ![Len(dirs) - 1].todo = Entries(dirs[Len(dirs) - 1].x)]
  /\ UNCHANGED <<kind, cwd, leaked, target, fh, it, blame, wanted>>

\* A call has failed: its caller closes the handle it opened for it. For the
\* first call that is CLOSE_FILE.
Unwind ==
  /\ pc = "remove_dir" /\ status # "ok"
  /\ dirs' = Front(dirs)
  /\ IF Len(dirs) = 1 THEN pc' = "exit" /\ UNCHANGED <<open, fault>>
     ELSE Close(Top.h) /\ pc' = pc
  /\ UNCHANGED <<kind, cwd, leaked, target, fh, status, it, blame, wanted>>

\* CLOSE_FILE and the end of rmdir.
Exit ==
  /\ pc = "exit"
  /\ IF fh # NULL THEN Close(fh) ELSE UNCHANGED <<open, fault>>
  /\ pc' = "idle" /\ target' = NULL /\ fh' = NULL /\ status' = "ok"
  /\ UNCHANGED <<kind, cwd, leaked, dirs, it, blame, wanted>>

-----------------------------------------------------------------------------
(* ilistdir.                                                                *)

\* A path that cannot be opened gives an empty tuple and no iterator.
mod_os_ilistdir(i, p) ==
  /\ Idle /\ it[i] = NoIter
  /\ CurrentDirectory' = IF p.form = "cwd" THEN UsfGetCurrentDirectory ELSE CurrentDirectory
  /\ LET h == NewHandle(Left(p))
     IN \/ /\ UsfOpen(p) /\ it' = [it EXCEPT ![i] = [fh |-> h, at |-> UsfFilePathNorm(p)]]
           /\ open' = open \cup Left(p) \cup {h} /\ leaked' = leaked \cup Left(p)
        \/ RaisesMemoryError(p) /\ it' = it
        \/ UsfOpenFails(p) /\ Leaves(Left(p)) /\ it' = it
  /\ UNCHANGED <<kind, shell, ShellDir, frame, history>>

\* A further entry, or the end: the handle is closed, and the iterator keeps it.
\* A call after that uses and closes it again, whoever has it by then.
listdir_next(i) ==
  /\ Idle /\ it[i] # NoIter
  /\ \/ it[i].at # NULL /\ kind[it[i].at] = "dir" /\ UNCHANGED <<open, fault, blame, it>>
     \/ it[i].at # NULL /\ Close(it[i].fh) /\ it' = [it EXCEPT ![i].at = NULL] /\ blame' = blame
     \/ /\ it[i].at = NULL /\ fault' = "closed_handle" /\ blame' = "next"
        /\ open' = open \ {it[i].fh} /\ it' = it
  /\ UNCHANGED <<kind, cwd, leaked, frame, wanted>>

\* The garbage collector takes an iterator; it closes nothing.
CollectIter(i) ==
  /\ Idle /\ it[i] # NoIter
  /\ it' = [it EXCEPT ![i] = NoIter]
  /\ leaked' = IF it[i].at = NULL THEN leaked ELSE leaked \cup {it[i].fh}
  /\ UNCHANGED <<kind, cwd, open, frame, history>>

-----------------------------------------------------------------------------
\* The steps of rmdir after its first.
Continue ==
  \/ \E x \in Place : RemoveFile(x) \/ RemoveSubdir(x) \/ EntryFails(x)
  \/ RemoveSelf \/ Unwind \/ Exit

Next ==
  \/ StartScript \/ mod_os_getcwd \/ \E x \in Place : ShellCd(x) \/ FileAppears(x)
  \/ \E p \in Paths :
       \/ p.form # "cwd" /\ \/ mod_os_mkdir(p) \/ mod_os_stat(p) \/ mod_os_remove(p)
                            \/ mod_os_rename(p) \/ mod_os_chdir(p) \/ mod_os_rmdir(p)
                            \/ mp_import_stat(p)
       \/ mod_os_listdir(p) \/ \E i \in Iter : mod_os_ilistdir(i, p)
  \/ \E i \in Iter : listdir_next(i) \/ CollectIter(i)
  \/ Continue

Spec == Init /\ [][Next]_vars

\* A script that has begun rmdir runs on: nothing waits for another actor.
FairSpec == Spec /\ WF_vars(Continue)

-----------------------------------------------------------------------------
(* Properties.                                                              *)

\* No step closes or uses a handle that is closed (the error paths of remove_dir,
\* CLOSE_FILE in rmdir, listdir_next), with two exceptions. A Delete that failed
\* has closed the handle that the error path closes, and a script may call
\* next() on an iterator that has ended.
HandleUse == fault = "closed_handle" => blame # "none"

\* Every open handle belongs to rmdir, to one of the active calls of remove_dir,
\* to an iterator, or is one of the known leaks; and all those are open. The leaks:
\* a found module (use.c:233), roots tried for a label (usf.c:818), a collected
\* iterator, and the handle of a function that MemoryError leaves (modos.c:310, 647,
\* 691). However deep it failed, remove_dir loses nothing on its way back.
HandlesAccounted ==
  LET held == {fh} \cup {dirs[k].h : k \in DOMAIN dirs}
              \cup {it[i].fh : i \in {j \in Iter : it[j].at # NULL}}
  IN blame = "none" => open = (held \cup leaked) \ {NULL}

\* When rmdir succeeds, nothing is left at or below its path, over all calls of
\* remove_dir; until then the directory itself is there, with everything above.
RmdirComplete ==
  /\ pc = "remove_dir" => kind[target] = "dir"
  /\ pc = "exit" /\ status = "ok" => \A x \in Place : Under(x, target) => kind[x] = "none"

\* After a chdir that raised no exception, paths are relative to that directory,
\* until the user or a further chdir changes it: also in the scripts that follow,
\* and with a Shell that keeps the directory itself, unless the Shell refuses.
ChdirLasts == wanted # NULL => CurDir = wanted

\* rmdir comes to its end, on a volume of any shape and whatever fails.
RmdirEnds == pc # "idle" ~> pc = "idle"

-----------------------------------------------------------------------------
(* What makes the invariants above inductive.                               *)

RmdirHandles == {dirs[k].h : k \in 1..Len(dirs)} \cup ({fh} \ {NULL})
IterHandles == {it[i].fh : i \in {j \in Iter : it[j].at # NULL}}

\* The calls of remove_dir and rmdir's own variable: the first call has rmdir's handle.
RmdirFrame ==
  /\ pc # "remove_dir" => dirs = <<>>
  /\ pc = "idle" => fh = NULL
  /\ pc = "remove_dir" => dirs # <<>> /\ fh = dirs[1].h

\* No two owners share a handle, so that none closes another's.
HandlesDistinct ==
  /\ \A j, k \in 1..Len(dirs) : dirs[j].h = dirs[k].h => j = k
  /\ \A i, j \in Iter : it[i].at # NULL /\ it[j].at # NULL /\ it[i].fh = it[j].fh => i = j
  /\ RmdirHandles \cap IterHandles = {}
  /\ leaked \cap (RmdirHandles \cup IterHandles) = {}

HandleInv ==
  /\ RmdirFrame
  /\ blame = "none" => /\ fault # "closed_handle"
                       /\ open = RmdirHandles \cup IterHandles \cup leaked
                       /\ HandlesDistinct

\* Everything on a volume is in directories, up to the volume's root.
Tree == \A x, y \in Place : Under(x, y) /\ x # y /\ kind[x] # "none" => kind[y] = "dir"

\* The calls of remove_dir go down from the path, a level each.
Levels ==
  pc = "remove_dir" =>
    /\ dirs # <<>> /\ dirs[1].x = target
    /\ \A k \in 1..Len(dirs) : /\ Len(dirs[k].x) = Len(target) + k - 1
                               /\ \A y \in dirs[k].todo : Len(y) = Len(dirs[k].x) + 1

TreeInv == Tree /\ Levels /\ RmdirComplete
=============================================================================
