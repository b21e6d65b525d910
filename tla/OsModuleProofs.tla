--------------------------- MODULE OsModuleProofs ---------------------------
(***************************************************************************)
(* Proofs about OsModule, for any volumes, paths and number of handles, and*)
(* file systems whose calls may all fail.                                  *)
(***************************************************************************)
EXTENDS OsModule, SequenceTheorems, WellFoundedInduction, TLAPS

\* What chdir established, with the one fact that makes it inductive: only a Shell that
\* takes the directory, or no Shell, lets the script believe in it.
CwdInv == /\ shell \in Shells
          /\ wanted # NULL => shell # "rejects" /\ CurDir = wanted

\* Operations that leave the working directory alone.
LEMMA OthersKeepCwd ==
  ASSUME CwdInv, UNCHANGED <<cwd, wanted>>
  PROVE  CwdInv'
BY DEF CwdInv, CurDir, cwd

\* The working directory is only remembered anew: what UsfGetCurrentDirectory returns is
\* the directory already in force, if a chdir has set it.
LEMMA RememberKeepsCwd ==
  ASSUME CwdInv, UNCHANGED <<shell, ShellDir, wanted>>,
         CurrentDirectory' \in {CurrentDirectory, UsfGetCurrentDirectory}
  PROVE  CwdInv'
BY DEF CwdInv, CurDir, UsfGetCurrentDirectory

\* Every step keeps what chdir established.
LEMMA StepKeepsCwd == CwdInv /\ [Next]_vars => CwdInv'
<1> SUFFICES ASSUME CwdInv, [Next]_vars PROVE CwdInv'
  OBVIOUS
<1>1. CASE StartScript
  <2>1. CASE UsfGetCurrentDirectory = NULL
    <3>1. wanted = NULL
      BY <2>1 DEF CwdInv, CurDir, UsfGetCurrentDirectory
    <3> QED BY <1>1, <3>1 DEF StartScript, CwdInv, history
  <2>2. CASE UsfGetCurrentDirectory # NULL
    BY <1>1, <2>2, RememberKeepsCwd DEF StartScript, history
  <2> QED BY <2>1, <2>2
<1>2. CASE mod_os_getcwd
  BY <1>2, RememberKeepsCwd DEF mod_os_getcwd, history
<1>3. ASSUME NEW x \in Place, ShellCd(x) PROVE CwdInv'
  BY <1>3 DEF ShellCd, CwdInv
<1>4. ASSUME NEW p \in Paths, mod_os_chdir(p) PROVE CwdInv'
  <2>1. CASE /\ UsfChangeCurrentDirectory(UsfFilePathNorm(p))
             /\ wanted' = IF shell = "rejects" THEN NULL ELSE UsfFilePathNorm(p)
    <3>1. shell' = shell /\ shell \in {"none", "accepts", "rejects"}
      BY <1>4, WorldAssumption DEF mod_os_chdir, CwdInv
    <3> QED BY <2>1, <3>1 DEF CwdInv, CurDir, UsfChangeCurrentDirectory
  <2>2. CASE UNCHANGED <<CurrentDirectory, ShellDir, wanted>>
    BY <1>4, <2>2, OthersKeepCwd DEF mod_os_chdir, cwd
  <2> QED BY <1>4, <2>1, <2>2 DEF mod_os_chdir
<1>5. ASSUME NEW p \in Paths, mod_os_listdir(p) PROVE CwdInv'
  BY <1>5, RememberKeepsCwd DEF mod_os_listdir
<1>6. ASSUME NEW p \in Paths, NEW i \in Iter, mod_os_ilistdir(i, p) PROVE CwdInv'
  BY <1>6, RememberKeepsCwd DEF mod_os_ilistdir, history
<1>7. ASSUME NEW x \in Place, FileAppears(x) PROVE CwdInv'
  BY <1>7, OthersKeepCwd DEF FileAppears, history
<1>8. ASSUME NEW p \in Paths,
             \/ mod_os_mkdir(p) \/ mod_os_stat(p) \/ mod_os_remove(p)
             \/ mod_os_rename(p) \/ mod_os_rmdir(p) \/ mp_import_stat(p)
      PROVE  CwdInv'
  BY <1>8, OthersKeepCwd
     DEF mod_os_mkdir, mod_os_stat, mod_os_remove, mod_os_rename, mod_os_rmdir, mp_import_stat, history
<1>9. ASSUME NEW i \in Iter, listdir_next(i) \/ CollectIter(i) PROVE CwdInv'
  BY <1>9, OthersKeepCwd DEF listdir_next, CollectIter, history
<1>10. CASE Continue
  BY <1>10, OthersKeepCwd
     DEF Continue, RemoveFile, RemoveSubdir, EntryFails, RemoveSelf, Unwind, Exit, history
<1>11. CASE UNCHANGED vars
  BY <1>11, OthersKeepCwd DEF vars, history
<1> QED BY <1>1, <1>2, <1>3, <1>4, <1>5, <1>6, <1>7, <1>8, <1>9, <1>10, <1>11 DEF Next

\* After a chdir paths are relative to its directory (UsfFilePathNorm, usf.c:596-625), in
\* this script and in later ones, whatever the script and the file systems do, until the
\* user or a further chdir changes it.
THEOREM CwdLasts == Spec => []ChdirLasts
<1>1. Init => CwdInv
  BY DEF Init, CwdInv
<1>2. CwdInv => ChdirLasts
  BY DEF CwdInv, ChdirLasts
<1> QED BY <1>1, <1>2, StepKeepsCwd, PTL DEF Spec

-----------------------------------------------------------------------------
(* Types.                                                                   *)

DirRec == [h : Handle, x : Place, todo : SUBSET Place]
IterRec == [fh : Handle \cup {NULL}, at : Place \cup {NULL}]

\* What dropping and replacing the last call of remove_dir does to the calls.
LEMMA FrontFacts ==
  ASSUME NEW R, NEW d \in Seq(R), d # <<>>
  PROVE  /\ Front(d) \in Seq(R) /\ Len(Front(d)) = Len(d) - 1 /\ Len(d) \in Nat /\ Len(d) > 0
         /\ \A k \in 1..(Len(d) - 1) : Front(d)[k] = d[k]
         /\ Last(d) = d[Len(d)] /\ Last(d) \in R
<1>1. Len(d) \in Nat /\ Len(d) > 0 /\ \A k \in 1..Len(d) : d[k] \in R
  OBVIOUS
<1>2. Last(d) = d[Len(d)] /\ Last(d) \in R
  BY <1>1 DEF Last
<1>3. /\ SubSeq(d, 1, Len(d) - 1) \in Seq(R) /\ Len(SubSeq(d, 1, Len(d) - 1)) = Len(d) - 1
      /\ \A k \in 1..(Len(d) - 1) : SubSeq(d, 1, Len(d) - 1)[k] = d[k]
  <2> DEFINE n == Len(d) - 1
  <2>1. 1 \in Int /\ n \in Int /\ n >= 0 /\ \A k \in 1..n : d[k] \in R
    BY <1>1
  <2>2. /\ SubSeq(d, 1, n) \in Seq(R)
        /\ Len(SubSeq(d, 1, n)) = IF 1 <= n THEN n - 1 + 1 ELSE 0
        /\ \A k \in 1..(n - 1 + 1) : SubSeq(d, 1, n)[k] = d[1 + k - 1]
    BY <2>1, SubSeqProperties
  <2> HIDE DEF n
  <2>3. Len(SubSeq(d, 1, n)) = n /\ \A k \in 1..n : SubSeq(d, 1, n)[k] = d[k]
    BY <2>1, <2>2
  <2> QED BY <2>2, <2>3 DEF n
<1> QED BY <1>1, <1>2, <1>3 DEF Front

\* A new call of remove_dir leaves the others as they are.
LEMMA AppendFacts ==
  ASSUME NEW R, NEW d \in Seq(R), NEW e \in R
  PROVE  /\ Append(d, e) \in Seq(R) /\ Append(d, e) # <<>> /\ Len(Append(d, e)) = Len(d) + 1
         /\ \A k \in 1..Len(d) : Append(d, e)[k] = d[k]
         /\ Append(d, e)[Len(d) + 1] = e
OBVIOUS

\* NewHandle takes a handle that is free.
LEMMA NewIsFree ==
  ASSUME NEW taken, Free \ taken # {}
  PROVE  NewHandle(taken) \in Free \ taken
<1>1. \A T \in SUBSET Nat : T # {} => \E x \in T : \A y \in T : x <= y
  <2> SUFFICES ASSUME NEW T \in SUBSET Nat, T # {} PROVE \E x \in T : \A y \in T : x <= y
    OBVIOUS
  <2> DEFINE R == OpToRel(<, Nat)
  <2>1. IsWellFoundedOn(R, Nat)
    BY NatLessThanWellFounded
  <2>2. \A x, y \in Nat : x < y => <<x, y>> \in R
    BY DEF OpToRel
  <2> HIDE DEF R
  <2>3. PICK x \in T : \A y \in T : ~(<<y, x>> \in R)
    BY <2>1, WFMin, Zenon
  <2>4. \A y \in T : ~(y < x)
    BY <2>2, <2>3, Zenon
  <2>5. x \in Nat /\ \A y \in T : y \in Nat
    OBVIOUS
  <2>6. \A y \in T : x <= y
    BY <2>4, <2>5
  <2> QED BY <2>6
<1>2. Free \ taken \in SUBSET Nat
  BY SizeAssumption DEF Free, Handle
<1>3. \E h \in Free \ taken : \A k \in Free \ taken : h <= k
  BY <1>1, <1>2
<1> QED BY <1>3 DEF NewHandle

\* A place that UsfFilePathNorm returns is one of the volumes' places.
LEMMA NormIsPlace == \A p : UsfFilePathNorm(p) \in Place \cup {NULL}
BY DEF UsfFilePathNorm

\* UsfOpenRootByLabel leaves handles open, nothing else.
LEMMA LeftAreHandles == \A p, f : f \subseteq Handle => UsfOpenRootByLabel(p, f) \subseteq Handle
BY DEF UsfOpenRootByLabel

\* While remove_dir runs there is a call of it, whose handle its caller can close.
OsInv == /\ TypeOK
         /\ pc = "remove_dir" => dirs # <<>>
         /\ \A i \in Iter : it[i].at # NULL => it[i].fh \in Handle

\* The entries of a directory are places; a call of remove_dir goes on the end of the
\* calls, and taking an entry from the last one keeps their form.
LEMMA CallsTyped ==
  ASSUME OsInv
  PROVE  /\ \A x : Entries(x) \subseteq Place
         /\ \A d \in Seq(DirRec) : \A h \in Handle : \A x \in Place :
              Enter(h, x, d) => dirs' \in Seq(DirRec) /\ dirs' # <<>>
         /\ pc = "remove_dir" => \A x :
              LET d == Append(Front(dirs), [Top EXCEPT !.todo = @ \ {x}])
              IN d \in Seq(DirRec) /\ d # <<>>
         /\ pc = "remove_dir" => Top \in DirRec /\ Front(dirs) \in Seq(DirRec)
<1>1. \A x : Entries(x) \subseteq Place
  BY DEF Entries
<1>2. ASSUME NEW d \in Seq(DirRec), NEW h \in Handle, NEW x \in Place, Enter(h, x, d)
      PROVE  dirs' \in Seq(DirRec) /\ dirs' # <<>>
  <2>1. [h |-> h, x |-> x, todo |-> Entries(x)] \in DirRec
    BY <1>1 DEF DirRec
  <2> QED BY <1>2, <2>1, AppendFacts DEF Enter
<1>3. ASSUME pc = "remove_dir" PROVE Top \in DirRec /\ Front(dirs) \in Seq(DirRec)
  BY <1>3, FrontFacts DEF OsInv, TypeOK, Top, DirRec
<1>4. ASSUME pc = "remove_dir", NEW x
      PROVE  LET d == Append(Front(dirs), [Top EXCEPT !.todo = @ \ {x}])
             IN d \in Seq(DirRec) /\ d # <<>>
  <2>1. [Top EXCEPT !.todo = @ \ {x}] \in DirRec
    BY <1>3, <1>4 DEF DirRec
  <2> QED BY <1>3, <1>4, <2>1, AppendFacts
<1> QED BY <1>1, <1>2, <1>3, <1>4

\* Operations that only leave handles open.
LEMMA LeavesTyped ==
  ASSUME OsInv, UNCHANGED <<kind, cwd, frame, it, history>>,
         NEW hs \in SUBSET Handle, Leaves(hs)
  PROVE  OsInv'
BY DEF OsInv, TypeOK, Leaves, cwd, frame, history

\* Every operation, and every step of rmdir, keeps the ranges and the calls.
LEMMA OsStep == OsInv /\ [Next]_vars => OsInv'
<1> SUFFICES ASSUME OsInv, [Next]_vars PROVE OsInv'
  OBVIOUS
<1>a. /\ \A p : Left(p) \subseteq Handle
      /\ \A p : UsfOpenRootByLabel(p, Free \ Left(p)) \subseteq Handle
      /\ \A p : UsfOpen(p) => /\ NewHandle(Left(p)) \in Handle
                              /\ UsfFilePathNorm(p) \in Place
      /\ Free # {} => NewHandle({}) \in Handle
  <2>1. Free \subseteq Handle
    BY DEF Free
  <2>2. \A taken : Free \ taken # {} => NewHandle(taken) \in Handle
    BY <2>1, NewIsFree
  <2> QED BY <2>1, <2>2, LeftAreHandles, NormIsPlace DEF Left, UsfOpen, Found
<1>b. ImageDir \in Place /\ UsfGetCurrentDirectory \in Place \cup {NULL}
  BY PlaceAssumption DEF OsInv, TypeOK, UsfGetCurrentDirectory
<1>1. CASE StartScript \/ mod_os_getcwd
  BY <1>1, <1>b DEF StartScript, mod_os_getcwd, UsfChangeCurrentDirectory, OsInv, TypeOK, frame, history
<1>2. ASSUME NEW x \in Place, ShellCd(x) \/ FileAppears(x) PROVE OsInv'
  BY <1>2 DEF ShellCd, FileAppears, OsInv, TypeOK, frame, cwd, history
<1>3. ASSUME NEW p \in Paths, mod_os_mkdir(p) \/ mod_os_remove(p) PROVE OsInv'
  <2> DEFINE x == UsfFilePathNorm(p)
             again == UsfOpenRootByLabel(p, Free \ Left(p))
  <2>1. kind' = kind \/ \E y \in Place : \E k \in {"none", "dir"} : kind' = [kind EXCEPT ![y] = k]
    BY <1>3, <1>a, NormIsPlace DEF mod_os_mkdir, mod_os_remove
  <2>2. kind' \in [Place -> {"none", "file", "dir"}]
    BY <2>1 DEF OsInv, TypeOK
  <2>3. \E hs \in SUBSET Handle : Leaves(hs)
    <3>1. Left(p) \subseteq Handle /\ Left(p) \cup again \subseteq Handle
      BY <1>a
    <3> QED BY <1>3, <3>1 DEF mod_os_mkdir, mod_os_remove
  <2>4. UNCHANGED <<cwd, frame, it, history>>
    BY <1>3 DEF mod_os_mkdir, mod_os_remove
  <2> QED BY <2>2, <2>3, <2>4 DEF Leaves, OsInv, TypeOK, cwd, frame, history
<1>4. ASSUME NEW p \in Paths, mod_os_stat(p) \/ mp_import_stat(p) PROVE OsInv'
  <2>1. \E hs \in SUBSET Handle : Leaves(hs)
    BY <1>4, <1>a DEF mod_os_stat, mp_import_stat, RaisesMemoryError
  <2> QED BY <1>4, <2>1, LeavesTyped DEF mod_os_stat, mp_import_stat
<1>5. ASSUME NEW p \in Paths, mod_os_rename(p) PROVE OsInv'
  <2>1. \A x, y : Moved(x, y) \in [Place -> {"none", "file", "dir"}]
    BY DEF Moved, OsInv, TypeOK
  <2>2. kind' = kind \/ \E x, y : kind' = Moved(x, y)
    BY <1>5, Zenon DEF mod_os_rename
  <2>3. kind' \in [Place -> {"none", "file", "dir"}]
    <3>1. kind \in [Place -> {"none", "file", "dir"}]
      BY DEF OsInv, TypeOK
    <3> QED BY <2>1, <2>2, <3>1, Zenon
  <2> QED BY <1>5, <1>a, <2>3 DEF mod_os_rename, Leaves, OsInv, TypeOK, cwd, frame, history
<1>6. ASSUME NEW p \in Paths, mod_os_chdir(p) PROVE OsInv'
  BY <1>6, <1>a DEF mod_os_chdir, UsfChangeCurrentDirectory, Leaves, OsInv, TypeOK, frame
<1>7. ASSUME NEW p \in Paths, mod_os_listdir(p) PROVE OsInv'
  <2>1. \E hs \in SUBSET Handle : Leaves(hs)
    BY <1>7, <1>a DEF mod_os_listdir, RaisesMemoryError
  <2>2. open' \subseteq Handle /\ leaked' \subseteq Handle
    BY <2>1 DEF Leaves, OsInv, TypeOK
  <2>3. fault' = fault \/ fault' = "no_iterator"
    BY <1>7 DEF mod_os_listdir
  <2>4. CurrentDirectory' \in Place \cup {NULL}
    BY <1>7, <1>b DEF mod_os_listdir, OsInv, TypeOK
  <2>5. UNCHANGED <<kind, shell, ShellDir, frame, it, blame, wanted>>
    BY <1>7 DEF mod_os_listdir
  <2> QED BY <2>2, <2>3, <2>4, <2>5 DEF OsInv, TypeOK, frame
<1>8. ASSUME NEW p \in Paths, mod_os_rmdir(p) PROVE OsInv'
  <2>1. CASE pc' = "remove_dir" /\ UsfOpen(p)
             /\ Enter(NewHandle(Left(p)), UsfFilePathNorm(p), <<>>)
             /\ target' = UsfFilePathNorm(p) /\ fh' = NewHandle(Left(p))
             /\ open' = open \cup Left(p) \cup {NewHandle(Left(p))} /\ leaked' = leaked \cup Left(p)
    <3>1. dirs' \in Seq(DirRec) /\ dirs' # <<>>
      <4>1. <<>> \in Seq(DirRec)
        OBVIOUS
      <4> QED BY <1>a, <2>1, <4>1, CallsTyped
    <3> QED BY <1>8, <1>a, <2>1, <3>1 DEF mod_os_rmdir, OsInv, TypeOK, DirRec, cwd, history
  <2>2. CASE Leaves(Left(p)) /\ UNCHANGED <<pc, target, fh, dirs>>
    BY <1>8, <1>a, <2>2, LeavesTyped DEF mod_os_rmdir, frame
  <2> QED BY <1>8, <2>1, <2>2 DEF mod_os_rmdir
<1>9. ASSUME NEW p \in Paths, NEW i \in Iter, mod_os_ilistdir(i, p) PROVE OsInv'
  <2>1. it' \in [Iter -> IterRec]
    <3>1. UsfOpen(p) => [fh |-> NewHandle(Left(p)), at |-> UsfFilePathNorm(p)] \in IterRec
      BY <1>a DEF IterRec
    <3> QED BY <1>9, <3>1 DEF mod_os_ilistdir, OsInv, TypeOK, IterRec
  <2>2. \A j \in Iter : it'[j].at # NULL => it'[j].fh \in Handle
    <3>1. \A j \in Iter : it[j].at # NULL => it[j].fh \in Handle
      BY DEF OsInv
    <3>2. CASE it' = it
      BY <3>1, <3>2
    <3>3. CASE UsfOpen(p) /\ it' = [it EXCEPT ![i] = [fh |-> NewHandle(Left(p)), at |-> UsfFilePathNorm(p)]]
      <4>1. it \in [Iter -> IterRec] /\ NewHandle(Left(p)) \in Handle
        BY <1>a, <3>3 DEF OsInv, TypeOK, IterRec
      <4> QED BY <3>1, <3>3, <4>1
    <3> QED BY <1>9, <3>2, <3>3 DEF mod_os_ilistdir
  <2>3. open' \subseteq Handle /\ leaked' \subseteq Handle
    <3>1. open \subseteq Handle /\ leaked \subseteq Handle /\ Left(p) \subseteq Handle
          /\ (UsfOpen(p) => NewHandle(Left(p)) \in Handle)
      BY <1>a DEF OsInv, TypeOK
    <3> QED BY <1>9, <3>1 DEF mod_os_ilistdir, RaisesMemoryError, Leaves
  <2>4. UNCHANGED <<kind, shell, ShellDir, frame, history>> /\ CurrentDirectory' \in Place \cup {NULL}
    BY <1>9, <1>b DEF mod_os_ilistdir, OsInv, TypeOK
  <2> QED BY <2>1, <2>2, <2>3, <2>4 DEF OsInv, TypeOK, IterRec, frame, history
<1>10. ASSUME NEW i \in Iter, listdir_next(i) \/ CollectIter(i) PROVE OsInv'
  <2>0. it \in [Iter -> IterRec] /\ it[i] \in IterRec
    BY DEF OsInv, TypeOK, IterRec
  <2>1. CASE listdir_next(i)
    <3>1. [it[i] EXCEPT !.at = NULL] \in IterRec
      BY <2>0 DEF IterRec
    <3>2. it' \in [Iter -> IterRec]
      BY <2>0, <2>1, <3>1 DEF listdir_next
    <3>3. \A j \in Iter : it'[j].at # NULL => it'[j].fh \in Handle
      BY <2>0, <2>1 DEF listdir_next, OsInv, IterRec
    <3>4. /\ open' \subseteq Handle /\ fault' \in {"none", "closed_handle", "no_iterator"}
          /\ blame' \in {"none", "delete", "next"}
      BY <2>1 DEF listdir_next, Close, OsInv, TypeOK
    <3> QED BY <2>1, <3>2, <3>3, <3>4 DEF listdir_next, OsInv, TypeOK, IterRec, cwd, frame
  <2>2. CASE CollectIter(i)
    <3>1. NoIter \in IterRec
      BY DEF NoIter, IterRec
    <3>2. it' \in [Iter -> IterRec]
      BY <2>0, <2>2, <3>1 DEF CollectIter
    <3>3. \A j \in Iter : it'[j].at # NULL => it'[j].fh \in Handle
      BY <2>0, <2>2 DEF CollectIter, NoIter, OsInv
    <3>4. leaked' \subseteq Handle
      BY <2>2 DEF CollectIter, OsInv, TypeOK
    <3> QED BY <2>2, <3>2, <3>3, <3>4 DEF CollectIter, OsInv, TypeOK, IterRec, cwd, frame, history
  <2> QED BY <1>10, <2>1, <2>2
<1>11. CASE Continue
  <2>1. ASSUME NEW x \in Place, RemoveFile(x) PROVE OsInv'
    <3>1. dirs' \in Seq(DirRec) /\ dirs' # <<>>
      BY <2>1, CallsTyped DEF RemoveFile
    <3> QED BY <2>1, <3>1 DEF RemoveFile, OsInv, TypeOK, DirRec, cwd
  <2>2. ASSUME NEW x \in Place, RemoveSubdir(x) PROVE OsInv'
    <3>1. dirs' \in Seq(DirRec) /\ dirs' # <<>>
      <4>1. Append(Front(dirs), [Top EXCEPT !.todo = @ \ {x}]) \in Seq(DirRec)
        BY <2>2, CallsTyped DEF RemoveSubdir
      <4> QED BY <2>2, <1>a, <4>1, CallsTyped DEF RemoveSubdir
    <3> QED BY <2>2, <1>a, <3>1 DEF RemoveSubdir, OsInv, TypeOK, DirRec, cwd, history
  <2>3. ASSUME NEW x \in Place, EntryFails(x) PROVE OsInv'
    BY <2>3 DEF EntryFails, OsInv, TypeOK, cwd, history
  <2>4. CASE RemoveSelf
    <3>1. Top \in DirRec /\ Front(dirs) \in Seq(DirRec) /\ dirs \in Seq(DirRec) /\ dirs # <<>>
      BY <2>4, CallsTyped DEF RemoveSelf, OsInv, TypeOK, DirRec
    <3>2. PICK ok \in BOOLEAN : /\ Delete(Top.h, Top.x, ok)
                                /\ status' = IF ok THEN "ok" ELSE "warn"
                                /\ dirs' = IF ok THEN Front(dirs) ELSE dirs
                                /\ IF ok /\ Len(dirs) = 1 THEN pc' = "exit" /\ fh' = NULL
                                   ELSE UNCHANGED <<pc, fh>>
      BY <2>4 DEF RemoveSelf
    <3>3. dirs' \in Seq(DirRec) /\ (pc' = "remove_dir" => dirs' # <<>>)
      <4>1. Len(Front(dirs)) = Len(dirs) - 1 /\ Len(dirs) \in Nat
        BY <3>1, FrontFacts
      <4> QED BY <2>4, <3>1, <3>2, <4>1 DEF RemoveSelf
    <3>4. kind' \in [Place -> {"none", "file", "dir"}] /\ open' \subseteq Handle
          /\ fault' \in {"none", "closed_handle", "no_iterator"} /\ blame' \in {"none", "delete", "next"}
      BY <3>1, <3>2 DEF Delete, Close, OsInv, TypeOK, DirRec
    <3> QED BY <2>4, <3>2, <3>3, <3>4 DEF RemoveSelf, OsInv, TypeOK, DirRec, cwd
  <2>5. CASE Unwind
    <3>1. Front(dirs) \in Seq(DirRec) /\ Len(Front(dirs)) = Len(dirs) - 1 /\ Len(dirs) \in Nat
      BY <2>5, FrontFacts DEF Unwind, OsInv, TypeOK, DirRec
    <3>2. dirs' \in Seq(DirRec) /\ (pc' = "remove_dir" => dirs' # <<>>)
      BY <2>5, <3>1 DEF Unwind
    <3> QED BY <2>5, <3>2 DEF Unwind, Close, OsInv, TypeOK, DirRec, cwd
  <2>6. CASE Exit
    BY <2>6 DEF Exit, Close, OsInv, TypeOK, cwd
  <2> QED BY <1>11, <2>1, <2>2, <2>3, <2>4, <2>5, <2>6 DEF Continue
<1>12. CASE UNCHANGED vars
  BY <1>12 DEF vars, OsInv, TypeOK, cwd, frame, history
<1>13. ASSUME NEW p \in Paths,
              mod_os_mkdir(p) \/ mod_os_stat(p) \/ mod_os_remove(p) \/ mod_os_rename(p)
              \/ mod_os_chdir(p) \/ mod_os_rmdir(p) \/ mp_import_stat(p) \/ mod_os_listdir(p)
       PROVE  OsInv'
  BY <1>3, <1>4, <1>5, <1>6, <1>7, <1>8, <1>13, Zenon
<1> QED BY <1>1, <1>2, <1>9, <1>10, <1>11, <1>12, <1>13, ZenonT(60) DEF Next

\* Every variable of the os module keeps its range on volumes of any shape, and the calls
\* of remove_dir (modos.c:499) each have a handle and a place of their own.
THEOREM OsTyped == Spec => []TypeOK
<1>1. Init => OsInv
  BY PlaceAssumption DEF Init, OsInv, TypeOK, NoIter
<1>2. OsInv => TypeOK
  BY DEF OsInv
<1> QED BY <1>1, <1>2, OsStep, PTL DEF Spec

-----------------------------------------------------------------------------
(* Handles.                                                                 *)

\* Handles that are left open, or are taken by a new one, were free before.
LEMMA TakenAreFree ==
  /\ \A p : Left(p) \subseteq Free
  /\ \A p : UsfOpenRootByLabel(p, Free \ Left(p)) \subseteq Free
  /\ \A p : UsfOpen(p) => NewHandle(Left(p)) \in Free \ Left(p)
  /\ Free # {} => NewHandle({}) \in Free
<1>1. \A p, f : UsfOpenRootByLabel(p, f) \subseteq f
  BY DEF UsfOpenRootByLabel
<1> QED BY <1>1, NewIsFree DEF Left, UsfOpen

\* Operations that leave handles open which nothing refers to.
LEMMA LeavesHandles ==
  ASSUME OsInv, HandleInv, UNCHANGED <<frame, it, blame>>,
         fault' = "closed_handle" => fault = "closed_handle",
         NEW hs \in SUBSET Free, Leaves(hs)
  PROVE  HandleInv'
<1>1. RmdirFrame' /\ RmdirHandles' = RmdirHandles /\ IterHandles' = IterHandles
  BY DEF HandleInv, RmdirFrame, RmdirHandles, IterHandles, frame
<1>2. ASSUME blame = "none" PROVE open' = RmdirHandles' \cup IterHandles' \cup leaked'
  BY <1>1, <1>2 DEF HandleInv, Leaves
<1>3. ASSUME blame = "none" PROVE HandlesDistinct'
  <2>1. hs \cap (RmdirHandles \cup IterHandles) = {}
    BY <1>3 DEF HandleInv, Free
  <2> HIDE DEF RmdirHandles, IterHandles
  <2> QED BY <1>1, <1>3, <2>1 DEF HandleInv, HandlesDistinct, Leaves, frame
<1> QED BY <1>1, <1>2, <1>3 DEF HandleInv

\* Operations that touch no handle at all.
LEMMA NoHandles ==
  ASSUME HandleInv, UNCHANGED <<open, leaked, frame, it, blame, fault>>
  PROVE  HandleInv'
<1>1. RmdirFrame' /\ RmdirHandles' = RmdirHandles /\ IterHandles' = IterHandles
  BY DEF HandleInv, RmdirFrame, RmdirHandles, IterHandles, frame
<1>2. HandlesDistinct => HandlesDistinct'
  BY <1>1 DEF HandlesDistinct, frame
<1> QED BY <1>1, <1>2 DEF HandleInv

\* The first call of remove_dir: rmdir's handle is a new one.
LEMMA RmdirHandle ==
  ASSUME OsInv, HandleInv, NEW p \in Paths, mod_os_rmdir(p)
  PROVE  HandleInv'
<1> DEFINE h == NewHandle(Left(p))
           x == UsfFilePathNorm(p)
<1>1. CASE Leaves(Left(p)) /\ UNCHANGED <<pc, target, fh, dirs>>
  BY <1>1, TakenAreFree, LeavesHandles DEF mod_os_rmdir, history, frame
<1>2. CASE /\ UsfOpen(p) /\ open' = open \cup Left(p) \cup {h} /\ leaked' = leaked \cup Left(p)
           /\ pc' = "remove_dir" /\ fh' = h /\ Enter(h, x, <<>>)
  <2>1. h \in Free \ Left(p) /\ Left(p) \subseteq Free /\ h # NULL
    BY <1>2, TakenAreFree, SizeAssumption DEF Free
  <2>2. dirs' = <<[h |-> h, x |-> x, todo |-> Entries(x)]>>
    BY <1>2 DEF Enter
  <2>3. Len(dirs') = 1 /\ dirs'[1].h = h /\ dirs' # <<>>
    BY <2>2
  <2>4. RmdirHandles' = {h} /\ IterHandles' = IterHandles /\ it' = it /\ blame' = blame /\ fault' = fault
    <3>1. 1..Len(dirs') = {1}
      BY <2>3
    <3> HIDE DEF h
    <3> QED BY <1>2, <2>1, <2>3, <3>1 DEF RmdirHandles, IterHandles, mod_os_rmdir, history
  <2>5. RmdirHandles = {}
    BY DEF mod_os_rmdir, Idle, HandleInv, RmdirFrame, RmdirHandles
  <2>6. RmdirFrame'
    BY <1>2, <2>3 DEF RmdirFrame
  <2> HIDE DEF h
  <2>7. ASSUME blame = "none" PROVE open' = RmdirHandles' \cup IterHandles' \cup leaked'
    BY <1>2, <2>4, <2>5, <2>7 DEF HandleInv
  <2>8. ASSUME blame = "none" PROVE HandlesDistinct'
    <3>1. \A j, k \in 1..Len(dirs') : j = k
      BY <2>3
    <3>2. /\ (leaked \cup Left(p) \cup {h}) \cap IterHandles = {}
          /\ h \notin leaked \cup Left(p)
      BY <2>1, <2>8 DEF HandleInv, HandlesDistinct, Free
    <3> QED BY <1>2, <2>4, <2>8, <3>1, <3>2 DEF HandleInv, HandlesDistinct
  <2> QED BY <2>4, <2>6, <2>7, <2>8 DEF HandleInv
<1> QED BY <1>1, <1>2 DEF mod_os_rmdir

\* ilistdir: its iterator gets a new handle.
LEMMA ListHandle ==
  ASSUME OsInv, HandleInv, NEW p \in Paths, NEW i \in Iter, mod_os_ilistdir(i, p)
  PROVE  HandleInv'
<1> DEFINE h == NewHandle(Left(p))
           x == UsfFilePathNorm(p)
<1>1. CASE UsfOpenFails(p) /\ Leaves(Left(p)) /\ it' = it
  BY <1>1, TakenAreFree, LeavesHandles DEF mod_os_ilistdir, history
<1>3. CASE RaisesMemoryError(p) /\ it' = it
  <2>1. Left(p) \cup {NewHandle(Left(p))} \subseteq Free
    BY <1>3, TakenAreFree DEF RaisesMemoryError
  <2>2. Leaves(Left(p) \cup {NewHandle(Left(p))})
    BY <1>3 DEF RaisesMemoryError
  <2> QED BY <1>3, <2>1, <2>2, LeavesHandles DEF mod_os_ilistdir, history
<1>2. CASE /\ UsfOpen(p) /\ it' = [it EXCEPT ![i] = [fh |-> h, at |-> x]]
           /\ open' = open \cup Left(p) \cup {h} /\ leaked' = leaked \cup Left(p)
  <2>1. h \in Free \ Left(p) /\ Left(p) \subseteq Free
    BY <1>2, TakenAreFree
  <2>2. x # NULL
    BY <1>2 DEF UsfOpen, Found
  <2>3. it \in [Iter -> IterRec] /\ it[i].at = NULL
    <3>1. it \in [Iter -> IterRec]
      BY DEF OsInv, TypeOK, IterRec
    <3>2. it[i] = NoIter
      BY DEF mod_os_ilistdir
    <3> QED BY <3>1, <3>2 DEF NoIter
  <2> HIDE DEF h, x
  <2>4. /\ it'[i].at # NULL /\ it'[i].fh = h
        /\ \A j \in Iter : j # i => it'[j] = it[j]
    BY <1>2, <2>2, <2>3
  <2>5. IterHandles' = IterHandles \cup {h}
    BY <2>3, <2>4 DEF IterHandles
  <2>6. RmdirFrame' /\ RmdirHandles' = RmdirHandles /\ dirs' = dirs /\ blame' = blame /\ fault' = fault
    BY DEF mod_os_ilistdir, HandleInv, RmdirFrame, RmdirHandles, frame, history
  <2>7. ASSUME blame = "none" PROVE open' = RmdirHandles' \cup IterHandles' \cup leaked'
    BY <1>2, <2>5, <2>6, <2>7 DEF HandleInv
  <2>8. ASSUME blame = "none" PROVE HandlesDistinct'
    <3>1. /\ (leaked \cup Left(p)) \cap (RmdirHandles \cup IterHandles \cup {h}) = {}
          /\ RmdirHandles \cap (IterHandles \cup {h}) = {}
          /\ h \notin IterHandles
      BY <2>1, <2>8 DEF HandleInv, HandlesDistinct, Free
    <3>2. \A j \in Iter : it[j].at # NULL => it[j].fh # h
      BY <3>1 DEF IterHandles
    <3>3. \A j, k \in Iter : it'[j].at # NULL /\ it'[k].at # NULL /\ it'[j].fh = it'[k].fh => j = k
      <4>1. \A j, k \in Iter : it[j].at # NULL /\ it[k].at # NULL /\ it[j].fh = it[k].fh => j = k
        BY <2>8 DEF HandleInv, HandlesDistinct
      <4> QED BY <2>4, <3>2, <4>1
    <3> QED BY <1>2, <2>5, <2>6, <2>8, <3>1, <3>3 DEF HandleInv, HandlesDistinct
  <2> QED BY <2>6, <2>7, <2>8 DEF HandleInv
<1> QED BY <1>1, <1>2, <1>3 DEF mod_os_ilistdir

\* An iterator that ends, or is collected, gives up its handle.
LEMMA IterGivesUp ==
  ASSUME OsInv, HandleInv, NEW i \in Iter, it[i].at # NULL,
         NEW rec, rec.at = NULL, it' = [it EXCEPT ![i] = rec], UNCHANGED <<frame, blame, fault>>,
         \/ open' = open \ {it[i].fh} /\ leaked' = leaked
         \/ open' = open /\ leaked' = leaked \cup {it[i].fh}
  PROVE  HandleInv'
<1> DEFINE h == it[i].fh
<1>1. it \in [Iter -> IterRec] /\ h \in IterHandles
  BY DEF OsInv, TypeOK, IterRec, IterHandles
<1>2. it'[i].at = NULL /\ \A j \in Iter : j # i => it'[j] = it[j]
  BY <1>1
<1>3. RmdirFrame' /\ RmdirHandles' = RmdirHandles /\ dirs' = dirs
  BY DEF HandleInv, RmdirFrame, RmdirHandles, frame
<1>4. ASSUME blame = "none"
      PROVE  open' = RmdirHandles' \cup IterHandles' \cup leaked' /\ HandlesDistinct'
  <2>1. \A j \in Iter : it[j].at # NULL /\ it[j].fh = h => j = i
    BY <1>4 DEF HandleInv, HandlesDistinct
  <2>2. IterHandles' = IterHandles \ {h}
    BY <1>2, <2>1 DEF IterHandles
  <2> HIDE DEF h
  <2>3. h \notin RmdirHandles /\ h \notin leaked
    BY <1>1, <1>4 DEF HandleInv, HandlesDistinct
  <2>4. open' = RmdirHandles' \cup IterHandles' \cup leaked'
    BY <1>1, <1>3, <1>4, <2>2, <2>3 DEF HandleInv, h
  <2>5. \A j, k \in Iter : it'[j].at # NULL /\ it'[k].at # NULL /\ it'[j].fh = it'[k].fh => j = k
    <3>1. \A j, k \in Iter : it[j].at # NULL /\ it[k].at # NULL /\ it[j].fh = it[k].fh => j = k
      BY <1>4 DEF HandleInv, HandlesDistinct
    <3> QED BY <1>2, <3>1
  <2>6. /\ RmdirHandles' \cap IterHandles' = {}
        /\ leaked' \cap (RmdirHandles' \cup IterHandles') = {}
    <3>1. RmdirHandles \cap IterHandles = {} /\ leaked \cap (RmdirHandles \cup IterHandles) = {}
      BY <1>4 DEF HandleInv, HandlesDistinct
    <3>2. leaked' \subseteq leaked \cup {h}
      BY DEF h
    <3> QED BY <1>3, <2>2, <2>3, <3>1, <3>2
  <2> QED BY <1>3, <1>4, <2>4, <2>5, <2>6 DEF HandleInv, HandlesDistinct
<1> QED BY <1>3, <1>4 DEF HandleInv

\* The steps of an iterator after its first.
LEMMA IterHandlesStep ==
  ASSUME OsInv, HandleInv, NEW i \in Iter, listdir_next(i) \/ CollectIter(i)
  PROVE  HandleInv'
<1>0. it \in [Iter -> IterRec] /\ it[i] \in IterRec
  BY DEF OsInv, TypeOK, IterRec
<1>1. CASE listdir_next(i)
  <2>1. CASE UNCHANGED <<open, fault, blame, it>>
    BY <1>1, <2>1, NoHandles DEF listdir_next
  <2>2. CASE it[i].at # NULL /\ Close(it[i].fh) /\ it' = [it EXCEPT ![i].at = NULL] /\ blame' = blame
    <3> DEFINE rec == [it[i] EXCEPT !.at = NULL]
    <3>1. rec.at = NULL /\ it' = [it EXCEPT ![i] = rec]
      BY <1>0, <2>2 DEF IterRec
    <3>2. CASE blame = "none"
      <4>1. it[i].fh \in open
        BY <2>2, <3>2 DEF HandleInv, IterHandles
      <4> HIDE DEF rec
      <4> QED BY <1>1, <2>2, <3>1, <4>1, IterGivesUp DEF listdir_next, Close
    <3>3. CASE blame # "none"
      BY <1>1, <2>2, <3>3 DEF listdir_next, HandleInv, RmdirFrame, frame
    <3> QED BY <3>2, <3>3
  <2>3. CASE blame' = "next"
    BY <1>1, <2>3 DEF listdir_next, HandleInv, RmdirFrame, frame
  <2> QED BY <1>1, <2>1, <2>2, <2>3 DEF listdir_next
<1>2. CASE CollectIter(i)
  <2>1. NoIter.at = NULL
    BY DEF NoIter
  <2>2. CASE it[i].at # NULL
    BY <1>2, <2>1, <2>2, IterGivesUp DEF CollectIter, history
  <2>3. CASE it[i].at = NULL
    <3>1. UNCHANGED <<open, leaked, frame, blame, fault>>
      BY <1>2, <2>3 DEF CollectIter, history
    <3>2. \A j \in Iter : it'[j].at # NULL <=> it[j].at # NULL
      BY <1>0, <1>2, <2>1, <2>3 DEF CollectIter
    <3>3. \A j \in Iter : it[j].at # NULL => it'[j] = it[j]
      BY <1>0, <1>2, <2>3 DEF CollectIter
    <3>4. IterHandles' = IterHandles
      BY <3>2, <3>3 DEF IterHandles
    <3>5. RmdirFrame' /\ RmdirHandles' = RmdirHandles
      BY <3>1 DEF HandleInv, RmdirFrame, RmdirHandles, frame
    <3> QED BY <3>1, <3>2, <3>3, <3>4, <3>5 DEF HandleInv, HandlesDistinct, frame
  <2> QED BY <2>2, <2>3
<1> QED BY <1>1, <1>2

\* What the calls of remove_dir are while it runs.
LEMMA CallFacts ==
  ASSUME OsInv, HandleInv, pc = "remove_dir"
  PROVE  /\ dirs \in Seq(DirRec) /\ dirs # <<>> /\ Len(dirs) \in Nat /\ Len(dirs) >= 1
         /\ fh = dirs[1].h /\ fh # NULL /\ Top = dirs[Len(dirs)]
         /\ \A k \in 1..Len(dirs) : dirs[k].h \in Handle /\ dirs[k].h # NULL
         /\ Front(dirs) \in Seq(DirRec) /\ Len(Front(dirs)) = Len(dirs) - 1
         /\ \A k \in 1..(Len(dirs) - 1) : Front(dirs)[k] = dirs[k]
         /\ RmdirHandles = {dirs[k].h : k \in 1..Len(dirs)}
<1>1. dirs \in Seq(DirRec) /\ dirs # <<>> /\ fh = dirs[1].h
  BY DEF OsInv, TypeOK, DirRec, HandleInv, RmdirFrame
<1>2. Len(dirs) \in Nat /\ Len(dirs) >= 1 /\ \A k \in 1..Len(dirs) : dirs[k] \in DirRec
  BY <1>1
<1>3. \A k \in 1..Len(dirs) : dirs[k].h \in Handle /\ dirs[k].h # NULL
  BY <1>2, SizeAssumption DEF DirRec
<1>4. RmdirHandles = {dirs[k].h : k \in 1..Len(dirs)}
  <2>1. 1 \in 1..Len(dirs)
    BY <1>2
  <2> QED BY <1>1, <2>1 DEF RmdirHandles
<1>5. fh # NULL
  BY <1>1, <1>2, <1>3
<1> QED BY <1>1, <1>2, <1>3, <1>4, <1>5, FrontFacts DEF Top

\* Taking an entry from the last call leaves the handles of all calls as they are.
LEMMA TakeEntry ==
  ASSUME OsInv, HandleInv, pc = "remove_dir", NEW x, NEW d,
         d = Append(Front(dirs), [Top EXCEPT !.todo = @ \ {x}])
  PROVE  /\ d \in Seq(DirRec) /\ d # <<>> /\ Len(d) = Len(dirs)
         /\ \A k \in 1..Len(dirs) : d[k].h = dirs[k].h /\ d[k].x = dirs[k].x
         /\ \A k \in 1..Len(dirs) : d[k].todo \subseteq dirs[k].todo
<1> DEFINE e == [Top EXCEPT !.todo = @ \ {x}]
<1>1. Top \in DirRec
  BY CallsTyped
<1>2. e \in DirRec /\ e.h = Top.h /\ e.x = Top.x /\ e.todo \subseteq Top.todo
  BY <1>1 DEF DirRec
<1> HIDE DEF e
<1>3. d = Append(Front(dirs), e)
  BY DEF e
<1>4. /\ d \in Seq(DirRec) /\ d # <<>> /\ Len(d) = Len(dirs)
      /\ \A k \in 1..(Len(dirs) - 1) : d[k] = dirs[k]
      /\ d[Len(dirs)] = e
  BY <1>2, <1>3, CallFacts, AppendFacts
<1>5. \A k \in 1..Len(dirs) : k \in 1..(Len(dirs) - 1) \/ k = Len(dirs)
  BY CallFacts
<1> QED BY <1>2, <1>4, <1>5, CallFacts

\* RemoveFile changes no handle, unless Delete fails.
LEMMA FileHandles ==
  ASSUME OsInv, HandleInv, NEW x \in Place, RemoveFile(x)
  PROVE  HandleInv'
<1>1. pc = "remove_dir" /\ UNCHANGED <<pc, fh, it, open, leaked>>
  BY DEF RemoveFile
<1>2. /\ dirs' # <<>> /\ Len(dirs') = Len(dirs) /\ dirs' \in Seq(DirRec)
      /\ \A k \in 1..Len(dirs) : dirs'[k].h = dirs[k].h
  BY <1>1, TakeEntry DEF RemoveFile
<1>3. RmdirFrame'
  BY <1>1, <1>2, CallFacts DEF RmdirFrame
<1>4. CASE blame' # "none"
  BY <1>3, <1>4 DEF HandleInv
<1>5. CASE UNCHANGED <<fault, blame>>
  <2>1. RmdirHandles' = RmdirHandles /\ IterHandles' = IterHandles
    BY <1>1, <1>2 DEF RmdirHandles, IterHandles
  <2>2. HandlesDistinct => HandlesDistinct'
    BY <1>1, <1>2, <2>1 DEF HandlesDistinct
  <2> QED BY <1>1, <1>3, <1>5, <2>1, <2>2 DEF HandleInv
<1> QED BY <1>4, <1>5 DEF RemoveFile

\* A new call of remove_dir has a new handle.
LEMMA SubdirHandles ==
  ASSUME OsInv, HandleInv, NEW x \in Place, RemoveSubdir(x)
  PROVE  HandleInv'
<1> DEFINE d == Append(Front(dirs), [Top EXCEPT !.todo = @ \ {x}])
           h == NewHandle({})
           e == [h |-> h, x |-> x, todo |-> Entries(x)]
<1>1. pc = "remove_dir" /\ UNCHANGED <<pc, fh, it, leaked, fault, blame>> /\ open' = open \cup {h}
  BY DEF RemoveSubdir, history
<1>2. /\ d \in Seq(DirRec) /\ Len(d) = Len(dirs)
      /\ \A k \in 1..Len(dirs) : d[k].h = dirs[k].h
  BY <1>1, TakeEntry
<1>3. h \in Free /\ h \in Handle
  BY TakenAreFree DEF RemoveSubdir, Free
<1>4. e \in DirRec /\ e.h = h
  BY <1>3, CallsTyped DEF DirRec
<1>5. dirs' = Append(d, e)
  BY DEF RemoveSubdir, Enter
<1> HIDE DEF d, h, e
<1>6. /\ dirs' \in Seq(DirRec) /\ dirs' # <<>> /\ Len(dirs') = Len(dirs) + 1 /\ Len(dirs) \in Nat
      /\ dirs'[Len(dirs) + 1].h = h
      /\ \A k \in 1..Len(dirs) : dirs'[k].h = dirs[k].h
  BY <1>1, <1>2, <1>4, <1>5, AppendFacts, CallFacts
<1>7. \A k \in 1..Len(dirs') : k \in 1..Len(dirs) \/ k = Len(dirs) + 1
  BY <1>6
<1>8. RmdirFrame'
  BY <1>1, <1>6, CallFacts DEF RmdirFrame
<1>9. RmdirHandles' = RmdirHandles \cup {h} /\ IterHandles' = IterHandles
  <2>1. {dirs'[k].h : k \in 1..Len(dirs')} = {dirs[k].h : k \in 1..Len(dirs)} \cup {h}
    BY <1>6, <1>7
  <2> QED BY <1>1, <2>1 DEF RmdirHandles, IterHandles
<1>10. ASSUME blame = "none" PROVE HandlesDistinct' /\ open' = RmdirHandles' \cup IterHandles' \cup leaked'
  <2>1. h \notin RmdirHandles /\ h \notin IterHandles /\ h \notin leaked
    BY <1>3, <1>10 DEF HandleInv, Free
  <2>2. \A k \in 1..Len(dirs) : dirs[k].h # h
    BY <2>1 DEF RmdirHandles
  <2>3. \A j, k \in 1..Len(dirs) : dirs[j].h = dirs[k].h => j = k
    BY <1>10 DEF HandleInv, HandlesDistinct
  <2>4. \A j, k \in 1..Len(dirs') : dirs'[j].h = dirs'[k].h => j = k
    BY <1>6, <1>7, <2>2, <2>3
  <2>5. open' = RmdirHandles' \cup IterHandles' \cup leaked'
    BY <1>1, <1>9, <1>10 DEF HandleInv
  <2> QED BY <1>1, <1>9, <1>10, <2>1, <2>4, <2>5 DEF HandleInv, HandlesDistinct
<1> QED BY <1>1, <1>8, <1>10 DEF HandleInv

\* The last call but the first returns, and its handle is closed: by Delete or by its
\* caller.
LEMMA CallReturns ==
  ASSUME OsInv, HandleInv, pc = "remove_dir", Len(dirs) # 1, dirs' = Front(dirs),
         UNCHANGED <<pc, fh, it, leaked, blame>>, Close(Top.h)
  PROVE  HandleInv'
<1> DEFINE h == Top.h
           n == Len(dirs)
<1>1. /\ n \in Nat /\ n >= 2 /\ Len(dirs') = n - 1 /\ h = dirs[n].h /\ dirs' \in Seq(DirRec)
      /\ \A k \in 1..(n - 1) : dirs'[k] = dirs[k]
  BY CallFacts
<1>2. RmdirFrame'
  <2>1. dirs' # <<>> /\ dirs'[1] = dirs[1]
    BY <1>1
  <2> QED BY <2>1, CallFacts DEF RmdirFrame
<1>3. ASSUME blame = "none"
      PROVE  /\ HandlesDistinct' /\ open' = RmdirHandles' \cup IterHandles' \cup leaked'
             /\ fault' # "closed_handle"
  <2>1. \A j, k \in 1..n : dirs[j].h = dirs[k].h => j = k
    BY <1>3 DEF HandleInv, HandlesDistinct
  <2> HIDE DEF h, n
  <2>2. h \in RmdirHandles /\ \A k \in 1..(n - 1) : dirs[k].h # h
    BY <1>1, <2>1, CallFacts DEF h, n
  <2>3. {dirs'[k].h : k \in 1..Len(dirs')} = {dirs[k].h : k \in 1..n} \ {h}
    <3>1. 1..Len(dirs') = 1..(n - 1) /\ \A k \in 1..n : k \in 1..(n - 1) \/ k = n
      BY <1>1
    <3>2. \A k \in 1..(n - 1) : k \in 1..n
      BY <1>1
    <3> QED BY <1>1, <2>2, <3>1, <3>2
  <2>4. RmdirHandles' = RmdirHandles \ {h}
    <3>1. fh \in {dirs'[k].h : k \in 1..Len(dirs')}
      <4>1. 1 \in 1..Len(dirs') /\ dirs'[1] = dirs[1]
        BY <1>1
      <4> QED BY <4>1, CallFacts
    <3> QED BY <2>3, <3>1, CallFacts DEF RmdirHandles, n
  <2>5. IterHandles' = IterHandles
    BY DEF IterHandles
  <2>6. /\ open = RmdirHandles \cup IterHandles \cup leaked
        /\ RmdirHandles \cap IterHandles = {} /\ leaked \cap (RmdirHandles \cup IterHandles) = {}
        /\ fault # "closed_handle"
    BY <1>3 DEF HandleInv, HandlesDistinct
  <2>7. open' = open \ {h} /\ fault' # "closed_handle"
    BY <2>2, <2>6 DEF Close, h
  <2>8. \A j, k \in 1..Len(dirs') : dirs'[j].h = dirs'[k].h => j = k
    BY <1>1, <2>1
  <2>9. open' = RmdirHandles' \cup IterHandles' \cup leaked'
    BY <2>2, <2>4, <2>5, <2>6, <2>7
  <2> QED BY <1>3, <2>4, <2>5, <2>6, <2>7, <2>8, <2>9 DEF HandleInv, HandlesDistinct
<1> QED BY <1>2, <1>3 DEF HandleInv

\* While one call of remove_dir is left, or none, rmdir has one handle or none.
LEMMA OneHandle ==
  ASSUME OsInv, HandleInv
  PROVE  /\ pc = "remove_dir" /\ Len(dirs) = 1 => RmdirHandles = {fh} /\ Top.h = fh /\ Front(dirs) = <<>>
         /\ pc = "exit" => RmdirHandles = {fh} \ {NULL} /\ dirs = <<>>
         /\ \A d : d = <<>> => {d[k].h : k \in 1..Len(d)} = {}
<1>1. ASSUME pc = "remove_dir", Len(dirs) = 1
      PROVE  RmdirHandles = {fh} /\ Top.h = fh /\ Front(dirs) = <<>>
  <2>1. 1..Len(dirs) = {1}
    BY <1>1
  <2>2. Front(dirs) \in Seq(DirRec) /\ Len(Front(dirs)) = 0
    BY <1>1, CallFacts
  <2> QED BY <1>1, <2>1, <2>2, CallFacts
<1>2. \A d : d = <<>> => {d[k].h : k \in 1..Len(d)} = {}
  OBVIOUS
<1> QED BY <1>1, <1>2 DEF HandleInv, RmdirFrame, RmdirHandles

\* The handle of the only call is closed, or was closed before rmdir ends.
LEMMA LastHandle ==
  ASSUME OsInv, HandleInv, RmdirHandles = {fh}, dirs' = <<>>, fh' = NULL, pc' \in {"idle", "exit"},
         UNCHANGED <<it, leaked, blame>>, Close(fh)
  PROVE  HandleInv'
<1>1. RmdirFrame'
  BY DEF RmdirFrame
<1>2. RmdirHandles' = {} /\ IterHandles' = IterHandles
  BY OneHandle DEF RmdirHandles, IterHandles
<1>3. ASSUME blame = "none"
      PROVE  /\ HandlesDistinct' /\ open' = RmdirHandles' \cup IterHandles' \cup leaked'
             /\ fault' # "closed_handle"
  <2>1. /\ open = RmdirHandles \cup IterHandles \cup leaked
        /\ RmdirHandles \cap IterHandles = {} /\ leaked \cap (RmdirHandles \cup IterHandles) = {}
        /\ fault # "closed_handle"
    BY <1>3 DEF HandleInv, HandlesDistinct
  <2>2. open' = open \ {fh} /\ fault' # "closed_handle"
    BY <2>1 DEF Close
  <2>3. \A j, k \in 1..Len(dirs') : dirs'[j].h = dirs'[k].h => j = k
    OBVIOUS
  <2> QED BY <1>2, <1>3, <2>1, <2>2, <2>3 DEF HandleInv, HandlesDistinct
<1> QED BY <1>1, <1>3 DEF HandleInv

\* A call of remove_dir deletes its directory and returns.
LEMMA SelfHandles ==
  ASSUME OsInv, HandleInv, RemoveSelf
  PROVE  HandleInv'
<1>0. pc = "remove_dir" /\ UNCHANGED <<it, leaked>>
  BY DEF RemoveSelf
<1>1. PICK ok \in BOOLEAN : /\ Delete(Top.h, Top.x, ok)
                            /\ dirs' = IF ok THEN Front(dirs) ELSE dirs
                            /\ IF ok /\ Len(dirs) = 1 THEN pc' = "exit" /\ fh' = NULL
                               ELSE UNCHANGED <<pc, fh>>
  BY DEF RemoveSelf
<1>2. CASE ok
  <2>1. Close(Top.h) /\ blame' = blame
    BY <1>1, <1>2 DEF Delete
  <2>2. CASE Len(dirs) = 1
    BY <1>0, <1>1, <1>2, <2>1, <2>2, OneHandle, LastHandle
  <2>3. CASE Len(dirs) # 1
    BY <1>0, <1>1, <1>2, <2>1, <2>3, CallReturns
  <2> QED BY <2>2, <2>3
<1>3. CASE ~ok
  <2>1. blame' # "none"
    BY <1>1, <1>3 DEF Delete
  <2> QED BY <1>1, <1>3, <2>1 DEF HandleInv, RmdirFrame
<1> QED BY <1>2, <1>3

\* A call of remove_dir that failed returns to its caller, the first one to rmdir.
LEMMA UnwindHandles ==
  ASSUME OsInv, HandleInv, Unwind
  PROVE  HandleInv'
<1>0. pc = "remove_dir" /\ dirs' = Front(dirs) /\ UNCHANGED <<it, leaked, fh, blame>>
  BY DEF Unwind
<1>1. CASE Len(dirs) # 1
  BY <1>0, <1>1, CallReturns DEF Unwind
<1>2. CASE Len(dirs) = 1
  <2>1. pc' = "exit" /\ UNCHANGED <<open, fault>>
    BY <1>2 DEF Unwind
  <2>2. RmdirHandles = {fh} /\ dirs' = <<>> /\ fh # NULL
    BY <1>0, <1>2, OneHandle, CallFacts
  <2>3. RmdirHandles' = RmdirHandles /\ IterHandles' = IterHandles
    BY <1>0, <2>2, OneHandle DEF RmdirHandles, IterHandles
  <2>4. RmdirFrame'
    BY <2>1, <2>2 DEF RmdirFrame
  <2>5. HandlesDistinct => HandlesDistinct'
    <3>1. \A j, k \in 1..Len(dirs') : dirs'[j].h = dirs'[k].h => j = k
      BY <2>2
    <3> QED BY <1>0, <2>3, <3>1 DEF HandlesDistinct
  <2> QED BY <1>0, <2>1, <2>3, <2>4, <2>5 DEF HandleInv
<1> QED BY <1>1, <1>2

\* CLOSE_FILE at the end of rmdir.
LEMMA ExitHandles ==
  ASSUME OsInv, HandleInv, Exit
  PROVE  HandleInv'
<1>0. pc = "exit" /\ pc' = "idle" /\ fh' = NULL /\ UNCHANGED <<it, leaked, dirs, blame>>
  BY DEF Exit
<1>1. CASE fh # NULL
  <2>1. RmdirHandles = {fh} /\ dirs' = <<>> /\ Close(fh)
    BY <1>0, <1>1, OneHandle DEF Exit
  <2> QED BY <1>0, <2>1, LastHandle
<1>2. CASE fh = NULL
  <2>1. RmdirHandles' = RmdirHandles /\ IterHandles' = IterHandles /\ UNCHANGED <<open, fault>>
    BY <1>0, <1>2 DEF RmdirHandles, IterHandles, Exit
  <2>2. RmdirFrame'
    BY <1>0, OneHandle DEF RmdirFrame
  <2>3. HandlesDistinct => HandlesDistinct'
    BY <1>0, <2>1 DEF HandlesDistinct
  <2> QED BY <1>0, <2>1, <2>2, <2>3 DEF HandleInv
<1> QED BY <1>1, <1>2

\* Every step keeps the owners of the handles apart.
LEMMA HandleStep == OsInv /\ HandleInv /\ [Next]_vars => HandleInv'
<1> SUFFICES ASSUME OsInv, HandleInv, [Next]_vars PROVE HandleInv'
  OBVIOUS
<1>1. CASE StartScript \/ mod_os_getcwd \/ \E x \in Place : ShellCd(x) \/ FileAppears(x)
  BY <1>1, NoHandles DEF StartScript, mod_os_getcwd, ShellCd, FileAppears, history
<1>2. ASSUME NEW p \in Paths,
             \/ mod_os_mkdir(p) \/ mod_os_stat(p) \/ mod_os_remove(p) \/ mod_os_rename(p)
             \/ mod_os_chdir(p) \/ mp_import_stat(p) \/ mod_os_listdir(p)
      PROVE  HandleInv'
  <2> DEFINE again == UsfOpenRootByLabel(p, Free \ Left(p))
  <2>1. Left(p) \subseteq Free /\ again \subseteq Free /\ (UsfOpen(p) => NewHandle(Left(p)) \in Free)
    BY TakenAreFree
  <2>2. PICK hs \in SUBSET Free : Leaves(hs)
    <3>1. \/ Leaves(Left(p)) \/ Leaves(Left(p) \cup again)
          \/ UsfOpen(p) /\ Leaves(Left(p) \cup {NewHandle(Left(p))})
      BY <1>2 DEF mod_os_mkdir, mod_os_stat, mod_os_remove, mod_os_rename, mod_os_chdir,
                  mp_import_stat, mod_os_listdir, RaisesMemoryError
    <3> HIDE DEF again
    <3> QED BY <2>1, <3>1
  <2>3. /\ UNCHANGED <<frame, it, blame>>
        /\ fault' = "closed_handle" => fault = "closed_handle"
    BY <1>2 DEF mod_os_mkdir, mod_os_stat, mod_os_remove, mod_os_rename, mod_os_chdir,
                mp_import_stat, mod_os_listdir, history
  <2> QED BY <2>2, <2>3, LeavesHandles
<1>3. ASSUME NEW p \in Paths, mod_os_rmdir(p) PROVE HandleInv'
  BY <1>3, RmdirHandle
<1>4. ASSUME NEW p \in Paths, NEW i \in Iter, mod_os_ilistdir(i, p) PROVE HandleInv'
  BY <1>4, ListHandle
<1>5. ASSUME NEW i \in Iter, listdir_next(i) \/ CollectIter(i) PROVE HandleInv'
  BY <1>5, IterHandlesStep
<1>6. CASE Continue
  <2>1. ASSUME NEW x \in Place, EntryFails(x) PROVE HandleInv'
    <3>1. RmdirFrame' /\ RmdirHandles' = RmdirHandles /\ IterHandles' = IterHandles
      BY <2>1 DEF EntryFails, HandleInv, RmdirFrame, RmdirHandles, IterHandles
    <3>2. HandlesDistinct => HandlesDistinct'
      BY <2>1, <3>1 DEF EntryFails, HandlesDistinct
    <3> QED BY <2>1, <3>1, <3>2 DEF EntryFails, HandleInv, history
  <2> QED BY <1>6, <2>1, FileHandles, SubdirHandles, SelfHandles, UnwindHandles, ExitHandles DEF Continue
<1>7. CASE UNCHANGED vars
  BY <1>7, NoHandles DEF vars, history
<1> QED BY <1>1, <1>2, <1>3, <1>4, <1>5, <1>6, <1>7 DEF Next

\* A script that has opened nothing.
LEMMA InitHandles == Init => OsInv /\ HandleInv
<1>1. Init => OsInv
  BY PlaceAssumption DEF Init, OsInv, TypeOK, NoIter
<1>2. ASSUME Init PROVE HandleInv
  <2>1. IterHandles = {} /\ \A i \in Iter : it[i].at = NULL
    BY <1>2 DEF Init, NoIter, IterHandles
  <2>2. RmdirHandles = {} /\ dirs = <<>>
    BY <1>2 DEF Init, RmdirHandles
  <2>3. HandlesDistinct
    BY <1>2, <2>1, <2>2 DEF Init, HandlesDistinct
  <2> QED BY <1>2, <2>1, <2>2, <2>3 DEF Init, HandleInv, RmdirFrame
<1> QED BY <1>1, <1>2

\* Closed handles are used only after a Delete that failed and by next() on an iterator
\* that has ended (modos.c:545, 640), on volumes of any shape, whatever fails and however
\* deep the directories are that rmdir removes; until then every open handle has exactly
\* one owner or is a known leak, allocations that raise and labels that no volume has
\* included.
THEOREM HandlesSafe == Spec => [](HandleUse /\ HandlesAccounted)
<1>1. Init => OsInv /\ HandleInv
  BY InitHandles
<1>2. OsInv /\ HandleInv => HandleUse /\ HandlesAccounted
  <2> SUFFICES ASSUME OsInv, HandleInv PROVE HandleUse /\ HandlesAccounted
    OBVIOUS
  <2>1. HandleUse
    BY DEF HandleInv, HandleUse
  <2>2. ASSUME blame = "none"
        PROVE  open = (({fh} \cup {dirs[k].h : k \in DOMAIN dirs})
                        \cup {it[i].fh : i \in {j \in Iter : it[j].at # NULL}} \cup leaked) \ {NULL}
    <3>1. open = RmdirHandles \cup IterHandles \cup leaked
      BY <2>2 DEF HandleInv
    <3>2. NULL \notin open
      BY SizeAssumption DEF OsInv, TypeOK
    <3>3. DOMAIN dirs = 1..Len(dirs)
      <4>1. dirs \in Seq(DirRec)
        BY DEF OsInv, TypeOK, DirRec
      <4> QED BY <4>1, LenProperties
    <3> QED BY <3>1, <3>2, <3>3 DEF RmdirHandles, IterHandles
  <2>3. HandlesAccounted
    BY <2>2 DEF HandlesAccounted
  <2> QED BY <2>1, <2>3
<1> QED BY <1>1, <1>2, OsStep, HandleStep, PTL DEF Spec

\* Every open handle of the os module has one owner, a call of remove_dir or an iterator
\* (modos.c:499-590, 600-660), or is one of the leaks that HandlesAccounted names, as long
\* as no closed one was used.
THEOREM HandlesOwned == Spec => []HandlesAccounted
BY HandlesSafe, PTL

-----------------------------------------------------------------------------
(* What rmdir removes.                                                      *)

\* Places are sequences, and what is above a place is one, too.
LEMMA PlaceFacts ==
  /\ \A x \in Place : x \in Seq(Names) /\ Len(x) \in Nat /\ Len(x) >= 1
  /\ \A x \in Place : \A n \in 1..Len(x) : SubSeq(x, 1, n) \in Place
<1>1. \A x \in Place : x \in Seq(Names) /\ Len(x) > 0
  BY PlaceAssumption
<1>2. \A x \in Place : Len(x) \in Nat
  BY <1>1, LenProperties
<1> QED BY <1>1, <1>2, PlaceAssumption

\* Under, element by element.
LEMMA UnderFacts ==
  ASSUME NEW x \in Seq(Names), NEW y \in Seq(Names)
  PROVE  Under(x, y) <=> Len(y) <= Len(x) /\ \A k \in 1..Len(y) : x[k] = y[k]
<1>1. Len(x) \in Nat /\ Len(y) \in Nat
  BY LenProperties
<1>2. SubSeq(y, 1, Len(y)) = y
  <2>1. /\ SubSeq(y, 1, Len(y)) \in Seq(Names) /\ Len(SubSeq(y, 1, Len(y))) = Len(y)
        /\ \A k \in 1..Len(y) : SubSeq(y, 1, Len(y))[k] = y[k]
    <3>1. \A k \in 1..Len(y) : y[k] \in Names
      BY ElementOfSeq
    <3>2. /\ SubSeq(y, 1, Len(y)) \in Seq(Names)
          /\ Len(SubSeq(y, 1, Len(y))) = IF 1 <= Len(y) THEN Len(y) - 1 + 1 ELSE 0
          /\ \A k \in 1..(Len(y) - 1 + 1) : SubSeq(y, 1, Len(y))[k] = y[1 + k - 1]
      BY <1>1, <3>1, SubSeqProperties
    <3> QED BY <1>1, <3>2
  <2> QED BY <2>1, SeqEqual
<1>3. ASSUME Len(y) <= Len(x)
      PROVE  /\ SubSeq(x, 1, Len(y)) \in Seq(Names) /\ Len(SubSeq(x, 1, Len(y))) = Len(y)
             /\ \A k \in 1..Len(y) : SubSeq(x, 1, Len(y))[k] = x[k]
  <2>1. \A k \in 1..Len(y) : x[k] \in Names
    <3>1. \A k \in 1..Len(y) : k \in 1..Len(x)
      BY <1>1, <1>3
    <3> QED BY <3>1, ElementOfSeq
  <2>2. /\ SubSeq(x, 1, Len(y)) \in Seq(Names)
        /\ Len(SubSeq(x, 1, Len(y))) = IF 1 <= Len(y) THEN Len(y) - 1 + 1 ELSE 0
        /\ \A k \in 1..(Len(y) - 1 + 1) : SubSeq(x, 1, Len(y))[k] = x[1 + k - 1]
    BY <1>1, <2>1, SubSeqProperties
  <2> QED BY <1>1, <2>2
<1>4. ASSUME Len(y) <= Len(x), \A k \in 1..Len(y) : x[k] = y[k]
      PROVE  y = SubSeq(x, 1, Len(y))
  BY <1>3, <1>4, SeqEqual
<1>5. ASSUME Len(y) <= Len(x), y = SubSeq(x, 1, Len(y))
      PROVE  \A k \in 1..Len(y) : x[k] = y[k]
  BY <1>3, <1>5
<1> QED BY <1>2, <1>4, <1>5 DEF Under, IsPrefix

\* What is above a place is a place.
LEMMA AbovePlace ==
  ASSUME NEW x \in Place, NEW y \in Seq(Names), Len(y) >= 1, Under(x, y)
  PROVE  y \in Place
<1>1. Len(y) \in Nat /\ Len(x) \in Nat /\ Len(y) <= Len(x)
  BY PlaceFacts, LenProperties DEF Under, IsPrefix
<1>2. SubSeq(x, 1, Len(y)) \in Place
  BY <1>1, PlaceFacts
<1>3. SubSeq(x, 1, Len(y)) = y
  <2>1. \A k \in 1..Len(y) : x[k] = y[k] /\ x[k] \in Names
    <3>1. \A k \in 1..Len(y) : x[k] = y[k]
      BY PlaceFacts, UnderFacts
    <3>2. \A k \in 1..Len(y) : y[k] \in Names
      BY ElementOfSeq
    <3> QED BY <3>1, <3>2
  <2>2. /\ SubSeq(x, 1, Len(y)) \in Seq(Names)
        /\ Len(SubSeq(x, 1, Len(y))) = IF 1 <= Len(y) THEN Len(y) - 1 + 1 ELSE 0
        /\ \A k \in 1..(Len(y) - 1 + 1) : SubSeq(x, 1, Len(y))[k] = x[1 + k - 1]
    BY <1>1, <2>1, SubSeqProperties
  <2>3. Len(SubSeq(x, 1, Len(y))) = Len(y) /\ \A k \in 1..Len(y) : SubSeq(x, 1, Len(y))[k] = y[k]
    BY <1>1, <2>1, <2>2
  <2> QED BY <2>2, <2>3, SeqEqual
<1> QED BY <1>2, <1>3

\* The order of places.
LEMMA UnderOrder ==
  /\ \A x \in Place : Under(x, x)
  /\ \A x, y, z \in Place : Under(x, y) /\ Under(y, z) => Under(x, z)
  /\ \A x, y, z \in Place : Under(z, x) /\ Under(z, y) => Under(x, y) \/ Under(y, x)
  /\ \A x, y \in Place : Under(x, y) /\ Len(x) = Len(y) => x = y
  /\ \A x, y \in Place : Under(x, y) => Len(y) <= Len(x)
  /\ \A x, y \in Place : Under(x, y) /\ x # y => Len(y) < Len(x)
<1>1. \A x \in Place : x \in Seq(Names) /\ Len(x) \in Nat
  BY PlaceFacts
<1>2. \A x, y \in Place : Under(x, y) <=> Len(y) <= Len(x) /\ \A k \in 1..Len(y) : x[k] = y[k]
  BY <1>1, UnderFacts
<1>3. \A x \in Place : Under(x, x)
  BY <1>1, <1>2
<1>4. ASSUME NEW x \in Place, NEW y \in Place, NEW z \in Place, Under(x, y), Under(y, z)
      PROVE  Under(x, z)
  <2>1. Len(z) <= Len(y) /\ Len(y) <= Len(x)
    BY <1>2, <1>4
  <2>2. \A k \in 1..Len(z) : x[k] = y[k] /\ y[k] = z[k]
    <3>1. \A k \in 1..Len(z) : k \in 1..Len(y)
      BY <1>1, <2>1
    <3> QED BY <1>2, <1>4, <3>1
  <2> QED BY <1>1, <1>2, <2>1, <2>2
<1>5. ASSUME NEW x \in Place, NEW y \in Place, NEW z \in Place, Under(z, x), Under(z, y), Len(x) <= Len(y)
      PROVE  Under(y, x)
  <2>1. \A k \in 1..Len(x) : k \in 1..Len(y)
    BY <1>1, <1>5
  <2>2. \A k \in 1..Len(x) : y[k] = x[k]
    BY <1>2, <1>5, <2>1
  <2> QED BY <1>2, <1>5, <2>2
<1>6. \A x, y \in Place : Len(x) <= Len(y) \/ Len(y) <= Len(x)
  BY <1>1
<1>7. ASSUME NEW x \in Place, NEW y \in Place, Under(x, y), Len(x) = Len(y)
      PROVE  x = y
  BY <1>1, <1>2, <1>7, SeqEqual
<1>8. \A x, y \in Place : Under(x, y) => Len(y) <= Len(x)
  BY <1>2
<1>9. \A x, y \in Place : Under(x, y) /\ x # y => Len(y) < Len(x)
  BY <1>1, <1>7, <1>8
<1> QED BY <1>3, <1>4, <1>5, <1>6, <1>7, <1>8, <1>9

\* Between a place and one above it there is a child of the latter; and the directory
\* of a place is next above it.
LEMMA Between ==
  ASSUME NEW x \in Place, NEW y \in Place, Under(x, y), x # y
  PROVE  /\ \E c \in Place : Len(c) = Len(y) + 1 /\ Under(c, y) /\ Under(x, c)
         /\ Front(x) \in Place /\ Under(Front(x), y)
<1>1. /\ x \in Seq(Names) /\ y \in Seq(Names) /\ Len(x) \in Nat /\ Len(y) \in Nat
      /\ Len(y) >= 1 /\ Len(y) < Len(x)
  BY PlaceFacts, UnderOrder
<1>2. ASSUME NEW n \in 1..Len(x), Len(y) <= n
      PROVE  LET c == SubSeq(x, 1, n)
             IN c \in Place /\ Len(c) = n /\ Under(c, y) /\ Under(x, c)
  <2> DEFINE c == SubSeq(x, 1, n)
  <2>1. c \in Place /\ c \in Seq(Names)
    BY PlaceFacts
  <2>2. Len(c) = n /\ \A k \in 1..n : c[k] = x[k]
    <3>1. \A k \in 1..n : x[k] \in Names
      <4>1. \A k \in 1..n : k \in 1..Len(x)
        BY <1>1
      <4> QED BY <1>1, <4>1, ElementOfSeq
    <3>2. /\ Len(SubSeq(x, 1, n)) = IF 1 <= n THEN n - 1 + 1 ELSE 0
          /\ \A k \in 1..(n - 1 + 1) : SubSeq(x, 1, n)[k] = x[1 + k - 1]
      <4>1. n \in Int
        BY <1>1
      <4> QED BY <3>1, <4>1, SubSeqProperties
    <3> QED BY <1>1, <3>2
  <2> HIDE DEF c
  <2>3. \A k \in 1..Len(y) : x[k] = y[k]
    BY <1>1, UnderFacts
  <2>4. Under(c, y)
    <3>1. \A k \in 1..Len(y) : k \in 1..n
      BY <1>1, <1>2
    <3>2. \A k \in 1..Len(y) : c[k] = y[k]
      BY <2>2, <2>3, <3>1
    <3> QED BY <1>1, <1>2, <2>1, <2>2, <3>2, UnderFacts
  <2>5. Under(x, c)
    <3>1. n <= Len(x)
      BY <1>1
    <3> QED BY <1>1, <2>1, <2>2, <3>1, UnderFacts
  <2> QED BY <2>1, <2>2, <2>4, <2>5 DEF c
<1>3. Len(y) + 1 \in 1..Len(x) /\ Len(y) <= Len(y) + 1
  BY <1>1
<1>4. Len(x) - 1 \in 1..Len(x) /\ Len(y) <= Len(x) - 1
  BY <1>1
<1> QED BY <1>2, <1>3, <1>4 DEF Front

\* What follows from the tree for one place.
LEMMA TreeFacts ==
  ASSUME OsInv, Tree, NEW x \in Place
  PROVE  /\ kind[x] # "dir" => \A z \in Place : Under(z, x) /\ z # x => kind[z] = "none"
         /\ Entries(x) = {} => \A z \in Place : Under(z, x) /\ z # x => kind[z] = "none"
         /\ Len(x) > 1 /\ kind[Front(x)] = "dir" =>
              \A y \in Place : Under(x, y) /\ x # y => kind[y] = "dir"
<1>1. ASSUME Entries(x) = {}, NEW z \in Place, Under(z, x), z # x, kind[z] # "none" PROVE FALSE
  <2>1. PICK c \in Place : Len(c) = Len(x) + 1 /\ Under(c, x) /\ Under(z, c)
    BY <1>1, Between
  <2>2. kind[c] # "none"
    BY <1>1, <2>1 DEF Tree
  <2> QED BY <1>1, <2>1, <2>2 DEF Entries
<1>2. ASSUME kind[Front(x)] = "dir", NEW y \in Place, Under(x, y), x # y PROVE kind[y] = "dir"
  <2>1. Front(x) \in Place /\ Under(Front(x), y)
    BY <1>2, Between
  <2> QED BY <1>2, <2>1 DEF Tree
<1>3. ASSUME kind[x] # "dir", NEW z \in Place, Under(z, x), z # x PROVE kind[z] = "none"
  BY <1>3 DEF Tree
<1> QED BY <1>1, <1>2, <1>3

\* A place without anything below it is emptied; one whose directory exists is filled.
LEMMA TreeChanges ==
  ASSUME OsInv, Tree, NEW x \in Place, NEW k, kind' = [kind EXCEPT ![x] = k],
         \/ k = "none" /\ (kind[x] # "dir" \/ Entries(x) = {})
         \/ Len(x) > 1 /\ kind[Front(x)] = "dir" /\ (k = "dir" \/ kind[x] # "dir")
  PROVE  Tree'
<1>0. kind'[x] = k /\ \A y \in Place : y # x => kind'[y] = kind[y]
  BY DEF OsInv, TypeOK
<1> SUFFICES ASSUME NEW u \in Place, NEW v \in Place, Under(u, v), u # v, kind'[u] # "none"
             PROVE  kind'[v] = "dir"
  BY DEF Tree
<1>1. CASE u # x /\ v # x
  BY <1>0, <1>1 DEF Tree
<1>2. CASE u = x
  BY <1>0, <1>2, TreeFacts
<1>3. CASE v = x
  <2>1. u # x /\ kind[u] # "none"
    BY <1>0, <1>3
  <2>2. kind[x] = "dir" /\ Entries(x) # {}
    BY <1>3, <2>1, TreeFacts
  <2> QED BY <1>0, <1>3, <2>2
<1> QED BY <1>1, <1>2, <1>3

\* Where a place below y comes from, when x is moved to y.
Old(x, y, z) == x \o SubSeq(z, Len(y) + 1, Len(z))

LEMMA OldFacts ==
  ASSUME NEW x \in Place, NEW y \in Place, NEW z \in Place, Under(z, y)
  PROVE  /\ Old(x, y, z) \in Seq(Names) /\ Len(Old(x, y, z)) = Len(x) + Len(z) - Len(y)
         /\ \A k \in 1..Len(x) : Old(x, y, z)[k] = x[k]
         /\ \A k \in (Len(x) + 1)..(Len(x) + Len(z) - Len(y)) :
              Old(x, y, z)[k] = z[k - Len(x) + Len(y)]
<1> DEFINE s == SubSeq(z, Len(y) + 1, Len(z))
<1>1. /\ x \in Seq(Names) /\ Len(x) \in Nat /\ Len(y) \in Nat /\ Len(z) \in Nat
      /\ Len(y) <= Len(z) /\ z \in Seq(Names)
  BY PlaceFacts, UnderOrder
<1>2. \A k \in (Len(y) + 1)..Len(z) : z[k] \in Names
  <2>1. \A k \in (Len(y) + 1)..Len(z) : k \in 1..Len(z)
    BY <1>1
  <2> QED BY <1>1, <2>1, ElementOfSeq
<1>3. /\ s \in Seq(Names)
      /\ Len(s) = IF Len(y) + 1 <= Len(z) THEN Len(z) - (Len(y) + 1) + 1 ELSE 0
      /\ \A k \in 1..(Len(z) - (Len(y) + 1) + 1) : s[k] = z[(Len(y) + 1) + k - 1]
  <2>1. Len(y) + 1 \in Int /\ Len(z) \in Int
    BY <1>1
  <2> QED BY <1>2, <2>1, SubSeqProperties
<1> HIDE DEF s
<1>4. Len(s) = Len(z) - Len(y) /\ \A k \in 1..(Len(z) - Len(y)) : s[k] = z[Len(y) + k]
  BY <1>1, <1>3
<1>5. /\ x \o s \in Seq(Names) /\ Len(x \o s) = Len(x) + Len(s)
      /\ \A k \in 1..(Len(x) + Len(s)) : (x \o s)[k] = IF k <= Len(x) THEN x[k] ELSE s[k - Len(x)]
  BY <1>1, <1>3, ConcatProperties
<1>6. \A k \in (Len(x) + 1)..(Len(x) + Len(z) - Len(y)) : (x \o s)[k] = z[k - Len(x) + Len(y)]
  <2> TAKE k \in (Len(x) + 1)..(Len(x) + Len(z) - Len(y))
  <2>1. /\ k \in 1..(Len(x) + Len(s)) /\ ~(k <= Len(x)) /\ k - Len(x) \in 1..(Len(z) - Len(y))
        /\ Len(y) + (k - Len(x)) = k - Len(x) + Len(y)
    BY <1>1, <1>4
  <2> QED BY <1>4, <1>5, <2>1
<1>7. \A k \in 1..Len(x) : (x \o s)[k] = x[k]
  BY <1>1, <1>4, <1>5
<1> QED BY <1>4, <1>5, <1>6, <1>7 DEF Old, s

\* What was above a place before it was moved, and what is above it now.
LEMMA OldAbove ==
  ASSUME NEW x \in Place, NEW y \in Place, NEW z \in Place, NEW w \in Place,
         Under(z, w), Under(w, y), w # z, Old(x, y, z) \in Place
  PROVE  /\ Old(x, y, w) \in Place /\ Under(Old(x, y, z), Old(x, y, w))
         /\ Old(x, y, w) # Old(x, y, z)
<1> DEFINE oz == Old(x, y, z)
           ow == Old(x, y, w)
<1>1. /\ Len(x) \in Nat /\ Len(y) \in Nat /\ Len(z) \in Nat /\ Len(w) \in Nat
      /\ Len(x) >= 1 /\ Len(y) <= Len(w) /\ Len(w) < Len(z) /\ Under(z, y)
  BY PlaceFacts, UnderOrder
<1>2. /\ oz \in Seq(Names) /\ Len(oz) = Len(x) + Len(z) - Len(y)
      /\ \A k \in 1..Len(x) : oz[k] = x[k]
      /\ \A k \in (Len(x) + 1)..(Len(x) + Len(z) - Len(y)) : oz[k] = z[k - Len(x) + Len(y)]
  BY <1>1, OldFacts
<1>3. /\ ow \in Seq(Names) /\ Len(ow) = Len(x) + Len(w) - Len(y)
      /\ \A k \in 1..Len(x) : ow[k] = x[k]
      /\ \A k \in (Len(x) + 1)..(Len(x) + Len(w) - Len(y)) : ow[k] = w[k - Len(x) + Len(y)]
  BY OldFacts
<1> HIDE DEF oz, ow
<1>4. \A k \in 1..Len(w) : z[k] = w[k]
  BY PlaceFacts, UnderFacts
<1>5. \A k \in 1..Len(ow) : oz[k] = ow[k]
  <2> TAKE k \in 1..Len(ow)
  <2>1. CASE k <= Len(x)
    BY <1>1, <1>2, <1>3, <2>1
  <2>2. CASE ~(k <= Len(x))
    <3>1. /\ k \in (Len(x) + 1)..(Len(x) + Len(w) - Len(y))
          /\ k \in (Len(x) + 1)..(Len(x) + Len(z) - Len(y))
          /\ k - Len(x) + Len(y) \in 1..Len(w)
      BY <1>1, <1>3, <2>2
    <3> QED BY <1>2, <1>3, <1>4, <3>1
  <2> QED BY <2>1, <2>2
<1>6. Len(ow) < Len(oz) /\ Len(ow) <= Len(oz) /\ Len(ow) >= 1
  BY <1>1, <1>2, <1>3
<1>7. Under(oz, ow)
  BY <1>2, <1>3, <1>5, <1>6, UnderFacts
<1>8. ow \in Place
  BY <1>3, <1>6, <1>7, AbovePlace DEF oz
<1>9. ow # oz
  BY <1>1, <1>2, <1>3
<1> QED BY <1>7, <1>8, <1>9 DEF oz, ow

\* A move keeps the tree: the place it goes to is free, in a directory, and not in what
\* is moved.
LEMMA MoveKeepsTree ==
  ASSUME OsInv, Tree, NEW x \in Place, NEW y \in Place, Len(y) > 1, ~Under(y, x),
         kind[Front(y)] = "dir", kind' = Moved(x, y)
  PROVE  Tree'
<1>0. \A z \in Place :
        kind'[z] = IF Under(z, y)
                   THEN IF Old(x, y, z) \in Place THEN kind[Old(x, y, z)] ELSE "none"
                   ELSE IF Under(z, x) THEN "none" ELSE kind[z]
  BY DEF Moved, Old
<1> SUFFICES ASSUME NEW z \in Place, NEW w \in Place, Under(z, w), z # w, kind'[z] # "none"
             PROVE  kind'[w] = "dir"
  BY DEF Tree
<1>1. CASE Under(z, y) /\ Under(w, y)
  <2>1. Old(x, y, z) \in Place /\ kind[Old(x, y, z)] # "none"
    BY <1>0, <1>1
  <2>2. /\ Old(x, y, w) \in Place /\ Under(Old(x, y, z), Old(x, y, w))
        /\ Old(x, y, w) # Old(x, y, z)
    BY <1>1, <2>1, OldAbove
  <2>3. kind[Old(x, y, w)] = "dir"
    BY <2>1, <2>2 DEF Tree
  <2> QED BY <1>0, <1>1, <2>2, <2>3
<1>2. CASE Under(z, y) /\ ~Under(w, y)
  <2>1. Under(y, w) /\ y # w
    BY <1>2, UnderOrder
  <2>2. ~Under(w, x)
    BY <2>1, UnderOrder
  <2>3. kind[w] = "dir"
    BY <2>1, TreeFacts
  <2> QED BY <1>0, <1>2, <2>2, <2>3
<1>3. CASE ~Under(z, y)
  <2>1. ~Under(w, y) /\ ~Under(z, x) /\ ~Under(w, x)
    BY <1>0, <1>3, UnderOrder
  <2>2. kind[z] # "none"
    BY <1>0, <1>3, <2>1
  <2> QED BY <1>0, <2>1, <2>2 DEF Tree
<1> QED BY <1>1, <1>2, <1>3

\* Every step keeps the tree.
LEMMA TreeStep == OsInv /\ Tree /\ [Next]_vars => Tree'
<1> SUFFICES ASSUME OsInv, Tree, [Next]_vars PROVE Tree'
  OBVIOUS
<1>0. ASSUME kind' = kind PROVE Tree'
  BY <1>0 DEF Tree
<1>a. \A p : UsfFilePathNorm(p) \in Place \cup {NULL} /\ (UsfOpen(p) => UsfFilePathNorm(p) \in Place)
  BY NormIsPlace DEF UsfOpen, Found
<1>1. CASE StartScript \/ mod_os_getcwd
  BY <1>0, <1>1 DEF StartScript, mod_os_getcwd
<1>2. ASSUME NEW x \in Place, ShellCd(x) \/ FileAppears(x) PROVE Tree'
  <2>1. CASE ShellCd(x)
    BY <1>0, <2>1 DEF ShellCd
  <2>2. CASE FileAppears(x)
    <3>1. /\ kind' = [kind EXCEPT ![x] = "file"] /\ kind[x] # "dir"
          /\ Len(x) > 1 /\ kind[Front(x)] = "dir"
      BY <2>2 DEF FileAppears
    <3> QED BY <3>1, TreeChanges
  <2> QED BY <1>2, <2>1, <2>2
<1>3. ASSUME NEW p \in Paths, mod_os_mkdir(p) PROVE Tree'
  <2>1. \/ kind' = kind
        \/ \E x \in Place : /\ Len(x) > 1 /\ kind[Front(x)] = "dir"
                            /\ kind' = [kind EXCEPT ![x] = "dir"]
    BY <1>3, <1>a DEF mod_os_mkdir
  <2> QED BY <1>0, <2>1, TreeChanges
<1>4. ASSUME NEW p \in Paths, mod_os_remove(p) PROVE Tree'
  <2>1. \/ kind' = kind
        \/ \E x \in Place : kind[x] # "dir" /\ kind' = [kind EXCEPT ![x] = "none"]
    BY <1>4, <1>a DEF mod_os_remove
  <2> QED BY <1>0, <2>1, TreeChanges
<1>5. ASSUME NEW p \in Paths, mod_os_rename(p) PROVE Tree'
  <2>1. \/ kind' = kind
        \/ \E x, y \in Place : /\ Len(y) > 1 /\ ~Under(y, x) /\ kind[Front(y)] = "dir"
                               /\ kind' = Moved(x, y)
    BY <1>5, <1>a, Zenon DEF mod_os_rename
  <2> QED BY <1>0, <2>1, MoveKeepsTree
<1>6. ASSUME NEW p \in Paths,
             mod_os_stat(p) \/ mod_os_chdir(p) \/ mod_os_rmdir(p) \/ mp_import_stat(p) \/ mod_os_listdir(p)
      PROVE  Tree'
  BY <1>0, <1>6 DEF mod_os_stat, mod_os_chdir, mod_os_rmdir, mp_import_stat, mod_os_listdir
<1>7. ASSUME NEW p \in Paths, NEW i \in Iter, mod_os_ilistdir(i, p) PROVE Tree'
  BY <1>0, <1>7 DEF mod_os_ilistdir
<1>8. ASSUME NEW i \in Iter, listdir_next(i) \/ CollectIter(i) PROVE Tree'
  BY <1>0, <1>8 DEF listdir_next, CollectIter
<1>9. CASE Continue
  <2>1. ASSUME NEW x \in Place, RemoveFile(x) PROVE Tree'
    <3>1. kind' = kind \/ (kind[x] # "dir" /\ kind' = [kind EXCEPT ![x] = "none"])
      BY <2>1 DEF RemoveFile
    <3> QED BY <1>0, <3>1, TreeChanges
  <2>2. ASSUME NEW x \in Place, RemoveSubdir(x) \/ EntryFails(x) PROVE Tree'
    BY <1>0, <2>2 DEF RemoveSubdir, EntryFails
  <2>3. CASE RemoveSelf
    <3>1. Top.x \in Place
      BY <2>3, CallsTyped DEF RemoveSelf, DirRec
    <3>2. kind' = kind \/ (Entries(Top.x) = {} /\ kind' = [kind EXCEPT ![Top.x] = "none"])
      BY <2>3 DEF RemoveSelf, Delete
    <3> QED BY <1>0, <3>1, <3>2, TreeChanges
  <2>4. CASE Unwind \/ Exit
    BY <1>0, <2>4 DEF Unwind, Exit
  <2> QED BY <1>9, <2>1, <2>2, <2>3, <2>4 DEF Continue
<1>10. CASE UNCHANGED vars
  BY <1>0, <1>10 DEF vars
<1> QED BY <1>1, <1>2, <1>3, <1>4, <1>5, <1>6, <1>7, <1>8, <1>9, <1>10 DEF Next

\* Every step keeps the calls of remove_dir on their levels, and ends rmdir with success
\* only when nothing is left.
LEMMA LevelStep == OsInv /\ HandleInv /\ TreeInv /\ [Next]_vars => Levels' /\ RmdirComplete'
<1> SUFFICES ASSUME OsInv, HandleInv, TreeInv, [Next]_vars PROVE Levels' /\ RmdirComplete'
  OBVIOUS
<1>0. ASSUME pc' = "idle" PROVE Levels' /\ RmdirComplete'
  BY <1>0 DEF Levels, RmdirComplete
<1>1. CASE \/ StartScript \/ mod_os_getcwd \/ \E x \in Place : ShellCd(x) \/ FileAppears(x)
           \/ \E p \in Paths : \/ mod_os_mkdir(p) \/ mod_os_stat(p) \/ mod_os_remove(p)
                               \/ mod_os_rename(p) \/ mod_os_chdir(p) \/ mp_import_stat(p)
                               \/ mod_os_listdir(p) \/ \E i \in Iter : mod_os_ilistdir(i, p)
           \/ \E i \in Iter : listdir_next(i) \/ CollectIter(i)
  <2>1. pc' = "idle"
    BY <1>1 DEF StartScript, mod_os_getcwd, ShellCd, FileAppears, mod_os_mkdir, mod_os_stat,
                mod_os_remove, mod_os_rename, mod_os_chdir, mp_import_stat, mod_os_listdir,
                mod_os_ilistdir, listdir_next, CollectIter, Idle, frame
  <2> QED BY <1>0, <2>1
<1>2. ASSUME NEW p \in Paths, mod_os_rmdir(p) PROVE Levels' /\ RmdirComplete'
  <2> DEFINE h == NewHandle(Left(p))
             x == UsfFilePathNorm(p)
             e == [h |-> h, x |-> x, todo |-> Entries(x)]
  <2>1. CASE pc' = pc
    BY <1>0, <1>2, <2>1 DEF mod_os_rmdir, Idle
  <2>2. CASE /\ UsfOpen(p) /\ kind[x] = "dir" /\ pc' = "remove_dir" /\ target' = x
             /\ Enter(h, x, <<>>)
    <3>1. x \in Place /\ Len(x) \in Nat
      BY <2>2, NormIsPlace, PlaceFacts DEF UsfOpen, Found
    <3>2. e.x = x /\ \A y \in e.todo : Len(y) = Len(x) + 1
      BY DEF Entries
    <3>3. dirs' = <<e>>
      BY <2>2 DEF Enter
    <3>a. kind' = kind
      BY <1>2 DEF mod_os_rmdir
    <3> HIDE DEF x, e
    <3>4. dirs' # <<>> /\ Len(dirs') = 1 /\ dirs'[1] = e
      BY <3>3
    <3>5. \A k \in 1..Len(dirs') : k = 1
      BY <3>4
    <3>6. Len(x) = Len(x) + 1 - 1
      BY <3>1
    <3>7. Levels'
      BY <2>2, <3>2, <3>4, <3>5, <3>6 DEF Levels
    <3> QED BY <2>2, <3>7, <3>a DEF RmdirComplete
  <2> QED BY <1>2, <2>1, <2>2 DEF mod_os_rmdir
<1>3. CASE Continue
  <2>a. ASSUME pc = "remove_dir"
        PROVE  /\ dirs # <<>> /\ dirs[1].x = target /\ kind[target] = "dir" /\ target \in Place
               /\ \A k \in 1..Len(dirs) : /\ Len(dirs[k].x) = Len(target) + k - 1
                                          /\ \A y \in dirs[k].todo : Len(y) = Len(dirs[k].x) + 1
    <3>1. /\ dirs # <<>> /\ dirs[1].x = target /\ kind[target] = "dir"
          /\ \A k \in 1..Len(dirs) : /\ Len(dirs[k].x) = Len(target) + k - 1
                                     /\ \A y \in dirs[k].todo : Len(y) = Len(dirs[k].x) + 1
      BY <2>a DEF TreeInv, Levels, RmdirComplete
    <3>2. \A k \in 1..Len(dirs) : dirs[k] \in DirRec
      BY <2>a, CallFacts
    <3>3. dirs[1].x \in Place
      BY <2>a, <3>2, CallFacts DEF DirRec
    <3> QED BY <3>1, <3>3
  <2>1. ASSUME NEW x \in Place, RemoveFile(x) PROVE Levels' /\ RmdirComplete'
    <3>1. pc = "remove_dir" /\ pc' = pc /\ target' = target
      BY <2>1 DEF RemoveFile
    <3>2. /\ dirs' # <<>> /\ Len(dirs') = Len(dirs)
          /\ \A k \in 1..Len(dirs) : dirs'[k].x = dirs[k].x /\ dirs'[k].todo \subseteq dirs[k].todo
      BY <2>1, <3>1, TakeEntry DEF RemoveFile
    <3>3. Levels'
      <4>1. 1 \in 1..Len(dirs)
        BY <3>1, CallFacts
      <4>2. dirs'[1].x = target'
        BY <2>a, <3>1, <3>2, <4>1
      <4>3. ASSUME NEW k \in 1..Len(dirs')
            PROVE  /\ Len(dirs'[k].x) = Len(target') + k - 1
                   /\ \A y \in dirs'[k].todo : Len(y) = Len(dirs'[k].x) + 1
        <5>1. k \in 1..Len(dirs)
          BY <3>2
        <5>2. dirs'[k].x = dirs[k].x /\ dirs'[k].todo \subseteq dirs[k].todo
          BY <3>2, <5>1
        <5>3. /\ Len(dirs[k].x) = Len(target) + k - 1
              /\ \A y \in dirs[k].todo : Len(y) = Len(dirs[k].x) + 1
          BY <2>a, <3>1, <5>1
        <5> QED BY <3>1, <5>2, <5>3
      <4> QED BY <3>1, <3>2, <4>2, <4>3 DEF Levels
    <3>4. x # target /\ \A y \in Place : y # x => kind'[y] = kind[y]
      BY <2>1, <2>a, <3>1 DEF RemoveFile, OsInv, TypeOK
    <3> QED BY <2>a, <3>1, <3>3, <3>4 DEF RmdirComplete
  <2>2. ASSUME NEW x \in Place, RemoveSubdir(x) PROVE Levels' /\ RmdirComplete'
    <3> DEFINE d == Append(Front(dirs), [Top EXCEPT !.todo = @ \ {x}])
               e == [h |-> NewHandle({}), x |-> x, todo |-> Entries(x)]
               n == Len(dirs)
    <3>1. pc = "remove_dir" /\ pc' = pc /\ target' = target /\ kind' = kind
      BY <2>2 DEF RemoveSubdir
    <3>2. /\ d \in Seq(DirRec) /\ Len(d) = n
          /\ \A k \in 1..n : d[k].x = dirs[k].x /\ d[k].todo \subseteq dirs[k].todo
      BY <3>1, TakeEntry
    <3>3. dirs' = Append(d, e)
      BY <2>2 DEF RemoveSubdir, Enter
    <3>4. e \in DirRec /\ e.x = x /\ \A y \in e.todo : Len(y) = Len(x) + 1
      <4>1. NewHandle({}) \in Handle
        BY <2>2, TakenAreFree DEF RemoveSubdir, Free
      <4> QED BY <4>1 DEF DirRec, Entries
    <3>5. n \in Nat /\ n >= 1 /\ Top = dirs[n] /\ n \in 1..n
      BY <3>1, CallFacts
    <3>6. Len(x) = Len(target) + (n + 1) - 1
      <4>1. Len(x) = Len(dirs[n].x) + 1 /\ Len(dirs[n].x) = Len(target) + n - 1
        BY <2>2, <2>a, <3>1, <3>5 DEF RemoveSubdir
      <4>2. Len(target) \in Nat
        BY <2>a, <3>1, PlaceFacts
      <4> QED BY <3>5, <4>1, <4>2
    <3> HIDE DEF d, e
    <3>7. /\ dirs' # <<>> /\ Len(dirs') = n + 1 /\ dirs'[n + 1] = e
          /\ \A k \in 1..n : dirs'[k] = d[k]
      BY <3>2, <3>3, <3>4, AppendFacts
    <3>8. \A k \in 1..Len(dirs') : k \in 1..n \/ k = n + 1
      BY <3>5, <3>7
    <3>9. 1 \in 1..n
      BY <3>5
    <3> HIDE DEF n
    <3>10. \A k \in 1..Len(dirs') : /\ Len(dirs'[k].x) = Len(target) + k - 1
                                    /\ \A y \in dirs'[k].todo : Len(y) = Len(dirs'[k].x) + 1
      <4> TAKE k \in 1..Len(dirs')
      <4>1. CASE k \in 1..n
        BY <2>a, <3>1, <3>2, <3>7, <4>1 DEF n
      <4>2. CASE k = n + 1
        BY <3>4, <3>6, <3>7, <4>2
      <4> QED BY <3>8, <4>1, <4>2
    <3>11. Levels'
      BY <2>a, <3>1, <3>2, <3>7, <3>9, <3>10 DEF Levels
    <3> QED BY <2>a, <3>1, <3>11 DEF RmdirComplete
  <2>3. ASSUME NEW x \in Place, EntryFails(x) PROVE Levels' /\ RmdirComplete'
    BY <2>3, <2>a DEF EntryFails, TreeInv, Levels, RmdirComplete
  <2>b. ASSUME pc = "remove_dir", pc' = pc, dirs' = Front(dirs), Len(dirs) # 1, target' = target
        PROVE  Levels'
    <3>1. /\ dirs' \in Seq(DirRec) /\ Len(dirs') = Len(dirs) - 1 /\ Len(dirs) \in Nat /\ Len(dirs) >= 2
          /\ \A k \in 1..(Len(dirs) - 1) : dirs'[k] = dirs[k]
      BY <2>b, CallFacts
    <3>2. dirs' # <<>> /\ 1 \in 1..(Len(dirs) - 1) /\ \A k \in 1..(Len(dirs) - 1) : k \in 1..Len(dirs)
      BY <3>1
    <3> QED BY <2>a, <2>b, <3>1, <3>2 DEF Levels
  <2>4. CASE RemoveSelf
    <3>0. pc = "remove_dir" /\ target' = target
      BY <2>4 DEF RemoveSelf
    <3>1. PICK ok \in BOOLEAN : /\ Delete(Top.h, Top.x, ok)
                                /\ status' = IF ok THEN "ok" ELSE "warn"
                                /\ dirs' = IF ok THEN Front(dirs) ELSE dirs
                                /\ IF ok /\ Len(dirs) = 1 THEN pc' = "exit" /\ fh' = NULL
                                   ELSE UNCHANGED <<pc, fh>>
      BY <2>4 DEF RemoveSelf
    <3>2. CASE ~ok
      BY <2>a, <3>0, <3>1, <3>2 DEF Delete, Levels, RmdirComplete
    <3>3. CASE ok /\ Len(dirs) = 1
      <4>1. Top.x = target /\ target \in Place
        BY <2>a, <3>0, <3>3, CallFacts
      <4>2. Entries(target) = {} /\ kind' = [kind EXCEPT ![target] = "none"]
        BY <3>1, <3>3, <4>1 DEF Delete
      <4>3. \A z \in Place : Under(z, target) => kind'[z] = "none"
        BY <4>1, <4>2, TreeFacts DEF TreeInv, OsInv, TypeOK
      <4> QED BY <3>0, <3>1, <3>3, <4>3 DEF Levels, RmdirComplete
    <3>4. CASE ok /\ Len(dirs) # 1
      <4>1. Levels'
        BY <2>b, <3>0, <3>1, <3>4
      <4>2. Top.x # target
        <5>1. Len(dirs) \in Nat /\ Len(dirs) >= 2 /\ Top = dirs[Len(dirs)] /\ Len(dirs) \in 1..Len(dirs)
          BY <3>0, <3>4, CallFacts
        <5>2. Len(Top.x) = Len(target) + Len(dirs) - 1 /\ Len(target) \in Nat
          BY <2>a, <3>0, <5>1, PlaceFacts
        <5> QED BY <5>1, <5>2
      <4>3. kind'[target] = "dir"
        BY <2>a, <3>0, <3>1, <3>4, <4>2 DEF Delete, OsInv, TypeOK
      <4> QED BY <3>0, <3>1, <3>4, <4>1, <4>3 DEF RmdirComplete
    <3> QED BY <3>2, <3>3, <3>4
  <2>5. CASE Unwind
    <3>0. pc = "remove_dir" /\ dirs' = Front(dirs) /\ status # "ok" /\ UNCHANGED <<target, status, kind>>
      BY <2>5 DEF Unwind
    <3>1. CASE Len(dirs) = 1
      BY <2>5, <3>0, <3>1 DEF Unwind, Levels, RmdirComplete
    <3>2. CASE Len(dirs) # 1
      <4>1. pc' = pc
        BY <2>5, <3>2 DEF Unwind
      <4> QED BY <2>a, <2>b, <3>0, <3>2, <4>1 DEF RmdirComplete
    <3> QED BY <3>1, <3>2
  <2>6. CASE Exit
    BY <1>0, <2>6 DEF Exit
  <2> QED BY <1>3, <2>1, <2>2, <2>3, <2>4, <2>5, <2>6 DEF Continue
<1>4. CASE UNCHANGED vars
  BY <1>4 DEF vars, frame, TreeInv, Levels, RmdirComplete
<1> QED BY <1>1, <1>2, <1>3, <1>4 DEF Next

\* The directory that is given to rmdir is there until everything in it is gone, and an
\* rmdir that succeeds leaves nothing of it (modos.c:499-590), however deep it is and
\* whichever calls fail on the way.
THEOREM RmdirRemovesAll == Spec => []RmdirComplete
<1>1. Init => OsInv /\ HandleInv /\ TreeInv
  <2> SUFFICES ASSUME Init PROVE OsInv /\ HandleInv /\ TreeInv
    OBVIOUS
  <2>1. OsInv /\ HandleInv
    BY InitHandles
  <2>2. Tree
    <3> SUFFICES ASSUME NEW x \in Place, NEW y \in Place, Under(x, y), x # y, kind[x] # "none"
                 PROVE  kind[y] = "dir"
      BY DEF Tree
    <3>1. Len(x) # 1
      <4>1. Len(x) \in Nat /\ Len(y) \in Nat /\ Len(y) >= 1
        BY PlaceFacts
      <4>2. Len(y) < Len(x)
        BY UnderOrder
      <4>3. \A m, n \in Nat : m >= 1 /\ m < n => n # 1
        OBVIOUS
      <4> QED BY <4>1, <4>2, <4>3, Zenon
    <3>2. Under(ImageDir, x) /\ ImageDir \in Place
      BY <3>1, PlaceAssumption DEF Init
    <3>3. Under(ImageDir, y)
      BY <3>2, UnderOrder
    <3> QED BY <3>3 DEF Init
  <2> QED BY <2>1, <2>2 DEF Init, TreeInv, Levels, RmdirComplete
<1>2. OsInv /\ HandleInv /\ TreeInv /\ [Next]_vars => (OsInv /\ HandleInv /\ TreeInv)'
  BY OsStep, HandleStep, TreeStep, LevelStep DEF TreeInv
<1>3. TreeInv => RmdirComplete
  BY DEF TreeInv
<1> QED BY <1>1, <1>2, <1>3, PTL DEF Spec
=============================================================================
