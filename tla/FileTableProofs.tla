--------------------------- MODULE FileTableProofs ---------------------------
(***************************************************************************)
(* Proofs about FileTable, whatever the size of the table and the number of*)
(* files and objects. For scripts that open files by name, every file      *)
(* object owns its descriptor and its handle, and no closed handle is used;*)
(* for scripts that open plain files, the table is full only of open ones; *)
(* with standard files opened by number and redirected too, the use of a   *)
(* closed handle is the closing of a redirection by a script.              *)
(***************************************************************************)
EXTENDS FileTable, WellFoundedInduction, TLAPS

\* A non-empty set of naturals has a least element.
LEMMA LeastExists ==
  ASSUME NEW T \in SUBSET Nat, T # {}
  PROVE  \E x \in T : \A y \in T : x <= y
<1> DEFINE R == OpToRel(<, Nat)
<1>1. IsWellFoundedOn(R, Nat)
  BY NatLessThanWellFounded
<1>2. \A x, y \in Nat : x < y => <<x, y>> \in R
  BY DEF OpToRel
<1> HIDE DEF R
<1>3. PICK x \in T : \A y \in T : ~(<<y, x>> \in R)
  BY <1>1, WFMin, Zenon
<1>4. \A y \in T : ~(y < x)
  BY <1>2, <1>3, Zenon
<1>5. x \in Nat /\ \A y \in T : y \in Nat
  OBVIOUS
<1>6. \A y \in T : x <= y
  BY <1>4, <1>5
<1> QED BY <1>6

\* UsfMap gives a free descriptor above the standard ones, or -1 when there is none.
LEMMA MapIsFree ==
  ASSUME UsfMap # -1
  PROVE  UsfMap \in FreeFds
<1>1. FreeFds # {} /\ UsfMap = CHOOSE fd \in FreeFds : \A other \in FreeFds : fd <= other
  BY DEF UsfMap
<1>2. FreeFds \in SUBSET Nat
  BY PoolAssumption DEF FreeFds, Fd
<1>3. \E fd \in FreeFds : \A other \in FreeFds : fd <= other
  BY <1>1, <1>2, LeastExists
<1> QED BY <1>1, <1>3

USE DEF Fd, Std, Pointer, Device, Closed

LEMMA InitInv == Init => FileTableInv
<1> SUFFICES ASSUME Init PROVE FileTableInv
  OBVIOUS
<1>1. TypeOK
  BY PoolAssumption, HandleAssumption DEF Init, TypeOK
<1>2. OwnDescriptors
  BY DEF Init, OwnDescriptors, Live
<1> QED BY <1>1, <1>2 DEF Init, FileTableInv, NoClosedHandle

\* Every step keeps the invariant, if scripts do not open by number.
LEMMA StepInv ==
  ASSUME FileTableInv, Numbers = {}, [Next]_vars
  PROVE  FileTableInv'
<1> USE PoolAssumption, HandleAssumption
<1> USE DEF FileTableInv, TypeOK, NoClosedHandle, OwnDescriptors, Live, OwnsDescriptor, Usable
<1>1. CASE UsfInit
  <2>1. OwnDescriptors'
    BY <1>1 DEF UsfInit
  <2> QED BY <1>1 DEF UsfInit, EmptyPool
<1>2. CASE UsfDeinit
  BY <1>2 DEF UsfDeinit
<1>3. ASSUME NEW redirection \in [Std -> held \cup {NULL}], UsfSetStdIo(redirection)
      PROVE  FileTableInv'
  <2>1. /\ \A fd \in Fd \ Std : FilePool'[fd] = FilePool[fd]
        /\ \A fd \in Std : FilePool'[fd] \in held \cup {Device}
    BY <1>3 DEF UsfSetStdIo
  <2>2. FilePool' \in [Fd -> Pointer \cup {NULL}]
    BY <1>3 DEF UsfSetStdIo
  <2> QED BY <1>3, <2>1, <2>2 DEF UsfSetStdIo
<1>4. ASSUME NEW o \in Obj, sfp_open(o) PROVE FileTableInv'
  <2>1. UsfMap \in FreeFds
    BY <1>4, MapIsFree DEF sfp_open
  <2>2. PICK fh \in Handle \ isOpen :
          /\ FilePool' = [FilePool EXCEPT ![UsfMap] = fh]
          /\ isOpen' = isOpen \cup {fh}
          /\ file' = [file EXCEPT ![o] = [fd |-> UsfMap, fh |-> fh]]
    BY <1>4 DEF sfp_open
  <2> QED BY <1>4, <2>1, <2>2 DEF sfp_open, FreeFds
<1>5. ASSUME NEW o \in Obj, fdfile_io(o) PROVE FileTableInv'
  <2>1. file[o] # Closed
    <3>1. file[o].fd >= 0
      BY <1>5 DEF fdfile_io
    <3>2. Closed.fd = -1
      OBVIOUS
    <3> HIDE DEF Closed
    <3> QED BY <3>1, <3>2
  <2>2. Usable(IoHandle(o))
    BY <2>1 DEF IoHandle
  <2> QED BY <1>5, <2>2 DEF fdfile_io
<1>6. ASSUME NEW o \in Obj, fdfile_close(o) PROVE FileTableInv'
  <2>1. OwnsDescriptor(o) /\ fault' = fault
    BY <1>6 DEF fdfile_close
  <2>2. FilePool' = [FilePool EXCEPT ![file[o].fd] = NULL]
    BY <1>6, <2>1 DEF fdfile_close, UsfUnmap
  <2>3. TypeOK' /\ NoClosedHandle'
    BY <1>6, <2>1, <2>2 DEF fdfile_close
  <2>4. \A other \in Obj : file'[other] = IF other = o THEN Closed ELSE file[other]
    BY <1>6 DEF fdfile_close
  <2>5. OwnDescriptors'
    BY <1>6, <2>1, <2>2, <2>4 DEF fdfile_close
  <2> QED BY <1>6, <2>1, <2>2, <2>3, <2>4, <2>5 DEF fdfile_close
<1>7. ASSUME NEW o \in Obj, Collect(o) PROVE FileTableInv'
  BY <1>7 DEF Collect
<1>8. ASSUME NEW fd \in Std, sys_stdio(fd) PROVE FileTableInv'
  <2>1. fd \in Fd /\ UsfGetFileHandle(fd) = FilePool[fd]
    BY DEF UsfGetFileHandle
  <2>2. Usable(UsfGetFileHandle(fd))
    BY <1>8, <2>1 DEF sys_stdio
  <2> QED BY <1>8, <2>2 DEF sys_stdio
<1>9. CASE sfp_open_Full
  <2>1. UNCHANGED vars
    BY <1>9 DEF sfp_open_Full
  <2> QED BY <2>1 DEF vars
<1>10. CASE sfp_open_Folder
  <2>1. UsfMap \in FreeFds
    BY <1>10, MapIsFree DEF sfp_open_Folder
  <2> QED BY <1>10, <2>1 DEF sfp_open_Folder, FreeFds
<1>11. ASSUME NEW x \in Redirect, RedirectorClose(x) PROVE FileTableInv'
  <2>1. x \in isOpen /\ fault' = fault
    BY <1>11 DEF RedirectorClose
  <2> QED BY <1>11, <2>1 DEF RedirectorClose
<1>12. CASE UNCHANGED vars
  BY <1>12 DEF vars
<1> QED BY <1>1, <1>2, <1>3, <1>4, <1>5, <1>6, <1>7, <1>8, <1>9, <1>10, <1>11, <1>12
      DEF Next, ScriptStep, fdfile_open

\* Scripts that open by name never make the engine touch a closed handle, and every
\* file object owns its descriptor and handle, for every table size.
THEOREM FilesSafe ==
  ASSUME Numbers = {}
  PROVE  Spec => [](TypeOK /\ NoClosedHandle /\ OwnDescriptors)
<1>1. FileTableInv => TypeOK /\ NoClosedHandle /\ OwnDescriptors
  BY DEF FileTableInv
<1>2. FileTableInv /\ [Next]_vars => FileTableInv'
  BY StepInv
<1> QED BY <1>1, <1>2, InitInv, PTL DEF Spec

\* No two live file objects of file.c share a descriptor or a handle.
THEOREM FilesOwned ==
  ASSUME Numbers = {}
  PROVE  Spec => []OwnDescriptors
BY FilesSafe, PTL

\* The handle behind a live object's descriptor changes in no step of anybody else.
THEOREM FilesStable ==
  ASSUME Numbers = {}
  PROVE  Spec => DescriptorStable
<1> DEFINE Step == \A o \in Obj : Live(o) /\ Live(o)' =>
                     file'[o] = file[o] /\ FilePool'[file[o].fd] = FilePool[file[o].fd]
<1>1. ASSUME FileTableInv, [Next]_vars PROVE [Step]_vars
  <2> SUFFICES ASSUME Next PROVE Step
    BY <1>1
  <2> USE <1>1, PoolAssumption, HandleAssumption
  <2> USE DEF FileTableInv, TypeOK, OwnDescriptors, Live, OwnsDescriptor
  <2>1. CASE UsfInit \/ UsfDeinit
    BY <2>1 DEF UsfInit, UsfDeinit, EmptyPool
  <2>2. ASSUME NEW redirection \in [Std -> held \cup {NULL}], UsfSetStdIo(redirection)
        PROVE  Step
    BY <2>2 DEF UsfSetStdIo
  <2>3. ASSUME NEW o \in Obj, sfp_open(o) PROVE Step
    <3>1. UsfMap \in FreeFds
      BY <2>3, MapIsFree DEF sfp_open
    <3>2. PICK fh \in Handle : /\ FilePool' = [FilePool EXCEPT ![UsfMap] = fh]
                               /\ file' = [file EXCEPT ![o] = [fd |-> UsfMap, fh |-> fh]]
      BY <2>3 DEF sfp_open
    <3>3. ASSUME NEW other \in Obj, Live(other)
          PROVE  other # o /\ file[other].fd # UsfMap /\ file[other].fd \in Fd
      BY <2>3, <3>1, <3>3 DEF sfp_open, FreeFds
    <3> QED BY <3>2, <3>3
  <2>4. ASSUME NEW o \in Obj, fdfile_io(o) PROVE Step
    BY <2>4 DEF fdfile_io
  <2>5. ASSUME NEW o \in Obj, fdfile_close(o) PROVE Step
    BY <2>5 DEF fdfile_close, UsfUnmap
  <2>6. ASSUME NEW o \in Obj, Collect(o) PROVE Step
    BY <2>6 DEF Collect
  <2>7. ASSUME NEW fd \in Std, sys_stdio(fd) PROVE Step
    BY <2>7 DEF sys_stdio
  <2>8. CASE sfp_open_Full
    BY <2>8 DEF sfp_open_Full, vars
  <2>9. CASE sfp_open_Folder
    <3>1. UsfMap \in FreeFds
      BY <2>9, MapIsFree DEF sfp_open_Folder
    <3>2. PICK fh \in Handle : FilePool' = [FilePool EXCEPT ![UsfMap] = fh]
      BY <2>9 DEF sfp_open_Folder
    <3>3. file' = file
      BY <2>9 DEF sfp_open_Folder
    <3> QED BY <3>1, <3>2, <3>3 DEF FreeFds
  <2>10. ASSUME NEW x \in Redirect, RedirectorClose(x) PROVE Step
    BY <2>10 DEF RedirectorClose
  <2> QED BY <2>1, <2>2, <2>3, <2>4, <2>5, <2>6, <2>7, <2>8, <2>9, <2>10 DEF Next, ScriptStep, fdfile_open
<1>2. FileTableInv /\ [Next]_vars => FileTableInv'
  BY StepInv
<1> HIDE DEF Step
<1>3. Spec => [][Step]_vars
  BY <1>1, <1>2, InitInv, PTL DEF Spec
<1> QED BY <1>3 DEF Step, DescriptorStable

-----------------------------------------------------------------------------
(* Any script.                                                              *)

\* The descriptors, pointers and fields by what matters of them.
LEMMA Basics ==
  /\ Std \subseteq Fd
  /\ Closed \in [fd : Fd \cup {-1}, fh : Pointer \cup {NULL}]
  /\ Closed.fd \notin Fd
  /\ Device \in Pointer /\ Handle \subseteq Pointer /\ Redirect \subseteq Pointer
  /\ Device \notin Handle /\ Device # NULL /\ NULL \notin Handle /\ NULL \notin Redirect
  /\ Handle \cap Redirect = {}
BY PoolAssumption, HandleAssumption

HIDE DEF Fd, Std, Pointer, Device, Closed

\* Every step keeps the ranges, whatever numbers and folders scripts open.
LEMMA TypeStep ==
  ASSUME TypeOK, [Next]_vars
  PROVE  TypeOK'
<1> USE Basics DEF TypeOK
<1>1. CASE UsfInit
  <2>1. FilePool' \in [Fd -> Pointer \cup {NULL}]
    BY <1>1 DEF UsfInit, EmptyPool
  <2> QED BY <1>1, <2>1 DEF UsfInit
<1>2. CASE UsfDeinit
  BY <1>2 DEF UsfDeinit
<1>3. ASSUME NEW redirection \in [Std -> held \cup {NULL}], UsfSetStdIo(redirection)
      PROVE  TypeOK'
  BY <1>3 DEF UsfSetStdIo
<1>4. ASSUME NEW o \in Obj, sfp_open(o) PROVE TypeOK'
  <2>1. UsfMap \in Fd
    BY <1>4, MapIsFree DEF sfp_open, FreeFds
  <2>2. PICK fh \in Handle \ isOpen :
          /\ FilePool' = [FilePool EXCEPT ![UsfMap] = fh]
          /\ isOpen' = isOpen \cup {fh}
          /\ file' = [file EXCEPT ![o] = [fd |-> UsfMap, fh |-> fh]]
    BY <1>4 DEF sfp_open
  <2>3. [fd |-> UsfMap, fh |-> fh] \in [fd : Fd \cup {-1}, fh : Pointer \cup {NULL}]
    BY <2>1
  <2>4. FilePool' \in [Fd -> Pointer \cup {NULL}]
    BY <2>2
  <2>5. file' \in [Obj -> [fd : Fd \cup {-1}, fh : Pointer \cup {NULL}]]
    BY <2>2, <2>3
  <2> QED BY <1>4, <2>2, <2>4, <2>5 DEF sfp_open
<1>5. ASSUME NEW o \in Obj, fdfile_io(o) PROVE TypeOK'
  BY <1>5 DEF fdfile_io
<1>6. ASSUME NEW o \in Obj, fdfile_close(o) PROVE TypeOK'
  <2>1. FilePool' \in [Fd -> Pointer \cup {NULL}]
    BY <1>6 DEF fdfile_close, UsfUnmap
  <2>2. file' \in [Obj -> [fd : Fd \cup {-1}, fh : Pointer \cup {NULL}]]
    BY <1>6 DEF fdfile_close
  <2> QED BY <1>6, <2>1, <2>2 DEF fdfile_close
<1>7. ASSUME NEW o \in Obj, Collect(o) PROVE TypeOK'
  BY <1>7 DEF Collect
<1>8. ASSUME NEW fd \in Std, sys_stdio(fd) PROVE TypeOK'
  BY <1>8 DEF sys_stdio
<1>9. CASE sfp_open_Full
  <2>1. UNCHANGED vars
    BY <1>9 DEF sfp_open_Full
  <2> QED BY <2>1 DEF vars
<1>10. CASE sfp_open_Folder
  <2>1. UsfMap \in Fd
    BY <1>10, MapIsFree DEF sfp_open_Folder, FreeFds
  <2>2. PICK fh \in Handle : FilePool' = [FilePool EXCEPT ![UsfMap] = fh]
    BY <1>10 DEF sfp_open_Folder
  <2>3. FilePool' \in [Fd -> Pointer \cup {NULL}]
    BY <2>2
  <2> QED BY <1>10, <2>3 DEF sfp_open_Folder
<1>11. ASSUME NEW o \in Obj, NEW fd \in Numbers, sfp_open_by_fd(o, fd) PROVE TypeOK'
  <2>1. fd \in Fd /\ UsfGetFileHandle(fd) \in Pointer \cup {NULL}
    BY <1>11 DEF sfp_open_by_fd, UsfGetFileHandle
  <2>2. [fd |-> fd, fh |-> UsfGetFileHandle(fd)] \in [fd : Fd \cup {-1}, fh : Pointer \cup {NULL}]
    BY <2>1
  <2>3. file' = [file EXCEPT ![o] = [fd |-> fd, fh |-> UsfGetFileHandle(fd)]]
    BY <1>11 DEF sfp_open_by_fd
  <2>4. file' \in [Obj -> [fd : Fd \cup {-1}, fh : Pointer \cup {NULL}]]
    BY <2>2, <2>3
  <2>5. fault' \in {"none", "closed handle", "closed twice"}
    BY <1>11 DEF sfp_open_by_fd
  <2>6. UNCHANGED <<Installed, FilePool, isOpen, held>>
    BY <1>11 DEF sfp_open_by_fd
  <2> QED BY <2>4, <2>5, <2>6
<1>12. ASSUME NEW x \in Redirect, RedirectorClose(x) PROVE TypeOK'
  BY <1>12 DEF RedirectorClose
<1>13. CASE UNCHANGED vars
  BY <1>13 DEF vars
<1> QED BY <1>1, <1>2, <1>3, <1>4, <1>5, <1>6, <1>7, <1>8, <1>9, <1>10, <1>11, <1>12, <1>13
      DEF Next, ScriptStep, fdfile_open

\* Every descriptor and handle in FilePool of usf.c and in the objects of file.c is in
\* range, for any script.
THEOREM FilesTyped == Spec => []TypeOK
<1>1. ASSUME Init PROVE TypeOK
  BY <1>1, Basics DEF Init, TypeOK
<1>2. TypeOK /\ [Next]_vars => TypeOK'
  BY TypeStep
<1> QED BY <1>1, <1>2, PTL DEF Spec

-----------------------------------------------------------------------------
(* Scripts that open plain files by name, and standard descriptors by number.*)

\* A read, write, open(number) or use of a standard file that reaches a closed handle
\* reaches one that a standard descriptor is redirected to and its redirector holds.
LEMMA ExplainedStep ==
  ASSUME PoolInv, ~Folders, Numbers \cap Fd \subseteq Std, [Next]_vars
  PROVE  StandardIoExplained'
<1>1. CASE UNCHANGED vars
  BY <1>1 DEF vars, PoolInv, StandardIoExplained
<1>2. CASE Next
  <2>0. fault = "none"
    BY <1>2 DEF Next
  <2>1. ASSUME NEW fd \in Std, Installed, ~Usable(FilePool[fd]), UNCHANGED <<Installed, FilePool, isOpen, held>>
        PROVE  StandardIoExplained'
    <3>1. FilePool[fd] \in held \ isOpen
      BY <2>1 DEF PoolInv, Usable
    <3> QED BY <2>1, <3>1 DEF StandardIoExplained
  <2>2. ASSUME fault' # "closed handle" PROVE StandardIoExplained'
    BY <2>2 DEF StandardIoExplained
  <2>3. \A fd \in Std : UsfGetFileHandle(fd) = FilePool[fd]
    BY Basics DEF UsfGetFileHandle
  <2>4. ASSUME NEW o \in Obj, fdfile_io(o) PROVE StandardIoExplained'
    <3>1. CASE Usable(IoHandle(o))
      BY <2>0, <2>2, <2>4, <3>1 DEF fdfile_io
    <3>2. CASE ~Usable(IoHandle(o))
      <4>1. file[o].fd # -1
        <5>1. file[o].fd >= 0
          BY <2>4 DEF fdfile_io
        <5> QED BY <5>1
      <4>2. Live(o)
        BY <4>1 DEF Live, Closed
      <4>3. CASE OwnsDescriptor(o)
        BY <3>2, <4>3 DEF OwnsDescriptor, Usable, IoHandle
      <4>4. CASE file[o].fd \in Std
        BY <2>1, <2>3, <2>4, <3>2, <4>4 DEF fdfile_io, IoHandle
      <4> QED BY <4>2, <4>3, <4>4 DEF PoolInv, SharesStandard
    <3> QED BY <3>1, <3>2
  <2>5. ASSUME NEW o \in Obj, NEW fd \in Numbers, sfp_open_by_fd(o, fd) PROVE StandardIoExplained'
    <3>1. fd \in Std
      BY <2>5 DEF sfp_open_by_fd, UsfGetFileHandle
    <3>2. CASE Usable(FilePool[fd])
      <4>1. fault' = fault
        BY <2>3, <2>5, <3>1, <3>2 DEF sfp_open_by_fd
      <4> QED BY <2>0, <2>2, <4>1
    <3>3. CASE ~Usable(FilePool[fd])
      BY <2>1, <2>5, <3>1, <3>3 DEF sfp_open_by_fd
    <3> QED BY <3>2, <3>3
  <2>6. ASSUME NEW fd \in Std, sys_stdio(fd) PROVE StandardIoExplained'
    BY <2>0, <2>1, <2>2, <2>3, <2>6 DEF sys_stdio
  <2>7. CASE UsfInit \/ UsfDeinit \/ sfp_open_Full \/ sfp_open_Folder
    BY <2>0, <2>2, <2>7 DEF UsfInit, UsfDeinit, sfp_open_Full, sfp_open_Folder, vars
  <2>8. ASSUME NEW redirection \in [Std -> held \cup {NULL}], UsfSetStdIo(redirection) PROVE StandardIoExplained'
    BY <2>0, <2>2, <2>8 DEF UsfSetStdIo
  <2>9. ASSUME NEW x \in Redirect, RedirectorClose(x) PROVE StandardIoExplained'
    BY <2>0, <2>2, <2>9 DEF RedirectorClose
  <2>10. ASSUME NEW o \in Obj, sfp_open(o) \/ fdfile_close(o) \/ Collect(o) PROVE StandardIoExplained'
    BY <2>0, <2>2, <2>10 DEF sfp_open, fdfile_close, Collect
  <2> QED BY <1>2, <2>4, <2>5, <2>6, <2>7, <2>8, <2>9, <2>10 DEF Next, ScriptStep, fdfile_open
<1> QED BY <1>1, <1>2

\* Every step keeps PoolInv.
LEMMA PoolStep ==
  ASSUME PoolInv, ~Folders, Numbers \cap Fd \subseteq Std, [Next]_vars
  PROVE  PoolInv'
<1>t. TypeOK /\ TypeOK'
  BY TypeStep DEF PoolInv
<1> DEFINE Mapped == \A fd \in Fd \ Std : FilePool[fd] # NULL => FilePool[fd] \in Handle \cap isOpen
           Once == \A fd, other \in Fd \ Std :
                     fd # other /\ FilePool[fd] # NULL => FilePool[fd] # FilePool[other]
           Standard == \A fd \in Std : FilePool[fd] \in Redirect \cup {Device, NULL}
           Objects == \A o \in Obj : Live(o) => OwnsDescriptor(o) \/ SharesStandard(o)
           Apart == \A o, other \in Obj : Live(o) /\ Live(other) /\ o # other /\ file[o].fd \notin Std
                      => file[o].fd # file[other].fd
           Ended == ~Installed => \A o \in Obj : file[o] = Closed
           Held == Installed => \A fd \in Std : FilePool[fd] \in held \cup {Device}
<1>p. Mapped /\ Once /\ Standard /\ Objects /\ Apart /\ Ended /\ Held
  BY DEF PoolInv
<1> SUFFICES (Mapped /\ Once /\ Standard /\ Objects /\ Apart /\ Ended /\ Held)'
  BY <1>t, ExplainedStep DEF PoolInv
<1>f. \A o \in Obj : file[o].fd \in Fd \cup {-1}
  BY <1>t DEF TypeOK
<1> USE Basics, <1>p DEF Live, OwnsDescriptor, SharesStandard
<1>1. CASE UsfInit
  <2>1. \A fd \in Fd : FilePool'[fd] = IF fd \in Std THEN Device ELSE NULL
    BY <1>1 DEF UsfInit, EmptyPool
  <2>2. file' = file /\ isOpen' = isOpen
    BY <1>1 DEF UsfInit
  <2> QED BY <1>1, <1>t, <2>1, <2>2 DEF UsfInit
<1>2. CASE UsfDeinit
  <2>1. \A o \in Obj : file'[o] = Closed
    BY <1>2 DEF UsfDeinit
  <2> QED BY <1>2, <2>1 DEF UsfDeinit
<1>3. ASSUME NEW redirection \in [Std -> held \cup {NULL}], UsfSetStdIo(redirection)
      PROVE  (Mapped /\ Once /\ Standard /\ Objects /\ Apart /\ Ended /\ Held)'
  <2>1. /\ \A fd \in Fd \ Std : FilePool'[fd] = FilePool[fd]
        /\ \A fd \in Std : FilePool'[fd] \in held \cup {Device}
    BY <1>3 DEF UsfSetStdIo
  <2>2. held \subseteq Redirect
    BY <1>t DEF TypeOK
  <2> QED BY <1>3, <2>1, <2>2 DEF UsfSetStdIo
<1>4. ASSUME NEW o \in Obj, sfp_open(o) PROVE (Mapped /\ Once /\ Standard /\ Objects /\ Apart /\ Ended /\ Held)'
  <2>1. UsfMap \in Fd \ Std /\ FilePool[UsfMap] = NULL
    BY <1>4, MapIsFree DEF sfp_open, FreeFds
  <2>2. PICK fh \in Handle \ isOpen :
          /\ FilePool' = [FilePool EXCEPT ![UsfMap] = fh]
          /\ isOpen' = isOpen \cup {fh}
          /\ file' = [file EXCEPT ![o] = [fd |-> UsfMap, fh |-> fh]]
    BY <1>4 DEF sfp_open
  <2>3. /\ \A fd \in Fd : FilePool'[fd] = IF fd = UsfMap THEN fh ELSE FilePool[fd]
        /\ \A other \in Obj : other # o => file'[other] = file[other]
        /\ file'[o].fd = UsfMap /\ file'[o].fh = fh
    BY <1>t, <2>1, <2>2 DEF TypeOK
  <2>4. (Mapped /\ Once /\ Standard)'
    BY <2>1, <2>2, <2>3
  <2>5. \A other \in Obj : Live(other) => file[other].fd # UsfMap
    BY <2>1
  <2>6. Objects'
    BY <2>1, <2>2, <2>3, <2>5
  <2>7. Apart'
    BY <2>1, <2>3, <2>5
  <2> QED BY <1>4, <2>4, <2>6, <2>7 DEF sfp_open
<1>5. ASSUME NEW o \in Obj, fdfile_io(o) PROVE (Mapped /\ Once /\ Standard /\ Objects /\ Apart /\ Ended /\ Held)'
  BY <1>5 DEF fdfile_io
<1>6. ASSUME NEW o \in Obj, fdfile_close(o) PROVE (Mapped /\ Once /\ Standard /\ Objects /\ Apart /\ Ended /\ Held)'
  <2>0. /\ file'[o] = Closed /\ \A other \in Obj : other # o => file'[other] = file[other]
        /\ isOpen' = isOpen \ {file[o].fh} /\ Live(o)
    BY <1>6, <1>t DEF fdfile_close, TypeOK
  <2>1. CASE OwnsDescriptor(o)
    <3>1. \A fd \in Fd : FilePool'[fd] = IF fd = file[o].fd THEN NULL ELSE FilePool[fd]
      BY <1>6, <1>t, <2>1 DEF fdfile_close, UsfUnmap, TypeOK
    <3>2. (Mapped /\ Once /\ Standard /\ Apart)'
      BY <2>0, <2>1, <3>1
    <3>3. ASSUME NEW other \in Obj, Live(other)' PROVE (OwnsDescriptor(other) \/ SharesStandard(other))'
      <4>1. other # o /\ file'[other] = file[other] /\ Live(other)
        BY <2>0, <3>3
      <4>2. file[other].fd # file[o].fd
        BY <2>0, <2>1, <4>1
      <4> QED BY <2>0, <2>1, <3>1, <4>1, <4>2
    <3>4. (Ended /\ Held)'
      BY <1>6, <2>1, <3>1 DEF fdfile_close
    <3> QED BY <3>2, <3>3, <3>4
  <2>2. CASE SharesStandard(o)
    <3>1. FilePool' = FilePool
      BY <1>6, <2>2 DEF fdfile_close, UsfUnmap
    <3>2. file[o].fh \notin Handle
      BY <2>2
    <3>3. (Mapped /\ Once /\ Standard /\ Apart)'
      BY <2>0, <3>1, <3>2
    <3>4. Objects'
      BY <2>0, <3>1, <3>2
    <3>5. (Ended /\ Held)'
      BY <1>6, <3>1 DEF fdfile_close
    <3> QED BY <3>3, <3>4, <3>5
  <2> QED BY <2>0, <2>1, <2>2
<1>7. ASSUME NEW o \in Obj, Collect(o) PROVE (Mapped /\ Once /\ Standard /\ Objects /\ Apart /\ Ended /\ Held)'
  <2>1. file'[o] = Closed /\ \A other \in Obj : other # o => file'[other] = file[other]
    BY <1>7, <1>t DEF Collect, TypeOK
  <2> QED BY <1>7, <2>1 DEF Collect
<1>8. ASSUME NEW fd \in Std, sys_stdio(fd) PROVE (Mapped /\ Once /\ Standard /\ Objects /\ Apart /\ Ended /\ Held)'
  BY <1>8 DEF sys_stdio
<1>9. CASE sfp_open_Full
  <2>1. UNCHANGED vars
    BY <1>9 DEF sfp_open_Full
  <2> QED BY <2>1 DEF vars
<1>10. ASSUME NEW o \in Obj, NEW fd \in Numbers, sfp_open_by_fd(o, fd)
       PROVE  (Mapped /\ Once /\ Standard /\ Objects /\ Apart /\ Ended /\ Held)'
  <2>1. fd \in Std /\ fd \in Fd
    BY <1>10 DEF sfp_open_by_fd, UsfGetFileHandle
  <2>2. file' = [file EXCEPT ![o] = [fd |-> fd, fh |-> FilePool[fd]]] /\ FilePool[fd] # NULL
    BY <1>10, <2>1 DEF sfp_open_by_fd, UsfGetFileHandle
  <2>3. /\ \A other \in Obj : other # o => file'[other] = file[other]
        /\ file'[o].fd = fd /\ file'[o].fh = FilePool[fd]
    BY <1>t, <2>2 DEF TypeOK
  <2>4. FilePool' = FilePool /\ isOpen' = isOpen
    BY <1>10 DEF sfp_open_by_fd
  <2>5. Objects'
    BY <2>1, <2>2, <2>3, <2>4
  <2>6. Apart'
    BY <2>1, <2>3
  <2> QED BY <1>10, <2>4, <2>5, <2>6 DEF sfp_open_by_fd
<1>11. ASSUME NEW x \in Redirect, RedirectorClose(x)
       PROVE  (Mapped /\ Once /\ Standard /\ Objects /\ Apart /\ Ended /\ Held)'
  <2>1. UNCHANGED <<Installed, FilePool, file>> /\ isOpen' = isOpen \ {x} /\ held' = held \ {x}
    BY <1>11 DEF RedirectorClose
  <2>2. x \notin Handle
    OBVIOUS
  <2>3. (Mapped /\ Once /\ Standard /\ Apart /\ Ended)'
    BY <2>1, <2>2
  <2>4. Objects'
    BY <2>1, <2>2
  <2>5. Installed => \A fd \in Std : FilePool[fd] # x
    BY <1>11 DEF RedirectorClose
  <2>6. Held'
    BY <2>1, <2>5
  <2> QED BY <2>3, <2>4, <2>6
<1>12. CASE UNCHANGED vars
  BY <1>12 DEF vars
<1> QED BY <1>1, <1>2, <1>3, <1>4, <1>5, <1>6, <1>7, <1>8, <1>9, <1>10, <1>11, <1>12
      DEF Next, ScriptStep, fdfile_open, sfp_open_Folder

\* PoolInv holds in every reachable state.
LEMMA PoolAlways ==
  ASSUME ~Folders, Numbers \cap Fd \subseteq Std
  PROVE  Spec => []PoolInv
<1>1. ASSUME Init PROVE PoolInv
  <2>1. TypeOK
    BY <1>1, Basics DEF Init, TypeOK
  <2> QED BY <1>1, <2>1, Basics DEF Init, PoolInv, Live, StandardIoExplained
<1>2. PoolInv /\ [Next]_vars => PoolInv'
  BY PoolStep
<1> QED BY <1>1, <1>2, PTL DEF Spec

\* UsfMap answers EFI_NOT_FOUND, "Too many opened files." (usf.c:955), only when every
\* descriptor above the standard ones has a file that is open, for every table size:
\* close gives descriptors back, and redirections and standard files take none.
THEOREM FullTable ==
  ASSUME ~Folders, Numbers \cap Fd \subseteq Std
  PROVE  Spec => []FullMeansManyOpen
<1>1. PoolInv => FullMeansManyOpen
  BY DEF PoolInv, FullMeansManyOpen, FreeFds
<1> QED BY <1>1, PoolAlways, PTL

\* However standard files are redirected, restored, opened and closed by number: a read,
\* write, seek, flush or open(number) of file.c reaches a closed handle only through a
\* standard descriptor whose redirection a script closed by open(number).close() while
\* its redirector (usf.c:1092) still holds it.
THEOREM StandardFaults ==
  ASSUME ~Folders, Numbers \cap Fd \subseteq Std
  PROVE  Spec => []StandardIoExplained
<1>1. PoolInv => StandardIoExplained
  BY DEF PoolInv
<1> QED BY <1>1, PoolAlways, PTL
=============================================================================
