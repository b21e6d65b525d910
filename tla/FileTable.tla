------------------------------ MODULE FileTable ------------------------------
(***************************************************************************)
(* The descriptor table of the script file protocol                        *)
(* (MicroPythonDxe/Uefi/usf.c: FilePool, Map, Unmap, GetFileHandle,        *)
(* SetStdIo) and its users, the Python file objects of                     *)
(* MicroPythonDxe/Uefi/file.c (sfp_open, sfp_open_by_fd, read/write/ioctl, *)
(* close).                                                                 *)
(*                                                                         *)
(* A file handle is a pointer into the firmware's file system driver: it   *)
(* may be used while it is open, and the address of a closed handle may be *)
(* given out again by a later Open.  Using a closed handle is undefined    *)
(* behaviour and ends the behaviour with fault # "none".                   *)
(***************************************************************************)
EXTENDS Integers, FiniteSets

CONSTANTS Obj,       \* Python file objects (mp_obj_fdfile_t)
          Handle,    \* addresses of EFI_FILE_HANDLEs the file systems give out
          Redirect,  \* handles that users of SetStdIo own
          PoolSize,  \* ARRAY_SIZE(FilePool): 64
          Numbers,   \* descriptor numbers that scripts pass to open()
          Folders,   \* scripts call open() on directories
          NULL

ASSUME PoolAssumption == PoolSize \in Nat /\ PoolSize > 3
ASSUME HandleAssumption == /\ Handle \cap Redirect = {}
                           /\ NULL \notin Handle \cup Redirect
                           /\ "device" \notin Handle \cup Redirect \cup {NULL}
ASSUME ClientAssumption == Numbers \subseteq Int /\ Folders \in BOOLEAN

VARIABLES Installed,  \* the script file protocol is installed
          FilePool,   \* descriptor -> handle
          file,       \* the fields fd and fh of every file object
          isOpen,     \* handles that the firmware considers open
          held,       \* handles that their redirector has not closed
          fault       \* undefined behaviour, once it has happened

vars == <<Installed, FilePool, file, isOpen, held, fault>>

Std == 0..2                       \* STDIN_FILENO, STDOUT_FILENO, STDERR_FILENO
Fd == 0..(PoolSize - 1)
Closed == [fd |-> -1, fh |-> NULL]

\* mStdIn, mStdOut, mStdErr: static files that are never closed.
Device == "device"
Pointer == Handle \cup Redirect \cup {Device}

\* Ranges of the variables.
TypeOK ==
  /\ Installed \in BOOLEAN
  /\ FilePool \in [Fd -> Pointer \cup {NULL}]
  /\ file \in [Obj -> [fd : Fd \cup {-1}, fh : Pointer \cup {NULL}]]
  /\ isOpen \subseteq Handle \cup Redirect
  /\ held \subseteq Redirect
  /\ fault \in {"none", "closed handle", "closed twice"}

EmptyPool == [fd \in Fd |-> IF fd \in Std THEN Device ELSE NULL]

Init ==
  /\ Installed = FALSE
  /\ FilePool = [fd \in Fd |-> NULL]
  /\ file = [o \in Obj |-> Closed]
  /\ isOpen = Redirect
  /\ held = Redirect
  /\ fault = "none"

Usable(fh) == fh \in isOpen \cup {Device}

-----------------------------------------------------------------------------
(* usf.c                                                                   *)

UsfInit ==
  /\ ~Installed
  /\ Installed' = TRUE
  /\ FilePool' = EmptyPool
  /\ UNCHANGED <<file, isOpen, held, fault>>

\* UsfDeinit, with the interpreter and its objects already gone.  Files that are
\* still open stay open.
UsfDeinit ==
  /\ Installed
  /\ Installed' = FALSE
  /\ file' = [o \in Obj |-> Closed]
  /\ UNCHANGED <<FilePool, isOpen, held, fault>>

FreeFds == {fd \in Fd \ Std : FilePool[fd] = NULL}

\* Fault model: the search does not look at what an entry holds.
UsfMap_NoTest == 3

\* The descriptor for a new handle: the lowest free one above the standard ones,
\* or -1 with EFI_NOT_FOUND.
UsfMap ==
  IF FreeFds = {} THEN -1
  ELSE CHOOSE fd \in FreeFds : \A other \in FreeFds : fd <= other

\* Fault model: the first descriptor is released, whichever was asked for.
UsfUnmap_First(fd) == [FilePool EXCEPT ![3] = NULL]

UsfUnmap(fd) == IF fd \in Fd \ Std THEN [FilePool EXCEPT ![fd] = NULL] ELSE FilePool

\* The handle, or NULL for EFI_INVALID_PARAMETER and EFI_NOT_FOUND.
UsfGetFileHandle(fd) == IF fd \in Fd THEN FilePool[fd] ELSE NULL

\* A protocol user redirects standard files to handles of its own that it has not
\* closed.  NULL restores the default.
UsfSetStdIo(redirection) ==
  /\ Installed
  /\ FilePool' = [fd \in Fd |->
       IF fd \notin Std THEN FilePool[fd]
       ELSE IF redirection[fd] = NULL THEN Device ELSE redirection[fd]]
  /\ UNCHANGED <<Installed, file, isOpen, held, fault>>

\* The redirector closes a handle of its own after it has restored the default.
RedirectorClose(x) ==
  /\ x \in held
  /\ Installed => \A fd \in Std : FilePool[fd] # x
  /\ held' = held \ {x}
  /\ isOpen' = isOpen \ {x}
  /\ fault' = IF Usable(x) THEN fault ELSE "closed twice"
  /\ UNCHANGED <<Installed, FilePool, file>>

-----------------------------------------------------------------------------
(* file.c                                                                  *)

\* open(name) of a plain file: Open, Map, GetInfo, and the size, position and
\* truncation calls of fdfile_open on the new handle.
sfp_open(o) ==
  /\ Installed /\ file[o] = Closed
  /\ UsfMap # -1
  /\ \E fh \in Handle \ isOpen :
       /\ FilePool' = [FilePool EXCEPT ![UsfMap] = fh]
       /\ isOpen' = isOpen \cup {fh}
       /\ file' = [file EXCEPT ![o] = [fd |-> UsfMap, fh |-> fh]]
  /\ UNCHANGED <<Installed, held, fault>>

\* open(name) with no descriptor left: the handle is closed again, OSError.
sfp_open_Full ==
  /\ Installed /\ UsfMap = -1
  /\ UNCHANGED vars

\* open(directory), or a GetInfo that fails: the handle is closed, OSError, and
\* the descriptor stays mapped to the closed handle.
sfp_open_Folder ==
  /\ Folders
  /\ Installed
  /\ UsfMap # -1
  /\ \E fh \in Handle \ isOpen : FilePool' = [FilePool EXCEPT ![UsfMap] = fh]
  /\ UNCHANGED <<Installed, file, isOpen, held, fault>>

\* open(number): the object shares the handle that the descriptor maps to, and
\* fdfile_open asks for its size.
sfp_open_by_fd(o, fd) ==
  /\ Installed /\ file[o] = Closed
  /\ LET fh == UsfGetFileHandle(fd)
     IN /\ fh # NULL
        /\ file' = [file EXCEPT ![o] = [fd |-> fd, fh |-> fh]]
        /\ fault' = IF Usable(fh) THEN fault ELSE "closed handle"
  /\ UNCHANGED <<Installed, FilePool, isOpen, held>>

\* The built-in open(): an integer is taken for a descriptor.  An error of either way
\* is raised as OSError; size, append and truncate act on the new handle.
fdfile_open(o) ==
  \/ sfp_open(o) \/ sfp_open_Full \/ sfp_open_Folder
  \/ \E fd \in Numbers : sfp_open_by_fd(o, fd)

\* Fault model: an object opened by a standard number works on the handle it found then.
IoHandle_Cached(o) == file[o].fh

\* The handle an object's read, write, seek or flush works on: standard files are
\* looked up again in every call.
IoHandle(o) == IF file[o].fd \in Std THEN UsfGetFileHandle(file[o].fd) ELSE file[o].fh

\* fdfile_read, fdfile_write, fdfile_ioctl; check_fd_is_open raises ValueError on a
\* closed object.
fdfile_io(o) ==
  /\ Installed
  /\ file[o].fd >= 0 /\ IoHandle(o) # NULL
  /\ fault' = IF Usable(IoHandle(o)) THEN fault ELSE "closed handle"
  /\ UNCHANGED <<Installed, FilePool, file, isOpen, held>>

\* The same on sys.stdin, sys.stdout or sys.stderr.
sys_stdio(fd) ==
  /\ Installed
  /\ fault' = IF Usable(UsfGetFileHandle(fd)) THEN fault ELSE "closed handle"
  /\ UNCHANGED <<Installed, FilePool, file, isOpen, held>>

\* Fault model: close forgets to reset the object's fields.
fdfile_close_KeepFields(o) ==
  /\ Installed /\ file[o] # Closed
  /\ fault' = IF Usable(file[o].fh) THEN fault ELSE "closed twice"
  /\ isOpen' = isOpen \ {file[o].fh}
  /\ FilePool' = UsfUnmap(file[o].fd)
  /\ UNCHANGED <<Installed, file, held>>

\* Fault model: close forgets to release the descriptor.
fdfile_close_NoUnmap(o) ==
  /\ Installed /\ file[o] # Closed
  /\ fault' = IF Usable(file[o].fh) THEN fault ELSE "closed twice"
  /\ isOpen' = isOpen \ {file[o].fh}
  /\ file' = [file EXCEPT ![o] = Closed]
  /\ UNCHANGED <<Installed, FilePool, held>>

\* close(), or the end of a with block: FileHandleClose, Unmap, reset the fields.
\* Closing a closed object does nothing.
fdfile_close(o) ==
  /\ Installed /\ file[o] # Closed
  /\ fault' = IF Usable(file[o].fh) THEN fault ELSE "closed twice"
  /\ isOpen' = isOpen \ {file[o].fh}
  /\ FilePool' = UsfUnmap(file[o].fd)
  /\ file' = [file EXCEPT ![o] = Closed]
  /\ UNCHANGED <<Installed, held>>

\* The script drops its last reference.  fdfile_open allocates the object without
\* a finaliser, so the collector never calls __del__: handle and descriptor stay.
Collect(o) ==
  /\ Installed /\ file[o] # Closed
  /\ file' = [file EXCEPT ![o] = Closed]
  /\ UNCHANGED <<Installed, FilePool, isOpen, held, fault>>

-----------------------------------------------------------------------------
ScriptStep ==
  \/ \E o \in Obj : fdfile_open(o) \/ fdfile_io(o) \/ fdfile_close(o) \/ Collect(o)
  \/ \E fd \in Std : sys_stdio(fd)

Next ==
  /\ fault = "none"
  /\ \/ UsfInit
     \/ UsfDeinit
     \/ \E redirection \in [Std -> held \cup {NULL}] : UsfSetStdIo(redirection)
     \/ \E x \in Redirect : RedirectorClose(x)
     \/ ScriptStep

Spec == Init /\ [][Next]_vars

-----------------------------------------------------------------------------
(* Properties.                                                             *)

\* file.c:98, check_fd_is_open: I/O on a closed file is an exception; no read,
\* write, seek, flush, close or open(number) reaches a handle that the file
\* system has closed.
NoClosedHandle == fault = "none"

Live(o) == file[o] # Closed

\* What a file object relies on between two calls: its handle is open, its
\* descriptor maps to that handle, and no other object has either.
OwnsDescriptor(o) ==
  /\ file[o].fd \in Fd \ Std
  /\ file[o].fh \in Handle \cap isOpen
  /\ FilePool[file[o].fd] = file[o].fh
OwnDescriptors ==
  /\ \A o \in Obj : Live(o) => OwnsDescriptor(o)
  /\ \A o, other \in Obj : Live(o) /\ Live(other) /\ o # other
       => file[o].fd # file[other].fd /\ file[o].fh # file[other].fh

\* file.c:117, 137 and 164 look a standard file up in every call: a read, write, seek,
\* flush or open(number) reaches a closed handle only while a standard descriptor is
\* redirected to a handle that a script has closed under its redirector by
\* open(number).close().  Restoring the default and closing the redirection afterwards
\* leaves no script with the closed handle.
StandardIoExplained ==
  fault = "closed handle" => Installed /\ \E fd \in Std : FilePool[fd] \in held \ isOpen

\* The invariant behind these for scripts that open by name: in addition, no
\* object outlives the protocol, and standard descriptors lead to the built-in files
\* or to redirections their owner keeps open.
FileTableInv ==
  /\ TypeOK
  /\ NoClosedHandle
  /\ OwnDescriptors
  /\ ~Installed => \A o \in Obj : file[o] = Closed
  /\ held \subseteq isOpen
  /\ Installed => \A fd \in Std : FilePool[fd] \in held \cup {Device}

\* No other object's open or close, no redirection and no failing open changes the
\* handle behind the descriptor of an object that is neither closed nor collected.
DescriptorStable ==
  [][\A o \in Obj : Live(o) /\ Live(o)' =>
       file'[o] = file[o] /\ FilePool'[file[o].fd] = FilePool[file[o].fd]]_vars

\* usf.c:955, "EFI_NOT_FOUND  Too many opened files.": descriptors run out only when
\* as many files are open.
FullMeansManyOpen ==
  Installed /\ FreeFds = {} => \A fd \in Fd \ Std : FilePool[fd] \in isOpen

\* The invariant behind these two for scripts that open plain files, and numbers only of
\* standard descriptors: every mapped descriptor has an open handle that no other one
\* has, an object either owns its descriptor or shares a standard file, and a standard
\* descriptor leads to a built-in file or to a handle that its redirector holds.
SharesStandard(o) == file[o].fd \in Std /\ file[o].fh \in Redirect \cup {Device}
PoolInv ==
  /\ TypeOK
  /\ \A fd \in Fd \ Std : FilePool[fd] # NULL => FilePool[fd] \in Handle \cap isOpen
  /\ \A fd, other \in Fd \ Std : fd # other /\ FilePool[fd] # NULL => FilePool[fd] # FilePool[other]
  /\ \A fd \in Std : FilePool[fd] \in Redirect \cup {Device, NULL}
  /\ \A o \in Obj : Live(o) => OwnsDescriptor(o) \/ SharesStandard(o)
  /\ \A o, other \in Obj : Live(o) /\ Live(other) /\ o # other /\ file[o].fd \notin Std
       => file[o].fd # file[other].fd
  /\ ~Installed => \A o \in Obj : file[o] = Closed
  /\ Installed => \A fd \in Std : FilePool[fd] \in held \cup {Device}
  /\ StandardIoExplained
=============================================================================
