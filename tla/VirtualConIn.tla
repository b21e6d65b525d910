---------------------------- MODULE VirtualConIn ----------------------------
(***************************************************************************)
(* The input half of the virtual console (VirtualConsoleDxe/VirtualConIn.c)*)
(* : a key queue that InputKey fills and ReadKeyStroke empties, the        *)
(* WaitForKey event, Reset, and the list of key notifications.             *)
(*                                                                         *)
(* There is one processor.  Code at TPL_APPLICATION (the shell, the REPL)  *)
(* may be interrupted between any two locked sections by code at           *)
(* TPL_CALLBACK (timer notifications, and the asynchronous scripts that    *)
(* they run); code at TPL_CALLBACK is not interrupted by either, because   *)
(* TxtInLock is itself a TPL_CALLBACK lock.  So a call from TPL_CALLBACK is*)
(* one step.  A call from TPL_APPLICATION is one step per locked section   *)
(* and, where it walks the notification list, which no lock protects, one  *)
(* step per node; a single list operation of BaseLib is one step.          *)
(***************************************************************************)
EXTENDS Naturals, Sequences, FiniteSets

CONSTANTS Code,           \* scan code and character of a key
          ShiftState,     \* KeyShiftState of a key; 0 in a registration: any
          ToggleState,    \* KeyToggleState of a key; 0 in a registration: any
          Callback,       \* notification functions
          CallbackReads,  \* code at TPL_CALLBACK reads keys or resets the device
          CallbackNotify, \* code at TPL_CALLBACK registers and unregisters notifications
          MaxPress,       \* bound: keys pressed in a behaviour
          MaxNotify,      \* bound: length of the notification list
          NULL

ASSUME InAssumption == /\ CallbackReads \in BOOLEAN /\ CallbackNotify \in BOOLEAN
                       /\ MaxPress \in Nat /\ MaxNotify \in Nat

VARIABLES loaded,         \* the driver is loaded, its protocols are installed
          KeyQueue,
          KeyNotifyList,  \* registrations, in the order of the list
          KeyToggleState,
          app,            \* where the caller at TPL_APPLICATION is
          pressed,        \* history: keys that InputKey accepted
          taken,          \* history: keys that left the queue
          request,        \* what RegisterKeyNotify is called with at TPL_APPLICATION
          handle,         \* place of the node UnregisterKeyNotify is to remove; 0: freed
          link,           \* place of the node the walk of either is at; 0: the list head
          freed,          \* that node was freed under the walk
          stolen,         \* history: keys were taken between the two sections of DequeKeyData
          raced,          \* history: pairs registered at TPL_CALLBACK between the end of a scan
                          \* for the same pair and its insertion
          fault

vars == <<loaded, KeyQueue, KeyNotifyList, KeyToggleState, app, pressed, taken,
          request, handle, link, freed, stolen, raced, fault>>

\* EFI_KEY_DATA.
Key == [code : Code, shift : ShiftState, toggle : ToggleState]
Registration == [key : Key, callback : Callback]

\* "remove": between the two locked sections of DequeKeyData, for a read or for the
\* loop of a reset; "wait": in WaitForEvent(WaitForKey).  "register", "unregister": in
\* the walk of the call; "insert", "unlink": after it.
Removing == {"remove to read", "remove to reset"}
Walking == {"register", "unregister", "unlink"}
AppPC == {"idle", "wait", "read", "reset", "insert"} \cup Removing \cup Walking

\* Ranges of the variables.
TypeOK ==
  /\ loaded \in BOOLEAN
  /\ KeyQueue \in Seq(Key) /\ pressed \in Seq(Key) /\ taken \in Seq(Key)
  /\ KeyNotifyList \in Seq(Registration)
  /\ KeyToggleState \in {0, 1}
  /\ app \in AppPC /\ stolen \in BOOLEAN
  /\ request \in Registration \cup {NULL} /\ raced \in SUBSET Registration
  /\ handle \in Nat /\ link \in Nat /\ freed \in BOOLEAN
  /\ fault \in {"none", "phantom key", "freed node"}

\* After InitializeVirtualConsole.
Init ==
  /\ loaded = TRUE
  /\ KeyQueue = <<>> /\ pressed = <<>> /\ taken = <<>>
  /\ KeyNotifyList = <<>>
  /\ KeyToggleState = 0
  /\ app = "idle" /\ stolen = FALSE
  /\ request = NULL /\ handle = 0 /\ link = 0 /\ freed = FALSE /\ raced = {}
  /\ fault = "none"

queue == <<KeyQueue, pressed, taken>>
walk == <<request, handle, link, freed>>
notify == <<KeyNotifyList, walk, raced>>

-----------------------------------------------------------------------------
(* Filling the queue.                                                      *)

\* Fault model: the new key goes to the head of the list.
EnqueKeyData_Head(k, ok) ==
  IF ok THEN /\ KeyQueue' = <<k>> \o KeyQueue
             /\ pressed' = Append(pressed, k)
        ELSE UNCHANGED <<KeyQueue, pressed>>

\* Allocate a node, append it under TxtInLock; EFI_OUT_OF_RESOURCES otherwise.
EnqueKeyData(k, ok) ==
  IF ok THEN /\ KeyQueue' = Append(KeyQueue, k)
             /\ pressed' = Append(pressed, k)
        ELSE UNCHANGED <<KeyQueue, pressed>>

\* Called from TPL_APPLICATION or TPL_CALLBACK; the notification list is not looked at.
InputKey(k, ok) ==
  /\ loaded /\ Len(pressed) < MaxPress
  /\ EnqueKeyData(k, ok)
  /\ UNCHANGED <<loaded, notify, KeyToggleState, app, taken, stolen, fault>>

-----------------------------------------------------------------------------
(* Emptying the queue from TPL_APPLICATION.                                *)

\* ReadKeyStroke and ReadKeyStrokeEx, and ConInReset and ResetEx, are called.
Call(op) ==
  /\ loaded
  /\ app = "idle"
  /\ app' = op
  /\ UNCHANGED <<loaded, queue, notify, KeyToggleState, stolen, fault>>

IsKeyQueueEmpty == KeyQueue = <<>>

\* Fault model: the queue is not looked at before its first node is taken.
DequeKeyData_TestNot(op) ==
  /\ app = op
  /\ app' = IF op = "read" THEN "remove to read" ELSE "remove to reset"
  /\ stolen' = FALSE
  /\ UNCHANGED <<loaded, queue, notify, KeyToggleState, fault>>

\* DequeKeyData, first locked section: IsKeyQueueEmpty.  EFI_NOT_READY ends a read,
\* and ends the loop of a reset, which returns it.
DequeKeyData_Test(op) ==
  /\ app = op
  /\ app' = IF IsKeyQueueEmpty THEN "idle"
            ELSE IF op = "read" THEN "remove to read" ELSE "remove to reset"
  /\ stolen' = FALSE
  /\ UNCHANGED <<loaded, queue, notify, KeyToggleState, fault>>

\* DequeKeyData, second locked section: take the first node.  The first node of an
\* empty list is the list head, that is, part of the device record, which is then
\* copied out as a key and freed.
DequeKeyData_Remove(op) ==
  /\ app = IF op = "read" THEN "remove to read" ELSE "remove to reset"
  /\ IF KeyQueue = <<>>
     THEN fault' = "phantom key" /\ UNCHANGED <<KeyQueue, taken>>
     ELSE /\ KeyQueue' = Tail(KeyQueue)
          /\ taken' = Append(taken, Head(KeyQueue))
          /\ UNCHANGED fault
  /\ app' = IF op = "read" THEN "idle" ELSE "reset"
  /\ UNCHANGED <<loaded, pressed, notify, KeyToggleState, stolen>>

\* WaitForEvent(WaitForKey).
WaitForEvent ==
  /\ loaded
  /\ app = "idle"
  /\ app' = "wait"
  /\ UNCHANGED <<loaded, queue, notify, KeyToggleState, stolen, fault>>

\* Fault model: the event is signalled when there is no key.
WaitForKeyCallback_Inverted ==
  /\ app = "wait" /\ KeyQueue = <<>>
  /\ app' = "read"
  /\ UNCHANGED <<loaded, queue, notify, KeyToggleState, stolen, fault>>

\* The event's notification, run for the waiter: signal if there is a key.  The
\* waiter then reads.
WaitForKeyCallback ==
  /\ app = "wait" /\ ~IsKeyQueueEmpty
  /\ app' = "read"
  /\ UNCHANGED <<loaded, queue, notify, KeyToggleState, stolen, fault>>

-----------------------------------------------------------------------------
(* The same calls from TPL_CALLBACK, in one step.                          *)

CallbackRead ==
  /\ CallbackReads
  /\ loaded
  /\ stolen' = (stolen \/ app \in Removing)
  /\ IF KeyQueue = <<>> THEN UNCHANGED <<KeyQueue, taken>>
     ELSE KeyQueue' = Tail(KeyQueue) /\ taken' = Append(taken, Head(KeyQueue))
  /\ UNCHANGED <<loaded, pressed, notify, KeyToggleState, app, fault>>

CallbackReset ==
  /\ CallbackReads
  /\ loaded
  /\ stolen' = (stolen \/ app \in Removing)
  /\ KeyQueue' = <<>> /\ taken' = taken \o KeyQueue
  /\ UNCHANGED <<loaded, pressed, notify, KeyToggleState, app, fault>>

-----------------------------------------------------------------------------
(* The Ex protocol's notifications and state.                              *)

IsKeyRegistered(registered, input) ==
  /\ registered.code = input.code
  /\ registered.shift = 0 \/ registered.shift = input.shift
  /\ registered.toggle = 0 \/ registered.toggle = input.toggle

Registers(node, k, cb) == IsKeyRegistered(node.key, k) /\ node.callback = cb

GetFirstNode == IF KeyNotifyList = <<>> THEN 0 ELSE 1
GetNextNode == IF link < Len(KeyNotifyList) THEN link + 1 ELSE 0

\* RemoveEntryList.
Without(list, i) == SubSeq(list, 1, i - 1) \o SubSeq(list, i + 1, Len(list))

\* The call returns.
Return == app' = "idle" /\ request' = NULL /\ handle' = 0 /\ link' = 0 /\ freed' = FALSE

\* The walk reads a node that was freed under it.
ReadFreedNode ==
  /\ app \in Walking /\ freed
  /\ fault' = "freed node"
  /\ UNCHANGED <<loaded, queue, KeyToggleState, notify, app, stolen>>

\* Fault model: what is already registered is not looked for.
RegisterKeyNotify_NoScan(k, cb) ==
  /\ loaded /\ app = "idle"
  /\ app' = "insert"
  /\ request' = [key |-> k, callback |-> cb] /\ link' = 0
  /\ UNCHANGED <<loaded, queue, KeyToggleState, KeyNotifyList, handle, freed, raced, stolen, fault>>

\* RegisterKeyNotify is called: the loop begins at the first node.
RegisterKeyNotify(k, cb) ==
  /\ loaded /\ app = "idle"
  /\ app' = "register"
  /\ request' = [key |-> k, callback |-> cb] /\ link' = GetFirstNode
  /\ UNCHANGED <<loaded, queue, KeyToggleState, KeyNotifyList, handle, freed, raced, stolen, fault>>

\* One node of the loop: what is registered already is the answer.
RegisterKeyNotify_Scan ==
  /\ app = "register" /\ ~freed
  /\ IF link = 0 THEN app' = "insert" /\ UNCHANGED walk
     ELSE IF Registers(KeyNotifyList[link], request.key, request.callback) THEN Return
     ELSE link' = GetNextNode /\ UNCHANGED <<app, request, handle, freed>>
  /\ UNCHANGED <<loaded, queue, KeyToggleState, KeyNotifyList, raced, stolen, fault>>

\* AllocatePool, InsertTailList; EFI_OUT_OF_RESOURCES otherwise.  No lock is held.
RegisterKeyNotify_Insert(ok) ==
  /\ app = "insert"
  /\ ok => Len(KeyNotifyList) < MaxNotify
  /\ KeyNotifyList' = IF ok THEN Append(KeyNotifyList, request) ELSE KeyNotifyList
  /\ Return
  /\ UNCHANGED <<loaded, queue, KeyToggleState, raced, stolen, fault>>

\* UnregisterKeyNotify is called with the handle of a node.
UnregisterKeyNotify(i) ==
  /\ loaded /\ app = "idle"
  /\ i \in DOMAIN KeyNotifyList
  /\ app' = "unregister"
  /\ handle' = i /\ link' = GetFirstNode
  /\ UNCHANGED <<loaded, queue, KeyToggleState, KeyNotifyList, request, freed, raced, stolen, fault>>

\* One node of its loop; EFI_INVALID_PARAMETER at the end of the list.
UnregisterKeyNotify_Scan ==
  /\ app = "unregister" /\ ~freed
  /\ IF link = 0 THEN Return
     ELSE IF link = handle THEN app' = "unlink" /\ UNCHANGED walk
     ELSE link' = GetNextNode /\ UNCHANGED <<app, request, handle, freed>>
  /\ UNCHANGED <<loaded, queue, KeyToggleState, KeyNotifyList, raced, stolen, fault>>

\* RemoveEntryList, FreePool.
UnregisterKeyNotify_Remove ==
  /\ app = "unlink" /\ ~freed
  /\ KeyNotifyList' = Without(KeyNotifyList, link)
  /\ Return
  /\ UNCHANGED <<loaded, queue, KeyToggleState, raced, stolen, fault>>

\* The same calls from TPL_CALLBACK, in one step.
CallbackRegister(k, cb, ok) ==
  LET r == [key |-> k, callback |-> cb]
      new == ok /\ \A i \in DOMAIN KeyNotifyList : ~Registers(KeyNotifyList[i], k, cb)
      late == app = "insert" \/ (app = "register" /\ link = 0)
  IN /\ CallbackNotify /\ loaded
     /\ new => Len(KeyNotifyList) < MaxNotify
     /\ KeyNotifyList' = IF new THEN Append(KeyNotifyList, r) ELSE KeyNotifyList
     /\ raced' = IF new /\ late /\ request = r THEN raced \cup {r} ELSE raced
     /\ UNCHANGED <<loaded, queue, KeyToggleState, app, walk, stolen, fault>>

CallbackUnregister(j) ==
  /\ CallbackNotify /\ loaded
  /\ j \in DOMAIN KeyNotifyList
  /\ KeyNotifyList' = Without(KeyNotifyList, j)
  /\ link' = IF j < link THEN link - 1 ELSE link
  /\ freed' = (freed \/ (app \in Walking /\ j = link))
  /\ handle' = IF j < handle THEN handle - 1 ELSE IF j = handle THEN 0 ELSE handle
  /\ UNCHANGED <<loaded, queue, KeyToggleState, app, request, raced, stolen, fault>>

SetState(toggle) ==
  /\ loaded
  /\ KeyToggleState' = toggle
  /\ UNCHANGED <<loaded, queue, notify, app, stolen, fault>>

\* VirtualConsoleUnload, input part: drain the queue and free the notifications.
Unload ==
  /\ loaded /\ app = "idle"
  /\ loaded' = FALSE
  /\ KeyQueue' = <<>> /\ taken' = taken \o KeyQueue
  /\ KeyNotifyList' = <<>>
  /\ UNCHANGED <<pressed, KeyToggleState, app, walk, raced, stolen, fault>>

-----------------------------------------------------------------------------
Next ==
  /\ fault = "none"
  /\ \/ \E k \in Key, ok \in BOOLEAN : InputKey(k, ok)
     \/ \E op \in {"read", "reset"} : Call(op) \/ DequeKeyData_Test(op) \/ DequeKeyData_Remove(op)
     \/ WaitForEvent \/ WaitForKeyCallback
     \/ CallbackRead \/ CallbackReset
     \/ \E k \in Key, cb \in Callback : RegisterKeyNotify(k, cb)
     \/ RegisterKeyNotify_Scan \/ UnregisterKeyNotify_Scan \/ UnregisterKeyNotify_Remove
     \/ \E ok \in BOOLEAN : RegisterKeyNotify_Insert(ok)
     \/ \E i \in DOMAIN KeyNotifyList : UnregisterKeyNotify(i) \/ CallbackUnregister(i)
     \/ \E k \in Key, cb \in Callback, ok \in BOOLEAN : CallbackRegister(k, cb, ok)
     \/ ReadFreedNode
     \/ \E toggle \in {0, 1} : SetState(toggle)
     \/ Unload

Spec == Init /\ [][Next]_vars

\* The application at TPL_APPLICATION runs: its calls return, an event that is
\* checked again and again is signalled, and it is a console's reader: among its other
\* calls it calls ReadKeyStroke again and again.
FairSpec ==
  /\ Spec
  /\ SF_vars(Call("read"))
  /\ \A op \in {"read", "reset"} : WF_vars(DequeKeyData_Test(op)) /\ WF_vars(DequeKeyData_Remove(op))
  /\ WF_vars(WaitForKeyCallback)
  /\ WF_vars(RegisterKeyNotify_Scan) /\ WF_vars(\E ok \in BOOLEAN : RegisterKeyNotify_Insert(ok))
  /\ WF_vars(UnregisterKeyNotify_Scan) /\ WF_vars(UnregisterKeyNotify_Remove)
  /\ WF_vars(ReadFreedNode)

-----------------------------------------------------------------------------
(* Properties.                                                             *)

\* Keys leave the queue in the order in which they were pressed, none twice and none
\* lost, whoever reads and resets at whichever priority.
KeysInOrder == pressed = taken \o KeyQueue

\* "EFI_NOT_READY  There was no keystroke data available." (VirtualConIn.c:88): a read
\* that finds no key says so and does not make one up from the list head, unless code
\* at TPL_CALLBACK took keys between the two locked sections of DequeKeyData.
PhantomExplained == fault = "phantom key" => stolen

\* VirtualConIn.c:389: a (KeyData, Callback) pair is in the list at most once, so that
\* unregistering its handle removes it, however calls at TPL_CALLBACK change the list
\* under the unlocked scan, but for one case: a registration of the same pair at
\* TPL_CALLBACK after the scan's last node and before the insertion (VirtualConIn.c:412).
RegisteredOnce ==
  \A i, j \in DOMAIN KeyNotifyList :
    KeyNotifyList[i] = KeyNotifyList[j] => i = j \/ KeyNotifyList[i] \in raced

\* A reader that waits for WaitForKey, polls or resets gets through all keys that are
\* pressed, at whatever moment they come.  Only a phantom key or a freed node can stop it,
\* or code at TPL_CALLBACK that changes the notification list under its walks for ever.
KeysAreRead ==
  \/ []<><<app \in Walking /\ \E j \in DOMAIN KeyNotifyList : CallbackUnregister(j)>>_vars
  \/ \A n \in 1..MaxPress : Len(pressed) >= n ~> Len(taken) >= n \/ fault # "none"
=============================================================================
