--------------------------- MODULE DeviceRegistry ---------------------------
(***************************************************************************)
(* How virtual disks come into being and go: the clients that ask the      *)
(* control device for a disk and wait for the answer, the disks that       *)
(* DriverEntry starts from the registry, the device thread that makes its  *)
(* own device object and takes it away again, removal by number through    *)
(* the control device, and ImDiskUnload.                                   *)
(*                                                                         *)
(* The driver has no table of its own: what it knows of its disks is the   *)
(* list of device objects that the I/O manager keeps, and what keeps two   *)
(* disks apart is the object manager's refusal to use a name twice.        *)
(* Requests to a disk are module ImDiskDevice's business; here the backing *)
(* of a disk is one resource, open or closed.                              *)
(***************************************************************************)
EXTENDS Naturals, Sequences

CONSTANTS
  Disks,      \* creations; each stands for one device thread and its device
  MaxDevices, \* the registry value of that name
  Requested,  \* the numbers that creators ask for
  Removed,    \* the numbers that clients ask the control device to remove:
              \* not 0, which is also what the extension of a device object
              \* holds before its device thread has initialised it
  Removers,   \* threads that ask for removals
  Letters,    \* drive letters
  LetterOf,   \* the letter each creation asks for
  Ctl,        \* ImDiskCtlDevice
  Nil         \* no device, no letter, no number

AutoNumber == MaxDevices + 1        \* IMDISK_AUTO_DEVICE_NUMBER

Numbers == 0 .. MaxDevices    \* a chosen number may be one too high

ASSUME RegistryAssumption ==
  /\ MaxDevices \in Nat
  /\ Requested \subseteq (Numbers \cup {AutoNumber})
  /\ Removed \subseteq Numbers \ {0}
  /\ LetterOf \in [Disks -> Letters \cup {Nil}]
  /\ Ctl \notin Disks
  /\ Nil \notin Disks \cup {Ctl} \cup Letters \cup Numbers

VARIABLES
  initializing, \* DO_DEVICE_INITIALIZING of the control device
  pc,           \* where each device thread is
  boot,         \* ~caller_waiting: started by DriverEntry
  wanted,       \* CreateData->DeviceNumber as the client gave it
  chosen,       \* CreateData->DeviceNumber as the device thread left it
  client,       \* the thread in ImDiskAddVirtualDisk
  image,        \* file handle, proxy connection or memory of each disk
  devices,      \* DriverObject->DeviceObject and the NextDevice links
  named,        \* the device objects that still have their name
  number,       \* device_extension->device_number
  terminate,    \* device_extension->terminate_thread
  refs,         \* DeviceObject->ReferenceCount # 0
  links,        \* who made the symbolic link of each number
  letters,      \* the number each drive letter leads to
  found,        \* the pointer a removal has got from its list walk
  unload,       \* where ImDiskUnload is
  at, next      \* its device_object and next_device

threadVars == <<pc, boot, wanted, chosen, client>>
objectVars == <<image, devices, named, number, terminate, refs>>
linkVars == <<links, letters>>
unloadVars == <<unload, at, next>>
vars == <<initializing, threadVars, objectVars, linkVars, found,
          unloadVars>>

ThreadStates == {"idle", "start", "open", "proxy", "create", "link",
                 "init", "created", "failed", "preload", "running",
                 "unlink", "delete", "ended"}

ClientStates == {"none", "waiting", "success", "failure", "returned"}

OnList == {devices[i] : i \in DOMAIN devices}

TypeOK ==
  /\ initializing \in BOOLEAN
  /\ pc \in [Disks -> ThreadStates]
  /\ boot \in [Disks -> BOOLEAN]
  /\ wanted \in [Disks -> Numbers \cup {AutoNumber}]
  /\ chosen \in [Disks -> Numbers]
  /\ client \in [Disks -> ClientStates]
  /\ image \in [Disks -> {"open", "closed"}]
  /\ devices \in Seq(Disks \cup {Ctl})
  /\ named \subseteq Disks
  /\ number \in [Disks -> Numbers]
  /\ terminate \in [Disks -> BOOLEAN]
  /\ refs \in [Disks -> BOOLEAN]
  /\ links \in [Numbers -> Disks \cup {Nil}]
  /\ letters \in [Letters -> Numbers \cup {Nil}]
  /\ found \in [Removers -> Disks \cup {Nil}]
  /\ unload \in {"no", "walk", "wait", "done"}
  /\ at \in Disks \cup {Ctl, Nil}
  /\ next \in Disks \cup {Ctl, Nil}

(* DriverEntry has made the control device.                                *)
Init ==
  /\ initializing = TRUE
  /\ pc = [d \in Disks |-> "idle"]
  /\ boot = [d \in Disks |-> FALSE]
  /\ wanted = [d \in Disks |-> 0]
  /\ chosen = [d \in Disks |-> 0]
  /\ client = [d \in Disks |-> "none"]
  /\ image = [d \in Disks |-> "closed"]
  /\ devices = <<Ctl>>
  /\ named = {}
  /\ number = [d \in Disks |-> 0]
  /\ terminate = [d \in Disks |-> FALSE]
  /\ refs = [d \in Disks |-> FALSE]
  /\ links = [n \in Numbers |-> Nil]
  /\ letters = [l \in Letters |-> Nil]
  /\ found = [r \in Removers |-> Nil]
  /\ unload = "no"
  /\ at = Nil
  /\ next = Nil

-----------------------------------------------------------------------------
(* Names, links and the list, as the executive keeps them.                 *)

(* IoCreateDevice puts a device first in the driver's list, no device is   *)
(* on it twice.                                                            *)
Insert(d) == devices' = <<d>> \o devices

Unlink(d) ==
  LET i == CHOOSE i \in DOMAIN devices : devices[i] = d
  IN  devices' = [j \in 1 .. Len(devices) - 1 |->
                    IF j < i THEN devices[j] ELSE devices[j + 1]]

(* IoDeleteDevice takes the name away at once; the object stays on the     *)
(* list until the last reference is gone.                                  *)
IoDeleteDevice(d) ==
  /\ named' = named \ {d}
  /\ IF refs[d] THEN UNCHANGED devices ELSE Unlink(d)

NameTaken(n) == \E e \in named : chosen[e] = n

CreateDriveLetter(l, n) ==
  letters' = IF l # Nil /\ letters[l] = Nil
             THEN [letters EXCEPT ![l] = n] ELSE letters

RemoveDriveLetter(l) ==
  letters' = IF l # Nil THEN [letters EXCEPT ![l] = Nil] ELSE letters

(* The letter that device_extension->drive_letter names: a device object   *)
(* that is not initialised yet has none.                                   *)
OwnLetter(d) == IF pc[d] \in {"link", "init"} THEN Nil ELSE LetterOf[d]

(* device_number of the list's entries; that of a device object between    *)
(* IoCreateDevice and the end of ImDiskCreateDevice is 0.                  *)
FindFreeDeviceNumber(n) ==
  /\ \A d \in OnList \ {Ctl} : number[d] < n
  /\ n = 0 \/ \E d \in OnList \ {Ctl} : n = number[d] + 1

-----------------------------------------------------------------------------
(* Who asks for a disk.                                                    *)

(* ImDiskAddVirtualDiskAfterInitialization: DriverEntry starts the thread  *)
(* of disk n, once for each n, and does not wait for it.                   *)
BootDisk(d, n) ==
  /\ initializing
  /\ pc[d] = "idle"
  /\ n # AutoNumber
  /\ \A e \in Disks : boot[e] => wanted[e] # n
  /\ pc' = [pc EXCEPT ![d] = "start"]
  /\ boot' = [boot EXCEPT ![d] = TRUE]
  /\ wanted' = [wanted EXCEPT ![d] = n]
  /\ UNCHANGED <<initializing, chosen, client, objectVars, linkVars,
                 found, unloadVars>>

(* The I/O manager clears the flag when DriverEntry has returned.          *)
DriverReady ==
  /\ initializing
  /\ initializing' = FALSE
  /\ UNCHANGED <<threadVars, objectVars, linkVars, found, unloadVars>>

(* IOCTL_IMDISK_CREATE_DEVICE.  A bad buffer, a disallowed letter and a    *)
(* thread that cannot be made end it before there is anything to undo.     *)
AddVirtualDisk(d, n) ==
  /\ ~initializing
  /\ unload = "no"
  /\ pc[d] = "idle"
  /\ wanted' = [wanted EXCEPT ![d] = n]
  /\ \/ /\ pc' = [pc EXCEPT ![d] = "start"]
        /\ client' = [client EXCEPT ![d] = "waiting"]
     \/ /\ pc' = [pc EXCEPT ![d] = "ended"]
        /\ client' = [client EXCEPT ![d] = "returned"]
  /\ UNCHANGED <<initializing, boot, chosen, objectVars, linkVars,
                 found, unloadVars>>

(* created_event is set: the client makes the drive letter, if its disk    *)
(* was created, and returns to its caller.                                 *)
AddReturns(d) ==
  /\ client[d] \in {"success", "failure"}
  /\ client' = [client EXCEPT ![d] = "returned"]
  /\ IF client[d] = "success" THEN CreateDriveLetter(LetterOf[d], chosen[d])
                              ELSE UNCHANGED letters
  /\ UNCHANGED <<initializing, pc, boot, wanted, chosen, objectVars, links,
                 found, unloadVars>>

-----------------------------------------------------------------------------
(* ImDiskCreateDevice, run by the device thread.                           *)

ToFailed(d) == pc' = [pc EXCEPT ![d] = "failed"]

(* Mutant of ChooseNumber: IMDISK_AUTO_DEVICE_NUMBER is taken as it is.    *)
ChooseNoNumber(d) ==
  /\ pc[d] = "start"
  /\ ~initializing
  /\ chosen' = [chosen EXCEPT ![d] = wanted[d]]
  /\ pc' = [pc EXCEPT ![d] = "open"]
  /\ UNCHANGED <<initializing, boot, wanted, client, objectVars, linkVars,
                 found, unloadVars>>

(* Parameters are checked, and a number is chosen if none was asked for.   *)
ChooseNumber(d) ==
  /\ pc[d] = "start"
  /\ ~initializing
  /\ \/ /\ ToFailed(d)
        /\ UNCHANGED chosen
     \/ \E n \in Numbers :
          /\ IF wanted[d] = AutoNumber THEN FindFreeDeviceNumber(n) ELSE n = wanted[d]
          /\ chosen' = [chosen EXCEPT ![d] = n]
          /\ IF n >= MaxDevices THEN ToFailed(d)
                                ELSE pc' = [pc EXCEPT ![d] = "open"]
  /\ UNCHANGED <<initializing, boot, wanted, client, objectVars, linkVars,
                 found, unloadVars>>

(* Opens the image file, allocates the memory or opens the proxy's device  *)
(* or section, whose server is then asked.                                 *)
OpenImage(d) ==
  /\ pc[d] = "open"
  /\ \/ /\ image' = [image EXCEPT ![d] = "open"]
        /\ \E s \in {"create", "proxy"} : pc' = [pc EXCEPT ![d] = s]
     \/ /\ ToFailed(d)
        /\ UNCHANGED image
  /\ UNCHANGED <<initializing, boot, wanted, chosen, client, devices, named,
                 number, terminate, refs, linkVars, found, unloadVars>>

(* The server of a proxy has answered all that ImDiskCreateDevice asks it, *)
(* to connect, the size and the boot sector, or one of the calls has       *)
(* failed.  They have no CancelEvent and no timeout: the thread waits as   *)
(* long as the server is silent.                                           *)
ProxyAnswers(d) ==
  /\ pc[d] = "proxy"
  /\ \/ /\ pc' = [pc EXCEPT ![d] = "create"]
        /\ UNCHANGED image
     \/ /\ image' = [image EXCEPT ![d] = "closed"]
        /\ ToFailed(d)
  /\ UNCHANGED <<initializing, boot, wanted, chosen, client, devices, named,
                 number, terminate, refs, linkVars, found, unloadVars>>

(* Mutant of CreateDeviceObject: the device object has no name.            *)
CreateNamelessDevice(d) ==
  /\ pc[d] = "create"
  /\ Insert(d)
  /\ named' = named \cup {d}
  /\ pc' = [pc EXCEPT ![d] = "link"]
  /\ UNCHANGED <<initializing, boot, wanted, chosen, client, image, number,
                 terminate, refs, linkVars, found, unloadVars>>

(* Sizes and geometry may be wrong, memory may be short, the name may be   *)
(* taken; each closes the image.                                           *)
CreateDeviceObject(d) ==
  /\ pc[d] = "create"
  /\ \/ /\ ~NameTaken(chosen[d])
        /\ Insert(d)
        /\ named' = named \cup {d}
        /\ pc' = [pc EXCEPT ![d] = "link"]
        /\ UNCHANGED image
     \/ /\ image' = [image EXCEPT ![d] = "closed"]
        /\ ToFailed(d)
        /\ UNCHANGED <<devices, named>>
  /\ UNCHANGED <<initializing, boot, wanted, chosen, client, number,
                 terminate, refs, linkVars, found, unloadVars>>

(* Mutant of CreateSymbolicLink: the image stays open when there is no     *)
(* link.                                                                   *)
CreateSymbolicLinkLeaks(d) ==
  /\ pc[d] = "link"
  /\ \/ /\ links[chosen[d]] = Nil
        /\ links' = [links EXCEPT ![chosen[d]] = d]
        /\ pc' = [pc EXCEPT ![d] = "init"]
        /\ UNCHANGED <<named, devices>>
     \/ /\ IoDeleteDevice(d)
        /\ ToFailed(d)
        /\ UNCHANGED links
  /\ UNCHANGED <<initializing, boot, wanted, chosen, client, image, number,
                 terminate, refs, letters, found, unloadVars>>

CreateSymbolicLink(d) ==
  /\ pc[d] = "link"
  /\ \/ /\ links[chosen[d]] = Nil
        /\ links' = [links EXCEPT ![chosen[d]] = d]
        /\ pc' = [pc EXCEPT ![d] = "init"]
        /\ UNCHANGED <<image, named, devices>>
     \/ /\ IoDeleteDevice(d)
        /\ image' = [image EXCEPT ![d] = "closed"]
        /\ ToFailed(d)
        /\ UNCHANGED links
  /\ UNCHANGED <<initializing, boot, wanted, chosen, client, number,
                 terminate, refs, letters, found, unloadVars>>

(* The extension is cleared and filled in, the events are initialised and  *)
(* DO_DEVICE_INITIALIZING is cleared.                                      *)
InitializeExtension(d) ==
  /\ pc[d] = "init"
  /\ number' = [number EXCEPT ![d] = chosen[d]]
  /\ terminate' = [terminate EXCEPT ![d] = FALSE]
  /\ pc' = [pc EXCEPT ![d] = "created"]
  /\ UNCHANGED <<initializing, boot, wanted, chosen, client, image, devices,
                 named, refs, linkVars, found, unloadVars>>

(* The creator is told, or there is none and the thread makes the drive    *)
(* letter itself.                                                          *)
Answer(d, s) ==
  client' = [client EXCEPT ![d] = IF boot[d] THEN "none" ELSE s]

(* Mutant of CreateFails: created_event is not set.                        *)
CreateFailsSilently(d) ==
  /\ pc[d] = "failed"
  /\ pc' = [pc EXCEPT ![d] = "ended"]
  /\ UNCHANGED <<initializing, boot, wanted, chosen, client, objectVars,
                 linkVars, found, unloadVars>>

CreateFails(d) ==
  /\ pc[d] = "failed"
  /\ Answer(d, "failure")
  /\ pc' = [pc EXCEPT ![d] = "ended"]
  /\ UNCHANGED <<initializing, boot, wanted, chosen, objectVars, linkVars,
                 found, unloadVars>>

CreateSucceeds(d) ==
  /\ pc[d] = "created"
  /\ Answer(d, "success")
  /\ IF boot[d] THEN CreateDriveLetter(LetterOf[d], chosen[d])
                ELSE UNCHANGED letters
  /\ pc' = [pc EXCEPT ![d] = "preload"]
  /\ UNCHANGED <<initializing, boot, wanted, chosen, objectVars, links,
                 found, unloadVars>>

-----------------------------------------------------------------------------
(* Removal.                                                                *)

(* Mutant of RemoveVirtualDisk: the device thread is not told to end.      *)
RemoveLetterOnly(d) ==
  /\ RemoveDriveLetter(OwnLetter(d))
  /\ UNCHANGED terminate

RemoveVirtualDisk(d) ==
  /\ RemoveDriveLetter(OwnLetter(d))
  /\ terminate' = [terminate EXCEPT ![d] = TRUE]

(* A memory disk reads its image; one that cannot removes itself and goes  *)
(* on to serve its queue until it is shut down.                            *)
Preload(d) ==
  /\ pc[d] = "preload"
  /\ \/ UNCHANGED <<letters, terminate>>
     \/ RemoveVirtualDisk(d)
  /\ pc' = [pc EXCEPT ![d] = "running"]
  /\ UNCHANGED <<initializing, boot, wanted, chosen, client, image, devices,
                 named, number, refs, links, found, unloadVars>>

(* IOCTL_STORAGE_EJECT_MEDIA on the disk itself, through a file object.    *)
Eject(d) ==
  /\ refs[d]
  /\ ~terminate[d]
  /\ RemoveVirtualDisk(d)
  /\ UNCHANGED <<initializing, threadVars, image, devices, named, number,
                 refs, links, found, unloadVars>>

(* IOCTL_IMDISK_REMOVE_DEVICE: the first device with that number is looked *)
(* for under DeviceListLock, which is then released.                       *)
HasNumber(i, n) == devices[i] # Ctl /\ number[devices[i]] = n

FindDevice(r, n) ==
  /\ ~initializing
  /\ unload = "no"
  /\ found[r] = Nil
  /\ \E i \in DOMAIN devices :
       /\ HasNumber(i, n)
       /\ \A j \in 1 .. i - 1 : ~HasNumber(j, n)
       /\ found' = [found EXCEPT ![r] = devices[i]]
  /\ UNCHANGED <<initializing, threadVars, objectVars, linkVars, unloadVars>>

(* Special files on the disk (a page file) refuse the removal.  A device   *)
(* that has gone since the walk is memory of the pool: nothing of the      *)
(* driver is hit, or the device that was put there.                        *)
RemoveFound(r) ==
  LET d == found[r] IN
  /\ d # Nil
  /\ found' = [found EXCEPT ![r] = Nil]
  /\ \/ UNCHANGED <<letters, terminate>>
     \/ /\ d \in OnList
        /\ RemoveVirtualDisk(d)
     \/ /\ d \notin OnList
        /\ \E e \in OnList \ {Ctl} : RemoveVirtualDisk(e)
  /\ UNCHANGED <<initializing, threadVars, image, devices, named, number,
                 refs, links, unloadVars>>

(* File objects: the I/O manager lets nobody open a device that is being   *)
(* initialised or belongs to a driver that is being unloaded.              *)
OpenFile(d) ==
  /\ d \in named
  /\ pc[d] \notin {"link", "init"}
  /\ unload = "no"
  /\ ~refs[d]
  /\ refs' = [refs EXCEPT ![d] = TRUE]
  /\ UNCHANGED <<initializing, threadVars, image, devices, named, number,
                 terminate, linkVars, found, unloadVars>>

CloseFile(d) ==
  /\ refs[d]
  /\ refs' = [refs EXCEPT ![d] = FALSE]
  /\ IF d \in named THEN UNCHANGED devices ELSE Unlink(d)
  /\ UNCHANGED <<initializing, threadVars, image, named, number, terminate,
                 linkVars, found, unloadVars>>

(* Mutant of ShutDown: the letter is left to whoever asks for the removal. *)
ShutDownKeepsLetter(d) ==
  /\ pc[d] = "running"
  /\ terminate[d]
  /\ image' = [image EXCEPT ![d] = "closed"]
  /\ pc' = IF refs[d] THEN pc ELSE [pc EXCEPT ![d] = "unlink"]
  /\ UNCHANGED <<initializing, boot, wanted, chosen, client, devices, named,
                 number, terminate, refs, linkVars, found, unloadVars>>

(* Mutant of ShutDown: a disk whose backing is closed is taken to be shut  *)
(* down.                                                                   *)
ShutDownOnce(d) ==
  /\ pc[d] = "running"
  /\ terminate[d]
  /\ image[d] = "open"
  /\ IF boot[d] THEN RemoveDriveLetter(LetterOf[d]) ELSE UNCHANGED letters
  /\ image' = [image EXCEPT ![d] = "closed"]
  /\ pc' = IF refs[d] THEN pc ELSE [pc EXCEPT ![d] = "unlink"]
  /\ UNCHANGED <<initializing, boot, wanted, chosen, client, devices, named,
                 number, terminate, refs, links, found, unloadVars>>

(* The device thread shuts down: the letter of a disk of DriverEntry's and *)
(* the backing go first; while somebody has the device open it goes back   *)
(* to its queue.                                                           *)
ShutDown(d) ==
  /\ pc[d] = "running"
  /\ terminate[d]
  /\ IF boot[d] THEN RemoveDriveLetter(LetterOf[d]) ELSE UNCHANGED letters
  /\ image' = [image EXCEPT ![d] = "closed"]
  /\ pc' = IF refs[d] THEN pc ELSE [pc EXCEPT ![d] = "unlink"]
  /\ UNCHANGED <<initializing, boot, wanted, chosen, client, devices, named,
                 number, terminate, refs, links, found, unloadVars>>

(* There may be no memory for the name of the link, which then stays.      *)
DeleteSymbolicLink(d) ==
  /\ pc[d] = "unlink"
  /\ \/ links' = [links EXCEPT ![number[d]] = Nil]
     \/ UNCHANGED links
  /\ pc' = [pc EXCEPT ![d] = "delete"]
  /\ UNCHANGED <<initializing, boot, wanted, chosen, client, objectVars,
                 letters, found, unloadVars>>

DeleteDevice(d) ==
  /\ pc[d] = "delete"
  /\ IoDeleteDevice(d)
  /\ pc' = [pc EXCEPT ![d] = "ended"]
  /\ UNCHANGED <<initializing, boot, wanted, chosen, client, image, number,
                 terminate, refs, linkVars, found, unloadVars>>

-----------------------------------------------------------------------------
(* ImDiskUnload.  The I/O manager calls it when nobody has a device of the *)
(* driver open.  The walk is assumed to begin with no creation and no      *)
(* removal under way: it takes no lock, and its next_device may else be a  *)
(* device that its own thread deletes.                                     *)

Quiet ==
  /\ \A d \in Disks : pc[d] \in {"idle", "ended"}
                        \/ (pc[d] = "running" /\ ~terminate[d])
  /\ \A d \in Disks : ~refs[d]
  /\ \A d \in Disks : client[d] \in {"none", "returned"}
  /\ \A r \in Removers : found[r] = Nil

UnloadBegins ==
  /\ ~initializing
  /\ unload = "no"
  /\ Quiet
  /\ unload' = "walk"
  /\ at' = devices[1]
  /\ UNCHANGED <<initializing, threadVars, objectVars, linkVars, found,
                 next>>

(* NextDevice of a device on the list.                                     *)
NextDevice(d) ==
  LET i == CHOOSE i \in DOMAIN devices : devices[i] = d
  IN  IF i = Len(devices) THEN Nil ELSE devices[i + 1]

(* Nobody has the control device open any more: it goes at once.           *)
UnloadControl ==
  /\ unload = "walk"
  /\ at = Ctl
  /\ at' = NextDevice(Ctl)
  /\ Unlink(Ctl)
  /\ UNCHANGED <<initializing, threadVars, image, named, number, terminate,
                 refs, linkVars, found, unload, next>>

UnloadDisk ==
  /\ unload = "walk"
  /\ at \in Disks
  /\ next' = NextDevice(at)
  /\ RemoveVirtualDisk(at)
  /\ unload' = "wait"
  /\ UNCHANGED <<initializing, threadVars, image, devices, named, number,
                 refs, links, found, at>>

(* The wait for the device thread's thread object.                         *)
UnloadWait ==
  /\ unload = "wait"
  /\ pc[at] = "ended"
  /\ at' = next
  /\ unload' = "walk"
  /\ UNCHANGED <<initializing, threadVars, objectVars, linkVars, found,
                 next>>

UnloadEnds ==
  /\ unload = "walk"
  /\ at = Nil
  /\ unload' = "done"
  /\ UNCHANGED <<initializing, threadVars, objectVars, linkVars, found,
                 at, next>>

-----------------------------------------------------------------------------
DeviceThread(d) ==
  \/ ChooseNumber(d)
  \/ OpenImage(d)
  \/ CreateDeviceObject(d)
  \/ CreateSymbolicLink(d)
  \/ InitializeExtension(d)
  \/ CreateFails(d)
  \/ CreateSucceeds(d)
  \/ Preload(d)
  \/ ShutDown(d)
  \/ DeleteSymbolicLink(d)
  \/ DeleteDevice(d)

Unloader == UnloadControl \/ UnloadDisk \/ UnloadWait \/ UnloadEnds

Next ==
  \/ \E d \in Disks, n \in Requested : BootDisk(d, n) \/ AddVirtualDisk(d, n)
  \/ DriverReady
  \/ \E d \in Disks : DeviceThread(d)
  \/ \E d \in Disks : ProxyAnswers(d)
  \/ \E d \in Disks : AddReturns(d)
  \/ \E d \in Disks : Eject(d)
  \/ \E d \in Disks : OpenFile(d) \/ CloseFile(d)
  \/ \E r \in Removers, n \in Removed : FindDevice(r, n)
  \/ \E r \in Removers : RemoveFound(r)
  \/ UnloadBegins
  \/ Unloader

(* DriverEntry returns, threads that can run do so, and a client that has  *)
(* a disk open closes it some time.  Nobody has to ask for a removal or to *)
(* unload the driver, and the server of a proxy need not answer.           *)
Fairness ==
  /\ WF_vars(DriverReady)
  /\ \A d \in Disks : WF_vars(DeviceThread(d))
  /\ \A d \in Disks : WF_vars(AddReturns(d))
  /\ \A d \in Disks : WF_vars(CloseFile(d))
  /\ WF_vars(Unloader)

Spec == Init /\ [][Next]_vars /\ Fairness

-----------------------------------------------------------------------------
(* Properties.                                                             *)

Initialised(d) == d \in OnList /\ pc[d] \notin {"link", "init"}

(* Two disks that have their names never have one number, although a       *)
(* number is looked for and taken in two steps and device objects are on   *)
(* the list before they have their number.                                 *)
UniqueNumbers ==
  \A d, e \in named :
    Initialised(d) /\ Initialised(e) /\ number[d] = number[e] => d = e

(* What a creator is told is so: after success the disk is there, whole,   *)
(* unless somebody has removed it since; after failure nothing of it is    *)
(* left behind, at whatever step it failed.                                *)
AnswerIsTrue ==
  \A d \in Disks :
    /\ client[d] = "success" =>
         \/ terminate[d]
         \/ /\ d \in named /\ Initialised(d)
            /\ number[d] = chosen[d] /\ links[chosen[d]] = d
            /\ image[d] = "open"
    /\ client[d] = "failure" =>
         /\ d \notin named /\ d \notin OnList
         /\ image[d] = "closed"
         /\ \A n \in Numbers : links[n] # d

(* A device thread ends with its backing closed, its name given back, its  *)
(* device off the list unless a file object still holds it, and the drive  *)
(* letter that it made itself gone, whenever the removal came (if no other *)
(* disk asks for the same letter).                                         *)
OwnsLetter(d) ==
  LetterOf[d] # Nil /\ \A e \in Disks \ {d} : LetterOf[e] # LetterOf[d]

ThreadsLeaveNothing ==
  \A d \in Disks : pc[d] = "ended" =>
    /\ image[d] = "closed"
    /\ d \notin named
    /\ d \in OnList => refs[d]
    /\ boot[d] /\ OwnsLetter(d) => letters[LetterOf[d]] = Nil

(***************************************************************************)
(* The inductive invariant, in parts.                                      *)
(***************************************************************************)
NamedStates == {"link", "init", "created", "preload", "running", "unlink",
                "delete"}

(* Names: device objects have them from IoCreateDevice to IoDeleteDevice,  *)
(* and the number in the name is the one the device thread chose.          *)
Names ==
  /\ \A i, j \in DOMAIN devices : devices[i] = devices[j] => i = j
  /\ \A d \in Disks : d \in named <=> pc[d] \in NamedStates
  /\ named \subseteq OnList
  /\ \A d \in Disks \cap OnList : d \in named \/ (pc[d] = "ended" /\ refs[d])
  /\ \A d \in Disks : refs[d] => d \in OnList /\ pc[d] \notin {"link", "init"}
  /\ \A d, e \in named : chosen[d] = chosen[e] => d = e
  /\ \A d \in named : pc[d] \notin {"link", "init"} => number[d] = chosen[d]

(* The backing, the link and the letter of a disk by the phase of its      *)
(* device thread.                                                          *)
Holdings ==
  \A d \in Disks :
    /\ pc[d] \in {"idle", "start", "open", "failed", "unlink", "delete", "ended"}
         => image[d] = "closed"
    /\ pc[d] \in {"proxy", "create", "link", "init", "created", "preload"}
         => image[d] = "open"
    /\ pc[d] = "running" => terminate[d] \/ image[d] = "open"
    /\ pc[d] \in {"unlink", "delete"} => terminate[d]
    /\ pc[d] \in {"init", "created", "preload", "running"}
         => links[chosen[d]] = d
    /\ pc[d] \in {"idle", "start", "open", "proxy", "create", "link", "failed"}
         => \A n \in Numbers : links[n] # d
    /\ (boot[d] \/ pc[d] = "idle") /\ pc[d] \notin {"preload", "running"}
         /\ OwnsLetter(d) => letters[LetterOf[d]] = Nil

(* What the creator knows by the phase of the device thread.               *)
Clients ==
  \A d \in Disks :
    /\ boot[d] \/ pc[d] = "idle" => client[d] = "none"
    /\ pc[d] = "idle" => ~boot[d]
    /\ client[d] = "success" =>
         /\ pc[d] \in {"preload", "running", "unlink", "delete", "ended"}
         /\ pc[d] = "ended" => terminate[d]
    /\ client[d] = "failure" =>
         /\ pc[d] = "ended" /\ d \notin OnList
         /\ \A n \in Numbers : links[n] # d

(* ImDiskUnload finds every device that it comes to on the list: the only  *)
(* thread that ends meanwhile is the one it waits for.                     *)
UnloadWalk ==
  /\ unload = "no" => Ctl \in OnList
  /\ unload # "no" =>
       /\ ~initializing
       /\ \A r \in Removers : found[r] = Nil
       /\ \A d \in Disks :
            /\ ~refs[d]
            /\ client[d] \in {"none", "returned"}
            /\ pc[d] \in {"idle", "ended", "running", "unlink", "delete"}
            /\ pc[d] \in {"unlink", "delete"} \/ (pc[d] = "running" /\ terminate[d])
                 => unload = "wait" /\ d = at
  /\ unload = "walk" /\ at # Nil => at \in OnList
  /\ unload = "wait" =>
       /\ at \in Disks
       /\ next # Nil => next \in OnList /\ next # at

IInv == TypeOK /\ Names /\ Holdings /\ Clients /\ UnloadWalk

(* A removal is not lost, whether it comes when the disk has just been     *)
(* made, while it reads its image or later: the disk goes, unless somebody *)
(* opens it, and then after he has closed it.                              *)
RemovedDiskGoes ==
  \A d \in Disks :
    terminate[d] /\ Initialised(d) ~> pc[d] = "ended" \/ refs[d]

(* Everybody who asked for a disk is answered, at whatever step it fails   *)
(* and whatever others create and remove meanwhile, unless the server of   *)
(* its proxy stays silent: then ImDiskAddVirtualDisk never returns.        *)
CreatorIsAnswered ==
  \A d \in Disks :
    []<>(pc[d] # "proxy") => (client[d] = "waiting" ~> client[d] = "returned")

(* The driver can be unloaded: no device thread keeps ImDiskUnload waiting *)
(* for ever, and it returns with no device object left and no thread in    *)
(* the driver's code.                                                      *)
UnloadFinishes ==
  unload # "no" ~>
    /\ unload = "done"
    /\ devices = <<>>
    /\ \A d \in Disks : pc[d] \in {"idle", "ended"}
=============================================================================
