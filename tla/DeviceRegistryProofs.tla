------------------------ MODULE DeviceRegistryProofs ------------------------
(***************************************************************************)
(* Proofs about DeviceRegistry for any number of disks, letters, removers  *)
(* and any MaxDevices: device numbers are unique, creators are told the    *)
(* truth, and device threads leave nothing behind.                         *)
(***************************************************************************)
EXTENDS DeviceRegistry, SequenceTheorems, TLAPS

-----------------------------------------------------------------------------
(* The list of device objects.                                             *)

Once(s) == \A i, j \in DOMAIN s : s[i] = s[j] => i = j

(* IoCreateDevice puts one device object on the list.                      *)
LEMMA InsertFacts ==
  ASSUME devices \in Seq(Disks \cup {Ctl}), Once(devices),
         NEW d \in Disks, d \notin OnList, Insert(d)
  PROVE  /\ devices' \in Seq(Disks \cup {Ctl})
         /\ Once(devices')
         /\ OnList' = OnList \cup {d}
<1>1. devices' = <<d>> \o devices
  BY DEF Insert
<1>2. <<d>> \in Seq(Disks \cup {Ctl}) /\ Len(<<d>>) = 1
  OBVIOUS
<1>3. /\ devices' \in Seq(Disks \cup {Ctl})
      /\ Len(devices') = Len(devices) + 1
      /\ \A i \in 1 .. Len(devices) + 1 :
           devices'[i] = IF i = 1 THEN d ELSE devices[i - 1]
  BY <1>1, <1>2, ConcatProperties
<1>4. \A i \in 1 .. Len(devices) : devices[i] = devices'[i + 1]
  BY <1>3
<1>5. OnList' = OnList \cup {d}
  <2>1. \A e \in OnList' : e \in OnList \cup {d}
    BY <1>3 DEF OnList
  <2>2. d \in OnList' 
    BY <1>3 DEF OnList
  <2>3. ASSUME NEW i \in 1 .. Len(devices)
        PROVE  devices[i] \in OnList'
    <3>1. i + 1 \in DOMAIN devices' /\ devices'[i + 1] = devices[i]
      BY <1>3, <1>4
    <3>2. QED
      BY <3>1 DEF OnList
  <2>4. \A e \in OnList : e \in OnList'
    BY <2>3 DEF OnList
  <2>5. QED
    BY <2>1, <2>2, <2>4
<1>6. Once(devices')
  BY <1>3 DEF Once, OnList
<1>7. QED
  BY <1>3, <1>5, <1>6

(* The last reference to a device object that has no name any more, or     *)
(* IoDeleteDevice without references, takes it off the list.               *)
LEMMA UnlinkFacts ==
  ASSUME devices \in Seq(Disks \cup {Ctl}), Once(devices),
         NEW d \in OnList, Unlink(d)
  PROVE  /\ devices' \in Seq(Disks \cup {Ctl})
         /\ Once(devices')
         /\ OnList' = OnList \ {d}
<1> DEFINE i == CHOOSE k \in DOMAIN devices : devices[k] = d
           n == Len(devices)
<1>1. n \in Nat /\ DOMAIN devices = 1 .. n
  OBVIOUS
<1>2. i \in 1 .. n /\ devices[i] = d
  BY <1>1 DEF OnList
<1>3. devices' = [j \in 1 .. n - 1 |->
                    IF j < i THEN devices[j] ELSE devices[j + 1]]
  BY DEF Unlink
<1> HIDE DEF i, n
<1>4. \A j \in 1 .. n - 1 : devices'[j] \in Disks \cup {Ctl}
  BY <1>1, <1>2, <1>3, ElementOfSeq DEF n
<1>5. /\ devices' \in Seq(Disks \cup {Ctl})
      /\ DOMAIN devices' = 1 .. n - 1
  BY <1>1, <1>2, <1>3, <1>4, IsASeq
<1>6. Once(devices')
  <2> SUFFICES ASSUME NEW a \in 1 .. n - 1, NEW b \in 1 .. n - 1,
                      devices'[a] = devices'[b]
               PROVE  a = b
    BY <1>5 DEF Once
  <2> DEFINE old(k) == IF k < i THEN k ELSE k + 1
  <2>1. devices[old(a)] = devices[old(b)]
    BY <1>1, <1>2, <1>3
  <2>2. old(a) \in DOMAIN devices /\ old(b) \in DOMAIN devices
    BY <1>1, <1>2
  <2>3. old(a) = old(b)
    BY <2>1, <2>2 DEF Once
  <2>4. QED
    BY <2>3, <1>1, <1>2
<1>7. \A e \in OnList' : e \in OnList \ {d}
  BY <1>1, <1>2, <1>3, <1>5 DEF Once, OnList
<1>8. \A e \in OnList \ {d} : e \in OnList'
  <2> SUFFICES ASSUME NEW k \in 1 .. n, devices[k] # d
               PROVE  devices[k] \in OnList'
    BY <1>1 DEF OnList
  <2>1. CASE k < i
    <3>1. k \in 1 .. n - 1 /\ devices'[k] = devices[k]
      BY <2>1, <1>1, <1>2, <1>3
    <3>2. QED
      BY <3>1, <1>5 DEF OnList
  <2>2. CASE k > i
    <3>1. k - 1 \in 1 .. n - 1 /\ devices'[k - 1] = devices[k]
      BY <2>2, <1>1, <1>2, <1>3
    <3>2. QED
      BY <3>1, <1>5 DEF OnList
  <2>3. QED
    BY <2>1, <2>2, <1>1, <1>2
<1>9. QED
  BY <1>5, <1>6, <1>7, <1>8

(* NextDevice of a device object on the list is another one on the list,   *)
(* or there is none.                                                       *)
LEMMA NextOnList ==
  ASSUME devices \in Seq(Disks \cup {Ctl}), Once(devices), NEW d \in OnList
  PROVE  NextDevice(d) = Nil \/ NextDevice(d) \in OnList \ {d}
<1> DEFINE i == CHOOSE k \in DOMAIN devices : devices[k] = d
<1>1. i \in DOMAIN devices /\ devices[i] = d
  BY DEF OnList
<1>2. NextDevice(d) = IF i = Len(devices) THEN Nil ELSE devices[i + 1]
  BY DEF NextDevice
<1> HIDE DEF i
<1>3. ASSUME i # Len(devices)
      PROVE  i + 1 \in DOMAIN devices /\ devices[i + 1] # d
  BY <1>1, <1>3 DEF Once
<1>4. QED
  BY <1>2, <1>3 DEF OnList

(* A drive letter that is made changes no other letter.                    *)
LEMMA LetterMade ==
  ASSUME letters \in [Letters -> Numbers \cup {Nil}],
         NEW l \in Letters \cup {Nil}, NEW n \in Numbers,
         CreateDriveLetter(l, n)
  PROVE  /\ letters' \in [Letters -> Numbers \cup {Nil}]
         /\ \A m \in Letters : m # l => letters'[m] = letters[m]
BY DEF CreateDriveLetter

(* A removal deletes one letter at most, whoever made it.                  *)
LEMMA LetterDeleted ==
  ASSUME letters \in [Letters -> Numbers \cup {Nil}],
         NEW l \in Letters \cup {Nil},
         RemoveDriveLetter(l)
  PROVE  /\ letters' \in [Letters -> Numbers \cup {Nil}]
         /\ \A m \in Letters : letters'[m] \in {letters[m], Nil}
         /\ l # Nil => letters'[l] = Nil
BY DEF RemoveDriveLetter

-----------------------------------------------------------------------------
(* Every step of clients, device threads and ImDiskUnload keeps the        *)
(* invariant.                                                              *)
LEMMA InvStep == IInv /\ [Next]_vars => IInv'
<1> USE RegistryAssumption
    DEF threadVars, objectVars, linkVars, unloadVars, IInv
<1> SUFFICES ASSUME IInv, [Next]_vars
             PROVE  IInv'
  OBVIOUS
<1>1. ASSUME NEW d \in Disks, NEW n \in Requested, BootDisk(d, n)
      PROVE  IInv'
  <2>0. OnList' = OnList
    BY <1>1 DEF BootDisk, OnList
  <2>1. TypeOK'
    BY <1>1, <2>0
    DEF BootDisk, TypeOK, ThreadStates, ClientStates, Numbers, AutoNumber
  <2>2. Names'
    BY <1>1, <2>0 DEF BootDisk, Names, NamedStates, TypeOK
  <2>3. Holdings'
    BY <1>1, <2>0 DEF BootDisk, Holdings, TypeOK
  <2>4. Clients'
    BY <1>1, <2>0 DEF BootDisk, Clients, TypeOK
  <2>5. UnloadWalk'
    BY <1>1, <2>0 DEF BootDisk, UnloadWalk, TypeOK
  <2>6. QED
    BY <2>1, <2>2, <2>3, <2>4, <2>5
<1>2. ASSUME DriverReady
      PROVE  IInv'
  <2>0. OnList' = OnList
    BY <1>2 DEF DriverReady, OnList
  <2>1. TypeOK'
    BY <1>2, <2>0
    DEF DriverReady, TypeOK, ThreadStates, ClientStates, Numbers, AutoNumber
  <2>2. Names'
    BY <1>2, <2>0 DEF DriverReady, Names, NamedStates, TypeOK
  <2>3. Holdings'
    BY <1>2, <2>0 DEF DriverReady, Holdings, TypeOK
  <2>4. Clients'
    BY <1>2, <2>0 DEF DriverReady, Clients, TypeOK
  <2>5. UnloadWalk'
    BY <1>2, <2>0 DEF DriverReady, UnloadWalk, TypeOK
  <2>6. QED
    BY <2>1, <2>2, <2>3, <2>4, <2>5
<1>3. ASSUME NEW d \in Disks, NEW n \in Requested, AddVirtualDisk(d, n)
      PROVE  IInv'
  <2>0. OnList' = OnList
    BY <1>3 DEF AddVirtualDisk, OnList
  <2>p. PICK s \in {"start", "ended"}, c \in {"waiting", "returned"} :
          /\ pc' = [pc EXCEPT ![d] = s]
          /\ client' = [client EXCEPT ![d] = c]
    BY <1>3 DEF AddVirtualDisk
  <2>q. d \notin named /\ d \notin OnList /\ pc[d] = "idle"
    BY <1>3 DEF AddVirtualDisk, Names, NamedStates
  <2>1. TypeOK'
    BY <1>3, <2>0
    DEF AddVirtualDisk, TypeOK, ThreadStates, ClientStates, Numbers, AutoNumber
  <2>2. Names'
    BY <1>3, <2>0, <2>p, <2>q DEF AddVirtualDisk, Names, NamedStates, TypeOK
  <2>3. Holdings'
    BY <1>3, <2>0 DEF AddVirtualDisk, Holdings, TypeOK
  <2>4. Clients'
    BY <1>3, <2>0, <2>p, <2>q DEF AddVirtualDisk, Clients, TypeOK
  <2>5. UnloadWalk'
    BY <1>3, <2>0 DEF AddVirtualDisk, UnloadWalk, TypeOK
  <2>6. QED
    BY <2>1, <2>2, <2>3, <2>4, <2>5
<1>4. ASSUME NEW d \in Disks, AddReturns(d)
      PROVE  IInv'
  <2>0. OnList' = OnList
    BY <1>4 DEF AddReturns, OnList
  <2>p. /\ letters' \in [Letters -> Numbers \cup {Nil}]
        /\ \A m \in Letters : m # LetterOf[d] => letters'[m] = letters[m]
    BY <1>4, LetterMade DEF AddReturns, TypeOK
  <2>q. client[d] # "none"
    BY <1>4 DEF AddReturns
  <2>1. TypeOK'
    BY <1>4, <2>p DEF AddReturns, TypeOK, ClientStates
  <2>2. Names'
    BY <1>4, <2>0 DEF AddReturns, CreateDriveLetter, Names, NamedStates, TypeOK
  <2>3. Holdings'
    BY <1>4, <2>p, <2>q DEF AddReturns, Holdings, Clients, OwnsLetter, TypeOK
  <2>4. Clients'
    BY <1>4, <2>0 DEF AddReturns, CreateDriveLetter, Clients, TypeOK
  <2>5. UnloadWalk'
    BY <1>4, <2>0 DEF AddReturns, CreateDriveLetter, UnloadWalk, TypeOK
  <2>6. QED
    BY <2>1, <2>2, <2>3, <2>4, <2>5
<1>5. ASSUME NEW d \in Disks, ChooseNumber(d)
      PROVE  IInv'
  <2>0. OnList' = OnList
    BY <1>5 DEF ChooseNumber, OnList
  <2>p. PICK s \in {"failed", "open"}, n \in Numbers :
          /\ pc' = [pc EXCEPT ![d] = s]
          /\ chosen' = [chosen EXCEPT ![d] = n]
    BY <1>5 DEF ChooseNumber, ToFailed, TypeOK
  <2>q. d \notin named /\ d \notin OnList
    BY <1>5 DEF ChooseNumber, Names, NamedStates
  <2>1. TypeOK'
    BY <1>5, <2>p DEF ChooseNumber, TypeOK, ThreadStates
  <2>2. Names'
    BY <1>5, <2>0, <2>p, <2>q DEF ChooseNumber, Names, NamedStates, TypeOK
  <2>3. Holdings'
    BY <1>5, <2>p DEF ChooseNumber, Holdings, TypeOK
  <2>4. Clients'
    BY <1>5, <2>0, <2>p DEF ChooseNumber, Clients, TypeOK
  <2>5. UnloadWalk'
    BY <1>5, <2>0, <2>p DEF ChooseNumber, UnloadWalk, TypeOK
  <2>6. QED
    BY <2>1, <2>2, <2>3, <2>4, <2>5
<1>6. ASSUME NEW d \in Disks, OpenImage(d)
      PROVE  IInv'
  <2>0. OnList' = OnList
    BY <1>6 DEF OpenImage, OnList
  <2>p. PICK s \in {"failed", "create", "proxy"} : pc' = [pc EXCEPT ![d] = s]
    BY <1>6 DEF OpenImage, ToFailed
  <2>q. d \notin named /\ d \notin OnList
    BY <1>6 DEF OpenImage, Names, NamedStates
  <2>1. TypeOK'
    <3>1. /\ image' \in [Disks -> {"open", "closed"}]
          /\ pc' \in [Disks -> ThreadStates]
      BY <1>6, <2>p DEF OpenImage, TypeOK, ThreadStates
    <3>2. QED
      BY <1>6, <3>1 DEF OpenImage, TypeOK
  <2>2. Names'
    BY <1>6, <2>0, <2>p, <2>q DEF OpenImage, Names, NamedStates, TypeOK
  <2>3. Holdings'
    BY <1>6, <2>0 DEF OpenImage, ToFailed, Holdings, TypeOK
  <2>4. Clients'
    BY <1>6, <2>0 DEF OpenImage, ToFailed, Clients, TypeOK
  <2>5. UnloadWalk'
    BY <1>6, <2>0 DEF OpenImage, ToFailed, UnloadWalk, TypeOK
  <2>6. QED
    BY <2>1, <2>2, <2>3, <2>4, <2>5
<1>7. ASSUME NEW d \in Disks, CreateDeviceObject(d)
      PROVE  IInv'
  <2>o. d \notin named /\ d \notin OnList /\ pc[d] = "create" /\ Once(devices)
    BY <1>7 DEF CreateDeviceObject, Names, NamedStates, Once
  <2>1. CASE Insert(d) /\ ~NameTaken(chosen[d]) /\ named' = named \cup {d}
             /\ pc' = [pc EXCEPT ![d] = "link"] /\ UNCHANGED image
    <3>0. /\ devices' \in Seq(Disks \cup {Ctl})
          /\ Once(devices')
          /\ OnList' = OnList \cup {d}
      BY <2>o, <2>1, InsertFacts DEF TypeOK
    <3>1. TypeOK'
      BY <1>7, <2>1, <3>0 DEF CreateDeviceObject, TypeOK, ThreadStates
    <3>2. Names'
      BY <1>7, <2>o, <2>1, <3>0
      DEF CreateDeviceObject, NameTaken, Names, NamedStates, Once, TypeOK
    <3>3. Holdings'
      BY <1>7, <2>1 DEF CreateDeviceObject, Holdings, TypeOK
    <3>4. Clients' /\ UnloadWalk'
      BY <1>7, <2>1, <3>0 DEF CreateDeviceObject, Clients, UnloadWalk, TypeOK
    <3>5. QED
      BY <3>1, <3>2, <3>3, <3>4
  <2>2. CASE image' = [image EXCEPT ![d] = "closed"] /\ ToFailed(d)
             /\ UNCHANGED <<devices, named>>
    <3>0. OnList' = OnList
      BY <2>2 DEF OnList
    <3>1. TypeOK'
      BY <1>7, <2>2 DEF CreateDeviceObject, ToFailed, TypeOK, ThreadStates
    <3>2. Names'
      BY <1>7, <2>o, <2>2, <3>0
      DEF CreateDeviceObject, ToFailed, Names, NamedStates, TypeOK
    <3>3. Holdings'
      BY <1>7, <2>2 DEF CreateDeviceObject, ToFailed, Holdings, TypeOK
    <3>4. Clients' /\ UnloadWalk'
      BY <1>7, <2>2, <3>0
      DEF CreateDeviceObject, ToFailed, Clients, UnloadWalk, TypeOK
    <3>5. QED
      BY <3>1, <3>2, <3>3, <3>4
  <2>3. QED
    BY <1>7, <2>1, <2>2 DEF CreateDeviceObject
<1>8. ASSUME NEW d \in Disks, CreateSymbolicLink(d)
      PROVE  IInv'
  <2>o. d \in named /\ d \in OnList /\ pc[d] = "link" /\ Once(devices) /\ ~refs[d]
    BY <1>8 DEF CreateSymbolicLink, Names, NamedStates, Once
  <2>1. CASE links[chosen[d]] = Nil /\ links' = [links EXCEPT ![chosen[d]] = d]
             /\ pc' = [pc EXCEPT ![d] = "init"]
             /\ UNCHANGED <<image, named, devices>>
    <3>0. OnList' = OnList
      BY <2>1 DEF OnList
    <3>1. TypeOK'
      BY <1>8, <2>1 DEF CreateSymbolicLink, TypeOK, ThreadStates
    <3>2. Names'
      BY <1>8, <2>o, <2>1, <3>0
      DEF CreateSymbolicLink, Names, NamedStates, TypeOK
    <3>3. Holdings'
      BY <1>8, <2>o, <2>1 DEF CreateSymbolicLink, Holdings, TypeOK
    <3>4. Clients' /\ UnloadWalk'
      BY <1>8, <2>o, <2>1, <3>0
      DEF CreateSymbolicLink, Clients, UnloadWalk, TypeOK
    <3>5. QED
      BY <3>1, <3>2, <3>3, <3>4
  <2>2. CASE IoDeleteDevice(d) /\ image' = [image EXCEPT ![d] = "closed"]
             /\ ToFailed(d) /\ UNCHANGED links
    <3>0. /\ devices' \in Seq(Disks \cup {Ctl})
          /\ Once(devices')
          /\ OnList' = OnList \ {d}
          /\ named' = named \ {d}
      BY <2>o, <2>2, UnlinkFacts DEF IoDeleteDevice, TypeOK
    <3>1. TypeOK'
      BY <1>8, <2>2, <3>0
      DEF CreateSymbolicLink, ToFailed, TypeOK, ThreadStates
    <3>2. Names'
      BY <1>8, <2>o, <2>2, <3>0
      DEF CreateSymbolicLink, ToFailed, Names, NamedStates, Once, TypeOK
    <3>3. Holdings'
      BY <1>8, <2>o, <2>2 DEF CreateSymbolicLink, ToFailed, Holdings, TypeOK
    <3>4. Clients' /\ UnloadWalk'
      BY <1>8, <2>o, <2>2, <3>0
      DEF CreateSymbolicLink, ToFailed, Clients, UnloadWalk, TypeOK
    <3>5. QED
      BY <3>1, <3>2, <3>3, <3>4
  <2>3. QED
    BY <1>8, <2>1, <2>2 DEF CreateSymbolicLink
<1>9. ASSUME NEW d \in Disks, InitializeExtension(d)
      PROVE  IInv'
  <2>0. OnList' = OnList
    BY <1>9 DEF InitializeExtension, OnList
  <2>1. TypeOK'
    BY <1>9, <2>0
    DEF InitializeExtension, TypeOK, ThreadStates, ClientStates, Numbers,
        AutoNumber
  <2>2. Names'
    BY <1>9, <2>0 DEF InitializeExtension, Names, NamedStates, TypeOK
  <2>3. Holdings'
    BY <1>9, <2>0 DEF InitializeExtension, Holdings, TypeOK
  <2>4. Clients'
    BY <1>9, <2>0 DEF InitializeExtension, Clients, TypeOK
  <2>5. UnloadWalk'
    BY <1>9, <2>0 DEF InitializeExtension, UnloadWalk, TypeOK
  <2>6. QED
    BY <2>1, <2>2, <2>3, <2>4, <2>5
<1>10. ASSUME NEW d \in Disks, CreateFails(d)
      PROVE  IInv'
  <2>0. OnList' = OnList
    BY <1>10 DEF CreateFails, OnList
  <2>1. TypeOK'
    BY <1>10, <2>0
    DEF CreateFails, Answer, TypeOK, ThreadStates, ClientStates, Numbers,
        AutoNumber
  <2>2. Names'
    BY <1>10, <2>0 DEF CreateFails, Answer, Names, NamedStates, TypeOK
  <2>3. Holdings'
    BY <1>10, <2>0 DEF CreateFails, Answer, Holdings, TypeOK
  <2>4. Clients'
    BY <1>10, <2>0
    DEF CreateFails, Answer, Clients, Names, NamedStates, Holdings, TypeOK
  <2>5. UnloadWalk'
    BY <1>10, <2>0 DEF CreateFails, Answer, UnloadWalk, TypeOK
  <2>6. QED
    BY <2>1, <2>2, <2>3, <2>4, <2>5
<1>11. ASSUME NEW d \in Disks, CreateSucceeds(d)
      PROVE  IInv'
  <2>0. OnList' = OnList
    BY <1>11 DEF CreateSucceeds, OnList
  <2>p. /\ letters' \in [Letters -> Numbers \cup {Nil}]
        /\ \A m \in Letters : m # LetterOf[d] => letters'[m] = letters[m]
    BY <1>11, LetterMade DEF CreateSucceeds, TypeOK
  <2>1. TypeOK'
    BY <1>11, <2>p
    DEF CreateSucceeds, Answer, TypeOK, ThreadStates, ClientStates
  <2>2. Names'
    BY <1>11, <2>0
    DEF CreateSucceeds, Answer, CreateDriveLetter, Names, NamedStates, TypeOK
  <2>3. Holdings'
    BY <1>11, <2>p DEF CreateSucceeds, Holdings, OwnsLetter, TypeOK
  <2>4. Clients'
    BY <1>11, <2>0
    DEF CreateSucceeds, Answer, CreateDriveLetter, Clients, TypeOK
  <2>5. UnloadWalk'
    BY <1>11, <2>0
    DEF CreateSucceeds, Answer, CreateDriveLetter, UnloadWalk, TypeOK
  <2>6. QED
    BY <2>1, <2>2, <2>3, <2>4, <2>5
<1>12. ASSUME NEW d \in Disks, Preload(d)
      PROVE  IInv'
  <2>0. OnList' = OnList
    BY <1>12 DEF Preload, OnList
  <2>p. /\ letters' \in [Letters -> Numbers \cup {Nil}]
        /\ \A m \in Letters : letters'[m] \in {letters[m], Nil}
    BY <1>12, LetterDeleted DEF Preload, RemoveVirtualDisk, OwnLetter, TypeOK
  <2>1. TypeOK'
    BY <1>12, <2>0
    DEF Preload, RemoveVirtualDisk, RemoveDriveLetter, OwnLetter, TypeOK,
        ThreadStates, ClientStates, Numbers, AutoNumber
  <2>2. Names'
    BY <1>12, <2>0
    DEF Preload, RemoveVirtualDisk, RemoveDriveLetter, OwnLetter, Names,
        NamedStates, TypeOK
  <2>3. Holdings'
    BY <1>12, <2>p DEF Preload, RemoveVirtualDisk, Holdings, OwnsLetter, TypeOK
  <2>4. Clients'
    BY <1>12, <2>0
    DEF Preload, RemoveVirtualDisk, RemoveDriveLetter, OwnLetter, Clients,
        TypeOK
  <2>5. UnloadWalk'
    BY <1>12, <2>0
    DEF Preload, RemoveVirtualDisk, RemoveDriveLetter, OwnLetter, UnloadWalk,
        TypeOK
  <2>6. QED
    BY <2>1, <2>2, <2>3, <2>4, <2>5
<1>13. ASSUME NEW d \in Disks, ShutDown(d)
      PROVE  IInv'
  <2>0. OnList' = OnList
    BY <1>13 DEF ShutDown, OnList
  <2>p. /\ letters' \in [Letters -> Numbers \cup {Nil}]
        /\ \A m \in Letters : letters'[m] \in {letters[m], Nil}
        /\ boot[d] /\ LetterOf[d] # Nil => letters'[LetterOf[d]] = Nil
    BY <1>13, LetterDeleted DEF ShutDown, TypeOK
  <2>1. TypeOK'
    BY <1>13, <2>0
    DEF ShutDown, RemoveDriveLetter, TypeOK, ThreadStates, ClientStates,
        Numbers, AutoNumber
  <2>2. Names'
    BY <1>13, <2>0 DEF ShutDown, RemoveDriveLetter, Names, NamedStates, TypeOK
  <2>3. Holdings'
    BY <1>13, <2>p DEF ShutDown, Holdings, OwnsLetter, TypeOK
  <2>4. Clients'
    BY <1>13, <2>0 DEF ShutDown, RemoveDriveLetter, Clients, TypeOK
  <2>5. UnloadWalk'
    BY <1>13, <2>0 DEF ShutDown, RemoveDriveLetter, UnloadWalk, TypeOK
  <2>6. QED
    BY <2>1, <2>2, <2>3, <2>4, <2>5
<1>14. ASSUME NEW d \in Disks, DeleteSymbolicLink(d)
      PROVE  IInv'
  <2>0. OnList' = OnList
    BY <1>14 DEF DeleteSymbolicLink, OnList
  <2>1. TypeOK'
    BY <1>14, <2>0
    DEF DeleteSymbolicLink, TypeOK, ThreadStates, ClientStates, Numbers,
        AutoNumber
  <2>2. Names'
    BY <1>14, <2>0 DEF DeleteSymbolicLink, Names, NamedStates, TypeOK
  <2>3. Holdings'
    BY <1>14 DEF DeleteSymbolicLink, Holdings, Names, NamedStates, TypeOK
  <2>4. Clients'
    BY <1>14, <2>0 DEF DeleteSymbolicLink, Clients, TypeOK
  <2>5. UnloadWalk'
    BY <1>14, <2>0 DEF DeleteSymbolicLink, UnloadWalk, TypeOK
  <2>6. QED
    BY <2>1, <2>2, <2>3, <2>4, <2>5
<1>15. ASSUME NEW d \in Disks, DeleteDevice(d)
      PROVE  IInv'
  <2>o. d \in named /\ d \in OnList /\ pc[d] = "delete" /\ Once(devices)
    BY <1>15 DEF DeleteDevice, Names, NamedStates, Once
  <2>0. /\ devices' \in Seq(Disks \cup {Ctl})
        /\ Once(devices')
        /\ OnList' = IF refs[d] THEN OnList ELSE OnList \ {d}
        /\ named' = named \ {d}
    <3>1. CASE refs[d]
      BY <1>15, <2>o, <3>1 DEF DeleteDevice, IoDeleteDevice, OnList, TypeOK
    <3>2. CASE ~refs[d]
      BY <1>15, <2>o, <3>2, UnlinkFacts
      DEF DeleteDevice, IoDeleteDevice, TypeOK
    <3>3. QED
      BY <3>1, <3>2
  <2>1. TypeOK'
    BY <1>15, <2>0 DEF DeleteDevice, TypeOK, ThreadStates
  <2>2. Names'
    BY <1>15, <2>o, <2>0 DEF DeleteDevice, Names, NamedStates, Once, TypeOK
  <2>3. Holdings'
    BY <1>15 DEF DeleteDevice, Holdings, TypeOK
  <2>4. Clients'
    BY <1>15, <2>o, <2>0 DEF DeleteDevice, Clients, Holdings, TypeOK
  <2>5. UnloadWalk'
    BY <1>15, <2>o, <2>0 DEF DeleteDevice, UnloadWalk, TypeOK
  <2>6. QED
    BY <2>1, <2>2, <2>3, <2>4, <2>5
<1>16. ASSUME NEW d \in Disks, Eject(d)
      PROVE  IInv'
  <2>0. OnList' = OnList
    BY <1>16 DEF Eject, OnList
  <2>1. TypeOK'
    BY <1>16, <2>0
    DEF Eject, RemoveVirtualDisk, RemoveDriveLetter, OwnLetter, TypeOK,
        ThreadStates, ClientStates, Numbers, AutoNumber
  <2>2. Names'
    BY <1>16, <2>0
    DEF Eject, RemoveVirtualDisk, RemoveDriveLetter, OwnLetter, Names,
        NamedStates, TypeOK
  <2>3. Holdings'
    BY <1>16, <2>0
    DEF Eject, RemoveVirtualDisk, RemoveDriveLetter, OwnLetter, Holdings,
        TypeOK
  <2>4. Clients'
    BY <1>16, <2>0
    DEF Eject, RemoveVirtualDisk, RemoveDriveLetter, OwnLetter, Clients,
        TypeOK
  <2>5. UnloadWalk'
    BY <1>16, <2>0
    DEF Eject, RemoveVirtualDisk, RemoveDriveLetter, OwnLetter, UnloadWalk,
        TypeOK
  <2>6. QED
    BY <2>1, <2>2, <2>3, <2>4, <2>5
<1>17. ASSUME NEW d \in Disks, OpenFile(d)
      PROVE  IInv'
  <2>0. OnList' = OnList
    BY <1>17 DEF OpenFile, OnList
  <2>1. TypeOK'
    BY <1>17, <2>0
    DEF OpenFile, TypeOK, ThreadStates, ClientStates, Numbers, AutoNumber
  <2>2. Names'
    BY <1>17, <2>0 DEF OpenFile, Names, NamedStates, TypeOK
  <2>3. Holdings'
    BY <1>17, <2>0 DEF OpenFile, Holdings, TypeOK
  <2>4. Clients'
    BY <1>17, <2>0 DEF OpenFile, Clients, TypeOK
  <2>5. UnloadWalk'
    BY <1>17, <2>0 DEF OpenFile, UnloadWalk, TypeOK
  <2>6. QED
    BY <2>1, <2>2, <2>3, <2>4, <2>5
<1>18. ASSUME NEW d \in Disks, CloseFile(d)
      PROVE  IInv'
  <2>o. refs[d] /\ d \in OnList /\ Once(devices) /\ unload = "no" /\ d # Ctl
    BY <1>18 DEF CloseFile, Names, UnloadWalk, Once
  <2>0. /\ devices' \in Seq(Disks \cup {Ctl})
        /\ Once(devices')
        /\ OnList' = IF d \in named THEN OnList ELSE OnList \ {d}
    <3>1. CASE d \in named
      BY <1>18, <2>o, <3>1 DEF CloseFile, OnList, TypeOK
    <3>2. CASE d \notin named
      BY <1>18, <2>o, <3>2, UnlinkFacts DEF CloseFile, TypeOK
    <3>3. QED
      BY <3>1, <3>2
  <2>1. TypeOK'
    BY <1>18, <2>0 DEF CloseFile, TypeOK
  <2>2. Names'
    BY <1>18, <2>o, <2>0 DEF CloseFile, Names, NamedStates, Once, TypeOK
  <2>3. Holdings'
    BY <1>18 DEF CloseFile, Holdings
  <2>4. Clients'
    BY <1>18, <2>o, <2>0 DEF CloseFile, Clients
  <2>5. UnloadWalk'
    BY <1>18, <2>o, <2>0 DEF CloseFile, UnloadWalk
  <2>6. QED
    BY <2>1, <2>2, <2>3, <2>4, <2>5
<1>19. ASSUME NEW r \in Removers, NEW n \in Removed, FindDevice(r, n)
      PROVE  IInv'
  <2>0. OnList' = OnList
    BY <1>19 DEF FindDevice, OnList
  <2>1. TypeOK'
    BY <1>19, <2>0
    DEF FindDevice, HasNumber, TypeOK, ThreadStates, ClientStates, Numbers,
        AutoNumber
  <2>2. Names'
    BY <1>19, <2>0 DEF FindDevice, HasNumber, Names, NamedStates, TypeOK
  <2>3. Holdings'
    BY <1>19, <2>0 DEF FindDevice, HasNumber, Holdings, TypeOK
  <2>4. Clients'
    BY <1>19, <2>0 DEF FindDevice, HasNumber, Clients, TypeOK
  <2>5. UnloadWalk'
    BY <1>19, <2>0 DEF FindDevice, HasNumber, UnloadWalk, TypeOK
  <2>6. QED
    BY <2>1, <2>2, <2>3, <2>4, <2>5
<1>20. ASSUME NEW r \in Removers, RemoveFound(r)
      PROVE  IInv'
  <2>0. OnList' = OnList
    BY <1>20 DEF RemoveFound, OnList
  <2>p. /\ letters' \in [Letters -> Numbers \cup {Nil}]
        /\ \A m \in Letters : letters'[m] \in {letters[m], Nil}
    <3>1. ASSUME NEW e \in Disks, RemoveVirtualDisk(e)
          PROVE  /\ letters' \in [Letters -> Numbers \cup {Nil}]
                 /\ \A m \in Letters : letters'[m] \in {letters[m], Nil}
      BY <3>1, LetterDeleted DEF RemoveVirtualDisk, OwnLetter, TypeOK
    <3>2. found[r] \in Disks \/ found[r] = Nil
      BY DEF TypeOK
    <3>3. OnList \ {Ctl} \subseteq Disks
      BY DEF OnList, TypeOK
    <3>4. CASE UNCHANGED letters
      BY <3>4 DEF TypeOK
    <3>5. QED
      BY <1>20, <3>1, <3>2, <3>3, <3>4 DEF RemoveFound
  <2>1. TypeOK'
    BY <1>20, <2>p DEF RemoveFound, RemoveVirtualDisk, TypeOK
  <2>2. Names'
    BY <1>20, <2>0
    DEF RemoveFound, RemoveVirtualDisk, RemoveDriveLetter, OwnLetter, Names,
        NamedStates, TypeOK
  <2>3. Holdings'
    BY <1>20, <2>p
    DEF RemoveFound, RemoveVirtualDisk, Holdings, OwnsLetter, TypeOK
  <2>4. Clients'
    BY <1>20, <2>0
    DEF RemoveFound, RemoveVirtualDisk, RemoveDriveLetter, OwnLetter, Clients,
        TypeOK
  <2>5. UnloadWalk'
    BY <1>20, <2>0
    DEF RemoveFound, RemoveVirtualDisk, RemoveDriveLetter, OwnLetter,
        UnloadWalk, TypeOK
  <2>6. QED
    BY <2>1, <2>2, <2>3, <2>4, <2>5
<1>21. ASSUME UnloadBegins
      PROVE  IInv'
  <2>0. OnList' = OnList
    BY <1>21 DEF UnloadBegins, OnList
  <2>n. at' \in OnList
    <3>1. devices # <<>>
      BY <1>21 DEF UnloadBegins, UnloadWalk, OnList
    <3>2. 1 \in DOMAIN devices
      BY <3>1, EmptySeq DEF TypeOK
    <3>3. QED
      BY <1>21, <3>2 DEF UnloadBegins, OnList
  <2>t. OnList \subseteq Disks \cup {Ctl}
    BY DEF OnList, TypeOK
  <2>1. TypeOK'
    BY <1>21, <2>n, <2>t DEF UnloadBegins, TypeOK
  <2>2. Names' /\ Holdings' /\ Clients'
    BY <1>21, <2>0 DEF UnloadBegins, Names, Holdings, Clients
  <2>3. UnloadWalk'
    BY <1>21, <2>0, <2>n DEF UnloadBegins, Quiet, UnloadWalk
  <2>4. QED
    BY <2>1, <2>2, <2>3
<1>22. ASSUME UnloadControl
      PROVE  IInv'
  <2>o. Ctl \in OnList /\ Once(devices)
    BY <1>22 DEF UnloadControl, Names, UnloadWalk, Once
  <2>0. /\ devices' \in Seq(Disks \cup {Ctl})
        /\ Once(devices')
        /\ OnList' = OnList \ {Ctl}
    BY <1>22, <2>o, UnlinkFacts DEF UnloadControl, TypeOK
  <2>n. at' # Nil => at' \in OnList \ {Ctl}
    BY <1>22, <2>o, NextOnList DEF UnloadControl, TypeOK
  <2>t. OnList \subseteq Disks \cup {Ctl}
    BY DEF OnList, TypeOK
  <2>1. TypeOK'
    BY <1>22, <2>0, <2>n, <2>t DEF UnloadControl, TypeOK
  <2>2. Names'
    BY <1>22, <2>o, <2>0 DEF UnloadControl, Names, NamedStates, Once, TypeOK
  <2>3. Holdings'
    BY <1>22 DEF UnloadControl, Holdings
  <2>4. Clients'
    BY <1>22, <2>0 DEF UnloadControl, Clients
  <2>5. UnloadWalk'
    BY <1>22, <2>0, <2>n DEF UnloadControl, UnloadWalk
  <2>6. QED
    BY <2>1, <2>2, <2>3, <2>4, <2>5
<1>23. ASSUME UnloadDisk
      PROVE  IInv'
  <2>0. OnList' = OnList
    BY <1>23 DEF UnloadDisk, OnList
  <2>o. at \in OnList /\ Once(devices)
    BY <1>23 DEF UnloadDisk, Names, UnloadWalk, Once
  <2>n. next' # Nil => next' \in OnList \ {at}
    BY <1>23, <2>o, NextOnList DEF UnloadDisk, TypeOK
  <2>q. next' \in Disks \cup {Ctl, Nil}
    BY <2>n DEF OnList, TypeOK
  <2>p. /\ letters' \in [Letters -> Numbers \cup {Nil}]
        /\ \A m \in Letters : letters'[m] \in {letters[m], Nil}
    BY <1>23, LetterDeleted
    DEF UnloadDisk, RemoveVirtualDisk, OwnLetter, TypeOK
  <2>1. TypeOK'
    BY <1>23, <2>p, <2>q DEF UnloadDisk, RemoveVirtualDisk, TypeOK
  <2>2. Names'
    BY <1>23, <2>0
    DEF UnloadDisk, NextDevice, RemoveVirtualDisk, RemoveDriveLetter,
        OwnLetter, Names, NamedStates, TypeOK
  <2>3. Holdings'
    BY <1>23, <2>p
    DEF UnloadDisk, RemoveVirtualDisk, Holdings, OwnsLetter, TypeOK
  <2>4. Clients'
    BY <1>23, <2>0 DEF UnloadDisk, RemoveVirtualDisk, Clients, TypeOK
  <2>5. UnloadWalk'
    BY <1>23, <2>0, <2>n DEF UnloadDisk, RemoveVirtualDisk, UnloadWalk, TypeOK
  <2>6. QED
    BY <2>1, <2>2, <2>3, <2>4, <2>5
<1>24. ASSUME UnloadWait
      PROVE  IInv'
  <2>0. OnList' = OnList
    BY <1>24 DEF UnloadWait, OnList
  <2>1. TypeOK'
    BY <1>24, <2>0
    DEF UnloadWait, TypeOK, ThreadStates, ClientStates, Numbers, AutoNumber
  <2>2. Names'
    BY <1>24, <2>0 DEF UnloadWait, Names, NamedStates, TypeOK
  <2>3. Holdings'
    BY <1>24, <2>0 DEF UnloadWait, Holdings, TypeOK
  <2>4. Clients'
    BY <1>24, <2>0 DEF UnloadWait, Clients, TypeOK
  <2>5. UnloadWalk'
    BY <1>24, <2>0 DEF UnloadWait, UnloadWalk, TypeOK
  <2>6. QED
    BY <2>1, <2>2, <2>3, <2>4, <2>5
<1>25. ASSUME UnloadEnds
      PROVE  IInv'
  <2>0. OnList' = OnList
    BY <1>25 DEF UnloadEnds, OnList
  <2>1. TypeOK'
    BY <1>25, <2>0
    DEF UnloadEnds, TypeOK, ThreadStates, ClientStates, Numbers, AutoNumber
  <2>2. Names'
    BY <1>25, <2>0 DEF UnloadEnds, Names, NamedStates, TypeOK
  <2>3. Holdings'
    BY <1>25, <2>0 DEF UnloadEnds, Holdings, TypeOK
  <2>4. Clients'
    BY <1>25, <2>0 DEF UnloadEnds, Clients, TypeOK
  <2>5. UnloadWalk'
    BY <1>25, <2>0 DEF UnloadEnds, UnloadWalk, TypeOK
  <2>6. QED
    BY <2>1, <2>2, <2>3, <2>4, <2>5
<1>26. ASSUME NEW d \in Disks, ProxyAnswers(d)
      PROVE  IInv'
  <2>0. OnList' = OnList
    BY <1>26 DEF ProxyAnswers, OnList
  <2>p. PICK s \in {"failed", "create"} : pc' = [pc EXCEPT ![d] = s]
    BY <1>26 DEF ProxyAnswers, ToFailed
  <2>q. d \notin named /\ d \notin OnList
    BY <1>26 DEF ProxyAnswers, Names, NamedStates
  <2>1. TypeOK'
    BY <1>26, <2>0 DEF ProxyAnswers, ToFailed, TypeOK, ThreadStates
  <2>2. Names'
    BY <1>26, <2>0, <2>p, <2>q DEF ProxyAnswers, Names, NamedStates, TypeOK
  <2>3. Holdings'
    BY <1>26, <2>0 DEF ProxyAnswers, ToFailed, Holdings, TypeOK
  <2>4. Clients'
    BY <1>26, <2>0 DEF ProxyAnswers, ToFailed, Clients, TypeOK
  <2>5. UnloadWalk'
    BY <1>26, <2>0 DEF ProxyAnswers, ToFailed, UnloadWalk, TypeOK
  <2>6. QED
    BY <2>1, <2>2, <2>3, <2>4, <2>5
<1>27. ASSUME UNCHANGED vars
      PROVE  IInv'
  BY <1>27 DEF vars, TypeOK, Names, Holdings, Clients, UnloadWalk, OnList
<1>28. QED
  BY <1>1, <1>2, <1>3, <1>4, <1>5, <1>6, <1>7, <1>8, <1>9, <1>10, <1>11,
     <1>12, <1>13, <1>14, <1>15, <1>16, <1>17, <1>18, <1>19, <1>20, <1>21,
     <1>22, <1>23, <1>24, <1>25, <1>26, <1>27
  DEF Next, DeviceThread, Unloader

(* DriverEntry leaves the driver with the control device alone.            *)
LEMMA InitInv == Init => IInv
<1> SUFFICES ASSUME Init PROVE IInv
  OBVIOUS
<1> USE RegistryAssumption DEF Init
<1>1. OnList = {Ctl}
  BY DEF OnList
<1>2. TypeOK
  BY DEF TypeOK, ThreadStates, ClientStates, Numbers
<1>3. Names
  BY <1>1 DEF Names, NamedStates
<1>4. Holdings /\ Clients /\ UnloadWalk
  BY <1>1 DEF Holdings, Clients, UnloadWalk, OwnsLetter
<1>5. QED
  BY <1>2, <1>3, <1>4 DEF IInv

-----------------------------------------------------------------------------
(* The inductive invariant holds of every behaviour, whatever the number   *)
(* of disks, removers and letters.                                         *)
THEOREM Invariance == Spec => []IInv
BY InitInv, InvStep, PTL DEF Spec

(* The variables keep their types; so a device number is never above       *)
(* MaxDevices and the walk of ImDiskUnload never leaves the driver's own   *)
(* devices.                                                                *)
THEOREM TypeCorrect == Spec => []TypeOK
<1>1. IInv => TypeOK
  BY DEF IInv
<1>2. QED
  BY <1>1, Invariance, PTL

(* No two named disks have one number, although ImDiskFindFreeDeviceNumber *)
(* and IoCreateDevice are two steps and other device threads run between   *)
(* them.                                                                   *)
THEOREM NumbersAreUnique == Spec => []UniqueNumbers
<1>1. IInv => UniqueNumbers
  BY DEF IInv, Names, UniqueNumbers, Initialised
<1>2. QED
  BY <1>1, Invariance, PTL

(* ImDiskAddVirtualDisk returns success only for a disk that is there or   *)
(* that somebody has told to terminate, and failure only for one of which  *)
(* ImDiskCreateDevice has left nothing.                                    *)
THEOREM CreatorsHearTheTruth == Spec => []AnswerIsTrue
<1>1. ASSUME IInv PROVE AnswerIsTrue
  BY <1>1 DEF IInv, Names, NamedStates, Holdings, Clients, AnswerIsTrue,
              Initialised
<1>2. QED
  BY <1>1, Invariance, PTL

(* A device thread that has ended has closed its backing, given back its   *)
(* name and the letter it made, and left its device on the list only if it *)
(* is still open.                                                          *)
THEOREM NothingIsLeft == Spec => []ThreadsLeaveNothing
<1>1. ASSUME IInv PROVE ThreadsLeaveNothing
  BY <1>1 DEF IInv, Names, NamedStates, Holdings, ThreadsLeaveNothing
<1>2. QED
  BY <1>1, Invariance, PTL
=============================================================================
