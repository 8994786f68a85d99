------------------------- MODULE BundleCacheProofs --------------------------
(***************************************************************************)
(* What holds of BundleCache for every number of loaders, files and kinds  *)
(* of archive: the inductive invariant IInv and the three safety           *)
(* properties it implies.                                                  *)
(***************************************************************************)
EXTENDS BundleCache, TLAPS

USE ArchivesAssumption
USE DEF disk, Loading, Contents

-----------------------------------------------------------------------------
(* The invariant, loader by loader *)

\* What IInv says of one loader.
LoaderInv(l) ==
  /\ pc[l] = "idle" => attempts[l] > 0
  /\ pc[l] \in Loading \cup {"loaded"} => data[l] \in Archives
  /\ writing[l] /= {} => pc[l] = "extract"
  /\ pc[l] = "extract" => todo[l] \cup writing[l] \subseteq data[l].files
  /\ todo[l] \cap writing[l] = {}
  /\ \A f, g \in writing[l] : f = g
  /\ \A f \in writing[l] : cache[data[l]][f] /= "absent"
  /\ pc[l] \in {"check", "loaded"} =>
       /\ data[l].readable /\ data[l].manifest
       /\ todo[l] \subseteq data[l].listed
       /\ data[l].listed \ todo[l] \subseteq data[l].files \ data[l].corrupt
  /\ pc[l] = "loaded" => todo[l] = {}
  /\ l \notin disturbed =>
       /\ pc[l] = "failed" => ~Sound(data[l])
       /\ \A f \in Files :
            /\ pc[l] = "make" => cache[data[l]][f] = "absent"
            /\ pc[l] = "extract" =>
                 cache[data[l]][f] = IF f \in writing[l] THEN "empty"
                                     ELSE IF f \in data[l].files \ todo[l] THEN "whole"
                                     ELSE "absent"
            /\ pc[l] \in {"check", "loaded"} => cache[data[l]][f] = Complete(data[l])[f]

\* IInv is the type invariant, CacheInv and LoaderInv of every loader.
LEMMA IInvByLoader == IInv <=> TypeOK /\ CacheInv /\ \A l \in Loaders : LoaderInv(l)
<1>1. IInv => TypeOK /\ CacheInv /\ \A l \in Loaders : LoaderInv(l)
  BY DEF IInv, LoadInv, CheckInv, AloneInv, FailedIsUnsound, LoaderInv
<1>2. (TypeOK /\ CacheInv /\ \A l \in Loaders : LoaderInv(l)) =>
        LoadInv /\ CheckInv /\ AloneInv /\ FailedIsUnsound
  BY DEF LoadInv, CheckInv, AloneInv, FailedIsUnsound, LoaderInv
<1> QED
  BY <1>1, <1>2 DEF IInv

LEMMA NextIInvByLoader ==
  ASSUME TypeOK', CacheInv', \A l \in Loaders : LoaderInv(l)'
  PROVE  IInv'
BY DEF IInv, LoadInv, CheckInv, AloneInv, FailedIsUnsound, LoaderInv

\* The directory is empty and nobody has begun.
LEMMA InitIInv == Init => IInv
<1> SUFFICES ASSUME Init PROVE IInv
  OBVIOUS
<1>1. TypeOK
  BY DEF Init, TypeOK, NoFiles
<1>2. CacheInv /\ \A l \in Loaders : LoaderInv(l)
  BY DEF Init, CacheInv, LoaderInv, NoFiles
<1> QED
  BY <1>1, <1>2, IInvByLoader

-----------------------------------------------------------------------------
(* Bystanders *)

\* A loader that a step of somebody else finds at work keeps its invariant if
\* the step either leaves its directory alone or disturbs it.
LEMMA Bystander ==
  ASSUME IInv, NEW m \in Loaders,
         pc'[m] = pc[m], data'[m] = data[m], todo'[m] = todo[m], attempts'[m] = attempts[m],
         writing'[m] \subseteq writing[m],
         \A f \in writing'[m] : cache'[data[m]][f] /= "absent",
         m \in disturbed => m \in disturbed',
         pc[m] \in Loading \cup {"loaded"} =>
           \/ m \in disturbed'
           \/ writing'[m] = writing[m] /\ cache'[data[m]] = cache[data[m]]
  PROVE  LoaderInv(m)'
<1>1. LoaderInv(m)
  BY IInvByLoader
<1>2. (m \notin disturbed => (pc[m] = "failed" => ~Sound(data[m])))
      /\ (m \notin disturbed' => (pc'[m] = "failed" => ~Sound(data[m])'))
  BY <1>1 DEF LoaderInv, Sound
<1>3. ASSUME m \notin disturbed', NEW f \in Files
      PROVE  /\ pc'[m] = "make" => cache'[data'[m]][f] = "absent"
             /\ pc'[m] = "extract" =>
                  cache'[data'[m]][f] = IF f \in writing'[m] THEN "empty"
                                        ELSE IF f \in data'[m].files \ todo'[m] THEN "whole"
                                        ELSE "absent"
             /\ pc'[m] \in {"check", "loaded"} => cache'[data'[m]][f] = Complete(data[m])'[f]
  BY <1>1, <1>3 DEF LoaderInv, Complete
<1> QED
  BY <1>1, <1>2, <1>3 DEF LoaderInv

\* A step of a loader that leaves the disk and the others as they are.
LEMMA OwnStep ==
  ASSUME IInv, TypeOK', NEW l \in Loaders, UNCHANGED disk, LoaderInv(l)',
         \A m \in Loaders \ {l} :
           /\ pc'[m] = pc[m] /\ data'[m] = data[m] /\ todo'[m] = todo[m]
           /\ writing'[m] = writing[m] /\ attempts'[m] = attempts[m]
           /\ m \in disturbed' <=> m \in disturbed
  PROVE  IInv'
<1>1. CacheInv'
  BY DEF IInv, CacheInv
<1>2. ASSUME NEW m \in Loaders \ {l} PROVE LoaderInv(m)'
  <2>1. \A f \in writing'[m] : cache'[data[m]][f] /= "absent"
    BY DEF IInv, LoadInv
  <2> QED
    BY <2>1, Bystander
<1>3. \A m \in Loaders : LoaderInv(m)'
  BY <1>2
<1> QED
  BY <1>1, <1>3, NextIInvByLoader

-----------------------------------------------------------------------------
(* The steps that leave the disk as it is *)

LEMMA OwnStepsKeepIInv ==
  ASSUME IInv, NEW l \in Loaders,
         \/ Unreadable(l) \/ Read(l) \/ Fault(l) \/ RejectArchive(l) \/ EndOfArchive(l)
         \/ CheckFile(l) \/ RejectFile(l) \/ Loaded(l) \/ Leave(l)
  PROVE  IInv'
<1>0. TypeOK /\ LoaderInv(l)
  BY IInvByLoader
<1>1. TypeOK'
  <2> USE <1>0 DEF TypeOK
  <2>1. CASE Unreadable(l)
    BY <2>1 DEF Unreadable, Fail, LoaderInv
  <2>2. CASE Read(l)
    BY <2>2 DEF Read, LoaderInv
  <2>3. CASE Fault(l)
    BY <2>3 DEF Fault, Fail
  <2>4. CASE RejectArchive(l)
    BY <2>4 DEF RejectArchive, Fail
  <2>5. CASE EndOfArchive(l)
    BY <2>5 DEF EndOfArchive, LoaderInv
  <2>6. CASE CheckFile(l)
    BY <2>6 DEF CheckFile
  <2>7. CASE RejectFile(l)
    BY <2>7 DEF RejectFile, Fail
  <2>8. CASE Loaded(l)
    BY <2>8 DEF Loaded
  <2>9. CASE Leave(l)
    BY <2>9 DEF Leave
  <2> QED
    BY <2>1, <2>2, <2>3, <2>4, <2>5, <2>6, <2>7, <2>8, <2>9
<1>2. /\ UNCHANGED disk
      /\ \A m \in Loaders \ {l} :
           /\ pc'[m] = pc[m] /\ data'[m] = data[m] /\ todo'[m] = todo[m]
           /\ writing'[m] = writing[m] /\ attempts'[m] = attempts[m]
           /\ m \in disturbed' <=> m \in disturbed
  BY <1>0 DEF TypeOK, Unreadable, Read, Fault, RejectArchive, EndOfArchive, CheckFile,
              RejectFile, Loaded, Leave, Fail
<1>3. LoaderInv(l)'
  <2> USE <1>0 DEF TypeOK
  <2>1. CASE Unreadable(l)
    <3>1. /\ pc'[l] = "failed" \/ (pc'[l] = "idle" /\ attempts'[l] > 0)
          /\ todo'[l] = {} /\ writing'[l] = {}
      BY <2>1 DEF Unreadable, Fail
    <3>2. l \in disturbed'
      BY <2>1 DEF Unreadable
    <3> QED
      BY <3>1, <3>2 DEF LoaderInv
  <2>2. CASE Read(l)
    BY <2>2 DEF Read, LoaderInv
  <2>3. CASE Fault(l)
    <3>1. /\ pc'[l] = "failed" \/ (pc'[l] = "idle" /\ attempts'[l] > 0)
          /\ todo'[l] = {} /\ writing'[l] = {}
      BY <2>3 DEF Fault, Fail
    <3>2. l \in disturbed'
      BY <2>3 DEF Fault
    <3> QED
      BY <3>1, <3>2 DEF LoaderInv
  <2>4. CASE RejectArchive(l)
    <3>1. ~Sound(data[l])
      BY <2>4 DEF RejectArchive, Sound
    <3>2. /\ pc'[l] = "failed" \/ (pc'[l] = "idle" /\ attempts'[l] > 0)
          /\ todo'[l] = {} /\ writing'[l] = {}
          /\ UNCHANGED <<data, disturbed>>
      BY <2>4 DEF RejectArchive, Fail
    <3> QED
      BY <3>1, <3>2 DEF LoaderInv, Sound
  <2>5. CASE EndOfArchive(l)
    BY <2>5 DEF EndOfArchive, LoaderInv, Complete
  <2>6. CASE CheckFile(l)
    <3>1. PICK f \in todo[l] : Matches(l, f) /\ todo' = [todo EXCEPT ![l] = @ \ {f}]
      BY <2>6 DEF CheckFile
    <3>2. /\ pc[l] = "check" /\ todo'[l] = todo[l] \ {f} /\ f \in Files
          /\ UNCHANGED <<cache, pc, data, writing, attempts, disturbed>>
      BY <2>6, <3>1 DEF CheckFile
    <3>3. /\ todo[l] \subseteq data[l].listed
          /\ data[l].listed \ todo[l] \subseteq data[l].files \ data[l].corrupt
          /\ f \notin data[l].corrupt /\ cache[data[l]][f] = "whole" /\ data[l] \in Archives
      BY <3>1, <3>2 DEF LoaderInv, Matches
    <3>4. f \in data[l].files
      BY <3>2, <3>3, IInvByLoader DEF CacheInv
    <3>5. data'[l].listed \ todo'[l] \subseteq data'[l].files \ data'[l].corrupt
      BY <3>2, <3>3, <3>4
    <3> QED
      BY <3>2, <3>5 DEF LoaderInv, Complete
  <2>7. CASE RejectFile(l)
    <3>1. PICK f \in todo[l] : ~Matches(l, f) /\ pc[l] = "check"
      BY <2>7 DEF RejectFile
    <3>2. l \notin disturbed => ~Sound(data[l])
      BY <3>1 DEF LoaderInv, Matches, Complete, Sound
    <3>3. /\ pc'[l] = "failed" \/ (pc'[l] = "idle" /\ attempts'[l] > 0)
          /\ todo'[l] = {} /\ writing'[l] = {}
          /\ UNCHANGED <<data, disturbed>>
      BY <2>7 DEF RejectFile, Fail
    <3>4. l \notin disturbed' => ~Sound(data'[l])
      BY <3>2, <3>3
    <3> QED
      BY <3>3, <3>4 DEF LoaderInv, Sound
  <2>8. CASE Loaded(l)
    BY <2>8 DEF Loaded, LoaderInv
  <2>9. CASE Leave(l)
    BY <2>9 DEF Leave, LoaderInv
  <2> QED
    BY <2>1, <2>2, <2>3, <2>4, <2>5, <2>6, <2>7, <2>8, <2>9
<1> QED
  BY <1>1, <1>2, <1>3, OwnStep

-----------------------------------------------------------------------------
(* The steps in a directory *)

\* A step that disturbs every loader at work in l's directory, and whose
\* changes to the cache stay in that directory.
LEMMA DirectoryStep ==
  ASSUME IInv, TypeOK', CacheInv', NEW l \in Loaders, LoaderInv(l)', Disturb(l),
         pc[l] \in Loading, UNCHANGED <<data, attempts>>,
         \A a \in Archives \ {data[l]} : cache'[a] = cache[a],
         \A m \in Loaders \ {l} :
           /\ pc'[m] = pc[m] /\ todo'[m] = todo[m]
           /\ writing'[m] \subseteq writing[m]
           /\ data[m] /= data[l] => writing'[m] = writing[m]
           /\ \A f \in writing'[m] : cache'[data[m]][f] /= "absent"
  PROVE  IInv'
<1>1. ASSUME NEW m \in Loaders \ {l} PROVE LoaderInv(m)'
  <2>1. m \in disturbed => m \in disturbed'
    BY DEF Disturb
  <2>2. ASSUME pc[m] \in Loading \cup {"loaded"}, m \notin disturbed'
        PROVE  writing'[m] = writing[m] /\ cache'[data[m]] = cache[data[m]]
    <3>1. data[m] /= data[l]
      BY <2>2 DEF Disturb
    <3>2. data[m] \in Archives
      BY <2>2 DEF IInv, LoadInv
    <3> QED
      BY <3>1, <3>2
  <2> QED
    BY <2>1, <2>2, Bystander
<1> QED
  BY <1>1, NextIInvByLoader

\* RemoveAll takes the file from who has it open.
LEMMA RemoveFileKeepsIInv ==
  ASSUME IInv, NEW l \in Loaders, RemoveFile(l)
  PROVE  IInv'
<1>0. TypeOK /\ CacheInv /\ LoaderInv(l) /\ data[l] \in Archives /\ writing[l] = {}
  BY IInvByLoader DEF LoaderInv, RemoveFile
<1>1. PICK f \in Files :
        /\ cache[data[l]][f] /= "absent"
        /\ cache' = [cache EXCEPT ![data[l]][f] = "absent"]
        /\ writing' = [m \in Loaders |-> IF data[m] = data[l] THEN writing[m] \ {f} ELSE writing[m]]
  BY DEF RemoveFile
<1>2. /\ pc[l] = "reset" /\ Disturb(l)
      /\ UNCHANGED <<directory, pc, data, todo, attempts>>
  BY DEF RemoveFile
<1>3. /\ cache' \in [Archives -> [Files -> Contents]]
      /\ \A a \in Archives \ {data[l]} : cache'[a] = cache[a]
      /\ cache'[data[l]][f] = "absent"
      /\ \A g \in Files \ {f} : cache'[data[l]][g] = cache[data[l]][g]
  BY <1>0, <1>1 DEF TypeOK
<1>4. TypeOK'
  <2>0. data[l] \in directory
    BY <1>0, <1>1 DEF TypeOK, NoFiles
  <2>1. \A a \in Archives \ directory' : cache'[a] = NoFiles
    BY <1>0, <1>2, <1>3, <2>0 DEF TypeOK
  <2> QED
    BY <1>0, <1>1, <1>2, <1>3, <2>1 DEF TypeOK, Disturb
<1>5. CacheInv'
  BY <1>0, <1>3 DEF CacheInv
<1>6. LoaderInv(l)'
  BY <1>0, <1>1, <1>2 DEF LoaderInv
<1>7. ASSUME NEW m \in Loaders
      PROVE  /\ writing'[m] \subseteq writing[m]
             /\ data[m] /= data[l] => writing'[m] = writing[m]
             /\ \A g \in writing'[m] : cache'[data[m]][g] /= "absent"
  <2>1. \A g \in writing[m] : g \in Files /\ cache[data[m]][g] /= "absent" /\ data[m] \in Archives
    BY <1>0 DEF IInv, LoadInv, TypeOK
  <2> QED
    BY <1>1, <1>3, <2>1
<1> QED
  BY <1>2, <1>3, <1>4, <1>5, <1>6, <1>7, DirectoryStep

\* An empty directory goes, and is made.
LEMMA DirectoryKeepsIInv ==
  ASSUME IInv, NEW l \in Loaders, RemoveDirectory(l) \/ MakeDirectory(l)
  PROVE  IInv'
<1>0. TypeOK /\ CacheInv /\ LoaderInv(l) /\ data[l] \in Archives /\ writing[l] = {}
  BY IInvByLoader DEF LoaderInv, RemoveDirectory, MakeDirectory
<1>1. /\ pc[l] \in Loading /\ Disturb(l)
      /\ UNCHANGED <<cache, data, writing, attempts>>
      /\ \A m \in Loaders \ {l} : pc'[m] = pc[m] /\ todo'[m] = todo[m]
  BY <1>0 DEF RemoveDirectory, MakeDirectory, TypeOK
<1>2. TypeOK'
  BY <1>0, <1>1 DEF TypeOK, RemoveDirectory, MakeDirectory, Disturb
<1>3. CacheInv'
  BY <1>0, <1>1 DEF CacheInv
<1>4. LoaderInv(l)'
  <2>1. CASE RemoveDirectory(l)
    BY <1>0, <2>1 DEF RemoveDirectory, LoaderInv, TypeOK, NoFiles
  <2>2. CASE MakeDirectory(l)
    BY <1>0, <1>1, <2>2 DEF MakeDirectory, LoaderInv, TypeOK, Disturb
  <2> QED
    BY <2>1, <2>2
<1>5. \A m \in Loaders : \A f \in writing'[m] : cache'[data[m]][f] /= "absent"
  BY <1>1 DEF IInv, LoadInv
<1> QED
  BY <1>1, <1>2, <1>3, <1>4, <1>5, DirectoryStep

\* The entry's file is created, or an old one truncated.
LEMMA OpenEntryKeepsIInv ==
  ASSUME IInv, NEW l \in Loaders, OpenEntry(l)
  PROVE  IInv'
<1>0. /\ TypeOK /\ CacheInv /\ LoaderInv(l) /\ pc[l] = "extract" /\ writing[l] = {}
      /\ data[l] \in Archives
  BY IInvByLoader DEF LoaderInv, OpenEntry
<1>1. PICK f \in todo[l] :
        /\ cache' = [cache EXCEPT ![data[l]][f] = "empty"]
        /\ writing' = [writing EXCEPT ![l] = {f}]
        /\ todo' = [todo EXCEPT ![l] = @ \ {f}]
  BY DEF OpenEntry
<1>2. /\ directory' = directory \cup {data[l]} /\ Disturb(l)
      /\ UNCHANGED <<pc, data, attempts>>
  BY DEF OpenEntry
<1>3. /\ cache' \in [Archives -> [Files -> Contents]]
      /\ \A a \in Archives \ {data[l]} : cache'[a] = cache[a]
      /\ f \in Files /\ cache'[data[l]][f] = "empty"
      /\ \A g \in Files \ {f} : cache'[data[l]][g] = cache[data[l]][g]
  BY <1>0, <1>1 DEF TypeOK
<1>4. /\ writing'[l] = {f} /\ todo'[l] = todo[l] \ {f}
      /\ \A m \in Loaders \ {l} : writing'[m] = writing[m] /\ todo'[m] = todo[m]
  BY <1>0, <1>1 DEF TypeOK
<1>5. TypeOK'
  BY <1>0, <1>1, <1>2, <1>3 DEF TypeOK, Disturb
<1>6. f \in data[l].files
  BY <1>0, <1>1 DEF LoaderInv
<1>7. CacheInv'
  BY <1>0, <1>3, <1>6 DEF CacheInv
<1>8. l \in disturbed' <=> l \in disturbed
  BY <1>2 DEF Disturb
<1>9. LoaderInv(l)'
  BY <1>0, <1>2, <1>3, <1>4, <1>6, <1>8 DEF LoaderInv
<1>10. ASSUME NEW m \in Loaders \ {l}
       PROVE  \A g \in writing'[m] : cache'[data[m]][g] /= "absent"
  <2>1. \A g \in writing[m] : g \in Files /\ cache[data[m]][g] /= "absent" /\ data[m] \in Archives
    BY <1>0 DEF IInv, LoadInv, TypeOK
  <2> QED
    BY <1>3, <1>4, <2>1
<1> QED
  BY <1>0, <1>2, <1>3, <1>4, <1>5, <1>7, <1>9, <1>10, DirectoryStep

\* The file that is open is still in the directory.
LEMMA WriteEntryKeepsIInv ==
  ASSUME IInv, NEW l \in Loaders, WriteEntry(l)
  PROVE  IInv'
<1>0. /\ TypeOK /\ CacheInv /\ LoaderInv(l) /\ pc[l] = "extract"
      /\ data[l] \in Archives
  BY IInvByLoader DEF LoaderInv, WriteEntry
<1>1. PICK f \in writing[l] : cache' = [cache EXCEPT ![data[l]][f] = "whole"]
  BY DEF WriteEntry
<1>2. /\ writing' = [writing EXCEPT ![l] = {}] /\ Disturb(l)
      /\ UNCHANGED <<directory, pc, data, todo, attempts>>
  BY DEF WriteEntry
<1>3. /\ cache' \in [Archives -> [Files -> Contents]]
      /\ \A a \in Archives \ {data[l]} : cache'[a] = cache[a]
      /\ f \in Files /\ cache'[data[l]][f] = "whole"
      /\ \A g \in Files \ {f} : cache'[data[l]][g] = cache[data[l]][g]
  BY <1>0, <1>1 DEF TypeOK
<1>4. /\ writing'[l] = {}
      /\ \A m \in Loaders \ {l} : writing'[m] = writing[m]
  BY <1>0, <1>2 DEF TypeOK
<1>5. f \in data[l].files /\ f \notin todo[l] /\ cache[data[l]][f] /= "absent" /\ writing[l] = {f}
  BY <1>0, <1>1 DEF LoaderInv
<1>6. TypeOK'
  <2>0. data[l] \in directory
    BY <1>0, <1>3, <1>5 DEF TypeOK, NoFiles
  <2>1. \A a \in Archives \ directory' : cache'[a] = NoFiles
    BY <1>0, <1>2, <1>3, <2>0 DEF TypeOK
  <2> QED
    BY <1>0, <1>2, <1>3, <2>1 DEF TypeOK, Disturb
<1>7. CacheInv'
  BY <1>0, <1>3, <1>5 DEF CacheInv
<1>8. l \in disturbed' <=> l \in disturbed
  BY <1>2 DEF Disturb
<1>9. LoaderInv(l)'
  BY <1>0, <1>2, <1>3, <1>4, <1>5, <1>8 DEF LoaderInv
<1>10. ASSUME NEW m \in Loaders \ {l}
       PROVE  \A g \in writing'[m] : cache'[data[m]][g] /= "absent"
  <2>1. \A g \in writing[m] : g \in Files /\ cache[data[m]][g] /= "absent" /\ data[m] \in Archives
    BY <1>0 DEF IInv, LoadInv, TypeOK
  <2> QED
    BY <1>3, <1>4, <2>1
<1> QED
  BY <1>0, <1>2, <1>3, <1>4, <1>6, <1>7, <1>9, <1>10, DirectoryStep

\* Whatever an alteration does, it disturbs who works there.
LEMMA AlterFileKeepsIInv ==
  ASSUME IInv, AlterFile
  PROVE  IInv'
<1>0. TypeOK /\ CacheInv
  BY IInvByLoader
<1>1. PICK a \in Archives, f \in Files :
        /\ cache[a][f] \in {"empty", "whole"}
        /\ cache' = [cache EXCEPT ![a][f] = "altered"]
        /\ disturbed' = disturbed \cup
             {l \in Loaders : pc[l] \in Loading \cup {"loaded"} /\ data[l] = a}
  BY DEF AlterFile
<1>2. UNCHANGED <<directory, pc, data, todo, writing, attempts>>
  BY DEF AlterFile
<1>3. /\ cache' \in [Archives -> [Files -> Contents]]
      /\ \A b \in Archives \ {a} : cache'[b] = cache[b]
      /\ cache'[a][f] = "altered"
      /\ \A g \in Files \ {f} : cache'[a][g] = cache[a][g]
  BY <1>0, <1>1 DEF TypeOK
<1>4. TypeOK'
  <2>0. a \in directory
    BY <1>0, <1>1 DEF TypeOK, NoFiles
  <2>1. \A b \in Archives \ directory' : cache'[b] = NoFiles
    BY <1>0, <1>2, <1>3, <2>0 DEF TypeOK
  <2> QED
    BY <1>0, <1>1, <1>2, <1>3, <2>1 DEF TypeOK
<1>5. CacheInv'
  BY <1>0, <1>1, <1>3 DEF CacheInv
<1>6. ASSUME NEW m \in Loaders PROVE LoaderInv(m)'
  <2>1. \A g \in writing[m] : g \in Files /\ cache[data[m]][g] /= "absent" /\ data[m] \in Archives
    BY <1>0 DEF IInv, LoadInv, TypeOK
  <2>2. \A g \in writing'[m] : cache'[data[m]][g] /= "absent"
    BY <1>2, <1>3, <2>1
  <2>3. m \in disturbed => m \in disturbed'
    BY <1>1
  <2>4. ASSUME pc[m] \in Loading \cup {"loaded"}, m \notin disturbed'
        PROVE  cache'[data[m]] = cache[data[m]]
    <3>1. data[m] /= a /\ data[m] \in Archives
      BY <1>1, <2>4 DEF IInv, LoadInv
    <3> QED
      BY <1>3, <3>1
  <2> QED
    BY <1>2, <2>2, <2>3, <2>4, Bystander
<1> QED
  BY <1>4, <1>5, <1>6, NextIInvByLoader

\* A step that changes nothing.
LEMMA StutterKeepsIInv == IInv /\ UNCHANGED vars => IInv'
BY DEF IInv, TypeOK, LoadInv, CacheInv, CheckInv, AloneInv, FailedIsUnsound, Complete,
       NoFiles, Sound, vars

\* IInv is invariant: loaders have only their own archive's files open, check
\* what they have extracted, and are disturbed by whoever changes it.
THEOREM Invariance == Spec => []IInv
<1>1. Init => IInv
  BY InitIInv
<1>2. IInv /\ [Next]_vars => IInv'
  <2> SUFFICES ASSUME IInv, [Next]_vars PROVE IInv'
    OBVIOUS
  <2>1. ASSUME NEW l \in Loaders, LoaderStep(l) \/ Fault(l) \/ Leave(l) PROVE IInv'
    <3>1. CASE RemoveFile(l)
      BY <3>1, RemoveFileKeepsIInv
    <3>2. CASE RemoveDirectory(l) \/ MakeDirectory(l)
      BY <3>2, DirectoryKeepsIInv
    <3>3. CASE OpenEntry(l)
      BY <3>3, OpenEntryKeepsIInv
    <3>4. CASE WriteEntry(l)
      BY <3>4, WriteEntryKeepsIInv
    <3> QED
      BY <2>1, <3>1, <3>2, <3>3, <3>4, OwnStepsKeepIInv DEF LoaderStep
  <2>2. CASE AlterFile
    BY <2>2, AlterFileKeepsIInv
  <2>3. CASE UNCHANGED vars
    BY <2>3, StutterKeepsIInv
  <2> QED
    BY <2>1, <2>2, <2>3 DEF Next
<1> QED
  BY <1>1, <1>2, PTL DEF Spec

-----------------------------------------------------------------------------
(* What follows *)

\* Every variable keeps its type, and a directory that is not there holds no
\* file.
THEOREM TypeCorrect == Spec => []TypeOK
BY Invariance, PTL DEF IInv

\* No bundle is accepted that is damaged, lacks its manifest or a listed file,
\* or has a listed file with another content, whatever happens in the cache.
THEOREM AcceptedBundlesAreSound == Spec => []AcceptedIsSound
<1>1. IInv => AcceptedIsSound
  BY DEF IInv, CheckInv, AcceptedIsSound, Sound
<1> QED
  BY <1>1, Invariance, PTL

\* A load that nobody disturbs hands over exactly the archive's files.
THEOREM UndisturbedLoadsAreComplete == Spec => []LoadedIsComplete
<1>1. IInv => LoadedIsComplete
  <2> SUFFICES ASSUME IInv, NEW l \in Loaders, pc[l] = "loaded", l \notin disturbed
               PROVE  cache[data[l]] = Complete(data[l])
    BY DEF LoadedIsComplete
  <2>1. \A f \in Files : cache[data[l]][f] = Complete(data[l])[f]
    BY DEF IInv, AloneInv
  <2>2. cache[data[l]] \in [Files -> Contents] /\ Complete(data[l]) \in [Files -> Contents]
    BY DEF IInv, LoadInv, TypeOK, Complete
  <2> QED
    BY <2>1, <2>2
<1> QED
  BY <1>1, Invariance, PTL

\* A load that nobody disturbs fails only on a bundle that is not sound.
THEOREM UndisturbedFailuresAreTrue == Spec => []FailedIsUnsound
<1>1. IInv => FailedIsUnsound
  BY DEF IInv
<1> QED
  BY <1>1, Invariance, PTL
=============================================================================
