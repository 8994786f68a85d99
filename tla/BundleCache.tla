---------------------------- MODULE BundleCache -----------------------------
(***************************************************************************)
(* bundle.Load: an air-gapped bundle is read, its directory in the cache   *)
(* (named by the hash of the tarball, so shared by every process that      *)
(* loads the same tarball) is removed and made again, the entries are      *)
(* extracted one by one and the files that the manifest lists are checked. *)
(* Nothing locks the cache: loaders overlap, die halfway, run out of disk, *)
(* and the tarball and the cached files may be changed by somebody else.   *)
(* app install and app upgrade load a second time when the first load, by  *)
(* the chart resolver, fails; cluster install loads once.                  *)
(***************************************************************************)
EXTENDS Integers

CONSTANTS
  Loaders,   \* executions that load the bundle
  Apps,      \* those of app install and app upgrade; the others install a cluster
  Files,     \* files of bundles, the manifest aside
  Archives,  \* contents that the tarball may have
  NoArchive

\* files: the entries; listed: the files with a checksum in the manifest;
\* corrupt: the files whose content is not the listed one; readable: the tar
\* stream is intact and no entry leaves the directory; manifest: it is there.
ASSUME ArchivesAssumption ==
  /\ Apps \subseteq Loaders
  /\ Archives \subseteq [files : SUBSET Files, listed : SUBSET Files, corrupt : SUBSET Files,
                         readable : BOOLEAN, manifest : BOOLEAN]
  /\ NoArchive \notin Archives

VARIABLES
  directory,  \* archives whose cache directory exists
  cache,      \* the state of each archive's files in its directory
  pc,         \* what each loader does
  data,       \* the archive it has read
  todo,       \* files still to be extracted, or to be checked
  writing,    \* the file it has open for writing, as a set
  attempts,   \* loads its command may still begin
  disturbed   \* loaders whose load met another one, or a fault (history)

vars == <<directory, cache, pc, data, todo, writing, attempts, disturbed>>

disk == <<directory, cache>>

Contents == {"absent", "empty", "whole", "altered"}

Loading == {"reset", "make", "extract", "check"}

NoFiles == [f \in Files |-> "absent"]

TypeOK ==
  /\ directory \subseteq Archives
  /\ cache \in [Archives -> [Files -> Contents]]
  /\ \A a \in Archives \ directory : cache[a] = NoFiles
  /\ pc \in [Loaders -> {"idle", "loaded", "failed", "gone"} \cup Loading]
  /\ data \in [Loaders -> Archives \cup {NoArchive}]
  /\ todo \in [Loaders -> SUBSET Files]
  /\ writing \in [Loaders -> SUBSET Files]
  /\ attempts \in [Loaders -> 0 .. 2]
  /\ disturbed \subseteq Loaders

Init ==
  /\ directory = {}
  /\ cache = [a \in Archives |-> NoFiles]
  /\ pc = [l \in Loaders |-> "idle"]
  /\ data = [l \in Loaders |-> NoArchive]
  /\ todo = [l \in Loaders |-> {}]
  /\ writing = [l \in Loaders |-> {}]
  /\ attempts = [l \in Loaders |-> IF l \in Apps THEN 2 ELSE 1]
  /\ disturbed = {}

-----------------------------------------------------------------------------
(* History: which loads had the directory to themselves *)

\* The others at work in the directory of archive a.
Others(l, a) == {m \in Loaders \ {l} : pc[m] \in Loading /\ data[m] = a}

\* A step of l in its directory is seen by those at work, or done, there.
Disturb(l) ==
  disturbed' = disturbed \cup {m \in Loaders \ {l} : pc[m] \in Loading \cup {"loaded"} /\ data[m] = data[l]}

-----------------------------------------------------------------------------
(* A loader *)

\* The load fails; its command begins another one if it has one left.
Fail(l) ==
  /\ pc' = [pc EXCEPT ![l] = IF attempts'[l] > 0 THEN "idle" ELSE "failed"]
  /\ writing' = [writing EXCEPT ![l] = {}]
  /\ todo' = [todo EXCEPT ![l] = {}]

\* The tarball cannot be read.
Unreadable(l) ==
  /\ pc[l] = "idle"
  /\ attempts' = [attempts EXCEPT ![l] = @ - 1]
  /\ Fail(l)
  /\ disturbed' = disturbed \cup {l}
  /\ UNCHANGED <<disk, data>>

Read_cacheHit(l) ==
  /\ pc[l] = "idle"
  /\ attempts' = [attempts EXCEPT ![l] = @ - 1]
  /\ \E a \in Archives :
       /\ pc' = [pc EXCEPT ![l] = IF a \in directory THEN "check" ELSE "reset"]
       /\ data' = [data EXCEPT ![l] = a]
       /\ todo' = [todo EXCEPT ![l] = IF a \in directory THEN a.listed ELSE {}]
       /\ disturbed' = IF Others(l, a) = {} THEN disturbed \ {l} ELSE disturbed \cup {l}
  /\ UNCHANGED <<disk, writing>>

Read_forever(l) ==
  /\ pc[l] = "idle"
  /\ pc' = [pc EXCEPT ![l] = "reset"]
  /\ \E a \in Archives :
       /\ data' = [data EXCEPT ![l] = a]
       /\ disturbed' = IF Others(l, a) = {} THEN disturbed \ {l} ELSE disturbed \cup {l}
  /\ UNCHANGED <<disk, todo, writing, attempts>>

\* The whole tarball, whatever is at the path by now, is read into memory; its
\* hash names the directory.
Read(l) ==
  /\ pc[l] = "idle"
  /\ attempts' = [attempts EXCEPT ![l] = @ - 1]
  /\ pc' = [pc EXCEPT ![l] = "reset"]
  /\ \E a \in Archives :
       /\ data' = [data EXCEPT ![l] = a]
       /\ disturbed' = IF Others(l, a) = {} THEN disturbed \ {l} ELSE disturbed \cup {l}
  /\ UNCHANGED <<disk, todo, writing>>

\* RemoveAll unlinks the files one by one; who has one open writes to nowhere.
RemoveFile(l) ==
  /\ pc[l] = "reset"
  /\ \E f \in Files :
       /\ cache[data[l]][f] /= "absent"
       /\ cache' = [cache EXCEPT ![data[l]][f] = "absent"]
       /\ writing' = [m \in Loaders |-> IF data[m] = data[l] THEN writing[m] \ {f} ELSE writing[m]]
  /\ Disturb(l)
  /\ UNCHANGED <<directory, pc, data, todo, attempts>>

RemoveDirectory_keepsFiles(l) ==
  /\ pc[l] = "reset"
  /\ directory' = directory \ {data[l]}
  /\ pc' = [pc EXCEPT ![l] = "make"]
  /\ Disturb(l)
  /\ UNCHANGED <<cache, data, todo, writing, attempts>>

\* It found no more files: the directory goes.
RemoveDirectory(l) ==
  /\ pc[l] = "reset"
  /\ cache[data[l]] = NoFiles
  /\ directory' = directory \ {data[l]}
  /\ pc' = [pc EXCEPT ![l] = "make"]
  /\ Disturb(l)
  /\ UNCHANGED <<cache, data, todo, writing, attempts>>

MakeDirectory(l) ==
  /\ pc[l] = "make"
  /\ directory' = directory \cup {data[l]}
  /\ pc' = [pc EXCEPT ![l] = "extract"]
  /\ todo' = [todo EXCEPT ![l] = data[l].files]
  /\ Disturb(l)
  /\ UNCHANGED <<cache, data, writing, attempts>>

\* extractEntry makes the directory and creates or truncates the file; the
\* descriptor names the file as long as nobody unlinks it.
OpenEntry(l) ==
  /\ pc[l] = "extract"
  /\ writing[l] = {}
  /\ \E f \in todo[l] :
       /\ cache' = [cache EXCEPT ![data[l]][f] = "empty"]
       /\ writing' = [writing EXCEPT ![l] = {f}]
       /\ todo' = [todo EXCEPT ![l] = @ \ {f}]
  /\ directory' = directory \cup {data[l]}
  /\ Disturb(l)
  /\ UNCHANGED <<pc, data, attempts>>

\* The write to a file that is still in the directory.
WriteEntry(l) ==
  /\ pc[l] = "extract"
  /\ \E f \in writing[l] : cache' = [cache EXCEPT ![data[l]][f] = "whole"]
  /\ writing' = [writing EXCEPT ![l] = {}]
  /\ Disturb(l)
  /\ UNCHANGED <<directory, pc, data, todo, attempts>>

\* The directory vanished under the entry, or the disk is full.
Fault(l) ==
  /\ pc[l] \in Loading
  /\ UNCHANGED attempts
  /\ Fail(l)
  /\ disturbed' = disturbed \cup {l}
  /\ UNCHANGED <<disk, data>>

\* A damaged stream or an entry that leaves the directory, wherever it comes;
\* or the stream ends and no manifest was in it.
RejectArchive(l) ==
  /\ pc[l] = "extract"
  /\ writing[l] = {}
  /\ \/ ~data[l].readable
     \/ todo[l] = {} /\ ~data[l].manifest
  /\ UNCHANGED attempts
  /\ Fail(l)
  /\ UNCHANGED <<disk, data, disturbed>>

\* All the entries are extracted and the manifest was among them.
EndOfArchive(l) ==
  /\ pc[l] = "extract"
  /\ writing[l] = {} /\ todo[l] = {}
  /\ data[l].readable /\ data[l].manifest
  /\ pc' = [pc EXCEPT ![l] = "check"]
  /\ todo' = [todo EXCEPT ![l] = data[l].listed]
  /\ UNCHANGED <<disk, data, writing, attempts, disturbed>>

\* Does the file that validateChecksums reads have the listed checksum?
Matches(l, f) == cache[data[l]][f] = "whole" /\ f \notin data[l].corrupt

CheckFile_skipsMissing(l) ==
  /\ pc[l] = "check"
  /\ \E f \in todo[l] :
       /\ Matches(l, f) \/ cache[data[l]][f] = "absent"
       /\ todo' = [todo EXCEPT ![l] = @ \ {f}]
  /\ UNCHANGED <<disk, pc, data, writing, attempts, disturbed>>

\* validateChecksums takes the listed files in any order.
CheckFile(l) ==
  /\ pc[l] = "check"
  /\ \E f \in todo[l] :
       /\ Matches(l, f)
       /\ todo' = [todo EXCEPT ![l] = @ \ {f}]
  /\ UNCHANGED <<disk, pc, data, writing, attempts, disturbed>>

RejectFile(l) ==
  /\ pc[l] = "check"
  /\ \E f \in todo[l] : ~Matches(l, f)
  /\ UNCHANGED attempts
  /\ Fail(l)
  /\ UNCHANGED <<disk, data, disturbed>>

\* The bundle is handed to the command, which goes on with the directory.
Loaded(l) ==
  /\ pc[l] = "check"
  /\ todo[l] = {}
  /\ pc' = [pc EXCEPT ![l] = "loaded"]
  /\ UNCHANGED <<disk, data, todo, writing, attempts, disturbed>>

\* The process dies, or its command is done with the bundle: what it has put
\* into the cache stays.
Leave(l) ==
  /\ pc[l] \in Loading \cup {"loaded"}
  /\ pc' = [pc EXCEPT ![l] = "gone"]
  /\ writing' = [writing EXCEPT ![l] = {}]
  /\ data' = [data EXCEPT ![l] = NoArchive]
  /\ todo' = [todo EXCEPT ![l] = {}]
  /\ attempts' = [attempts EXCEPT ![l] = 0]
  /\ disturbed' = disturbed \ {l}
  /\ UNCHANGED disk

-----------------------------------------------------------------------------
(* The rest of the machine *)

\* A file in the cache is altered by hand.
AlterFile ==
  /\ \E a \in Archives, f \in Files :
       /\ cache[a][f] \in {"empty", "whole"}
       /\ cache' = [cache EXCEPT ![a][f] = "altered"]
       /\ disturbed' = disturbed \cup
            {l \in Loaders : pc[l] \in Loading \cup {"loaded"} /\ data[l] = a}
  /\ UNCHANGED <<directory, pc, data, todo, writing, attempts>>

-----------------------------------------------------------------------------
LoaderStep(l) ==
  \/ Unreadable(l) \/ Read(l) \/ RemoveFile(l) \/ RemoveDirectory(l) \/ MakeDirectory(l)
  \/ OpenEntry(l) \/ WriteEntry(l) \/ RejectArchive(l) \/ EndOfArchive(l)
  \/ CheckFile(l) \/ RejectFile(l) \/ Loaded(l)

Next ==
  \/ \E l \in Loaders : LoaderStep(l) \/ Fault(l) \/ Leave(l)
  \/ AlterFile

Spec == Init /\ [][Next]_vars

\* A loader that lives goes on.
FairSpec == Spec /\ \A l \in Loaders : WF_vars(LoaderStep(l))

-----------------------------------------------------------------------------
(* Properties *)

\* What makes a bundle acceptable: intact, with a manifest, and every listed
\* file in it with the listed content.
Sound(a) ==
  a.readable /\ a.manifest /\ a.listed \subseteq a.files /\ a.listed \cap a.corrupt = {}

\* Only a sound bundle is ever accepted, whatever other loaders, crashes,
\* tampering and replaced tarballs leave in the cache during the load.
AcceptedIsSound == \A l \in Loaders : pc[l] = "loaded" => Sound(data[l])

\* All of archive a, as a load that is let alone leaves it.
Complete(a) == [f \in Files |-> IF f \in a.files THEN "whole" ELSE "absent"]

\* A load that has the directory to itself hands over all of the archive and
\* nothing else, whatever an earlier load, a crash or an alteration left.
LoadedIsComplete ==
  \A l \in Loaders : pc[l] = "loaded" /\ l \notin disturbed =>
    cache[data[l]] = Complete(data[l])

\* A load that fails with the directory to itself and no I/O error has met a
\* bundle that is not sound: debris of a crash is never held against it.
FailedIsUnsound ==
  \A l \in Loaders : pc[l] = "failed" /\ l \notin disturbed => ~Sound(data[l])

\* Loaders that remove each other's files still come to an end.
EveryLoadEnds ==
  \A l \in Loaders : (pc[l] \in Loading) ~> (pc[l] \in {"loaded", "failed", "gone"})

-----------------------------------------------------------------------------
(* The inductive invariant *)

\* A loader that may begin has a load left, one at work has read an archive;
\* the one file it has open is of the archive and has not been unlinked.
LoadInv ==
  \A l \in Loaders :
    /\ pc[l] = "idle" => attempts[l] > 0
    /\ pc[l] \in Loading \cup {"loaded"} => data[l] \in Archives
    /\ writing[l] /= {} => pc[l] = "extract"
    /\ pc[l] = "extract" => todo[l] \cup writing[l] \subseteq data[l].files
    /\ todo[l] \cap writing[l] = {}
    /\ \A f, g \in writing[l] : f = g
    /\ \A f \in writing[l] : cache[data[l]][f] /= "absent"

\* A directory holds files of its archive only.
CacheInv ==
  \A a \in Archives, f \in Files : cache[a][f] /= "absent" => f \in a.files

\* A file that has been checked is in the archive, with the listed content.
CheckInv ==
  \A l \in Loaders :
    /\ pc[l] \in {"check", "loaded"} =>
         /\ data[l].readable /\ data[l].manifest
         /\ todo[l] \subseteq data[l].listed
         /\ data[l].listed \ todo[l] \subseteq data[l].files \ data[l].corrupt
    /\ pc[l] = "loaded" => todo[l] = {}

\* The directory as a load that is let alone finds it, step by step.
AloneInv ==
  \A l \in Loaders \ disturbed :
    \A f \in Files :
      /\ pc[l] = "make" => cache[data[l]][f] = "absent"
      /\ pc[l] = "extract" =>
           cache[data[l]][f] = IF f \in writing[l] THEN "empty"
                               ELSE IF f \in data[l].files \ todo[l] THEN "whole"
                               ELSE "absent"
      /\ pc[l] \in {"check", "loaded"} => cache[data[l]][f] = Complete(data[l])[f]

\* What every step preserves, and what implies the three safety properties.
IInv ==
  TypeOK /\ LoadInv /\ CacheInv /\ CheckInv /\ AloneInv /\ FailedIsUnsound
=============================================================================
