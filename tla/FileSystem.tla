------------------------------ MODULE FileSystem ------------------------------
(***************************************************************************)
(* evnt::FileSystem (src/fs/file_system.h, .cpp, zip.h): an index of the   *)
(* plain files below the data directory and of the files in its ZIP        *)
(* archives, made when the FileSystem is constructed; and the two          *)
(* operations that write archives, unit by unit, with the process ending   *)
(* at any point.                                                           *)
(*                                                                         *)
(* An archive on disk is a sequence of units: a local file header, a piece *)
(* of data, a directory record or the end record.  Offsets count units.    *)
(***************************************************************************)
EXTENDS Naturals, Sequences, FiniteSets, SequencesExt, FiniteSetsExt

CONSTANTS Files,        \* names of plain files
          Archives,     \* paths of archives
          Contents, NoContent,
          Size,         \* per content, its units of data; 0 for an empty file
          NoArchive,
          MaxUpdates,   \* bound of the model: writing calls
          MaxStops      \* bound of the model: times the process ends

ASSUME FileSystemAssumption ==
  /\ Size \in [Contents -> Nat] /\ \E c \in Contents : Size[c] = 0
  /\ NoContent \notin Contents
  /\ NoArchive \notin Archives
  /\ Files \cap Archives = {}
  /\ IsFiniteSet(Files) /\ IsFiniteSet(Archives)
  /\ MaxUpdates \in Nat /\ MaxStops \in Nat

Names == Files \cup Archives    \* a file that was loaded from an archive has its path as name

VARIABLES
  plain,       \* per plain file, its content on disk
  present,     \* the archives that exist
  disk,        \* per archive, its units
  phase,       \* the process: down, up, or hung in addZippedDir's search
  m_files,     \* the index, in the order it is searched
  op,          \* the writing call in progress
  loaded,      \* the file of an archive that getFile returned last, if any
  recreated,   \* the archives that createZIP wrote since the index was made
  hidden,      \* the plain files first written while an archive's had the name in the index
  updates, stops

vars == <<plain, present, disk, phase, m_files, op, loaded, recreated, hidden, updates, stops>>

NoOp == [kind |-> "none"]

-----------------------------------------------------------------------------
(* The layout of an archive.                                                 *)

Data(file, k) == [is |-> "data", name |-> file.name, content |-> file.content, part |-> k]

LocalUnits(file) ==
  <<[is |-> "local", name |-> file.name, content |-> file.content]>>
    \o [k \in 1..Size[file.content] |-> Data(file, k)]

DirUnit(file, offset) ==
  [is |-> "dir", name |-> file.name, content |-> file.content, at |-> offset]

EndUnit(offset, n) == [is |-> "end", at |-> offset, n |-> n]

NewArchive(list) ==
  LET locals(n) == FlattenSeq([i \in 1..n |-> LocalUnits(list[i])])
      first     == Len(locals(Len(list))) + 1
  IN  locals(Len(list))
        \o [i \in 1..Len(list) |-> DirUnit(list[i], Len(locals(i - 1)) + 1)]
        \o <<EndUnit(first, Len(list))>>

(* The end record is searched backwards; offset 0 is never looked at. *)
EndAt(z) == LET ends == {i \in 2..Len(disk[z]) : disk[z][i].is = "end"}
            IN  IF ends = {} THEN 0 ELSE Max(ends)

IsDirUnit(z, i) == i \in 1..Len(disk[z]) /\ disk[z][i].is = "dir"

(* The directory records as far as they have their signature. *)
Directory(z) ==
  IF EndAt(z) = 0 THEN <<>>
  ELSE LET end  == disk[z][EndAt(z)]
           good == {n \in 0..end.n : \A i \in 1..n : IsDirUnit(z, end.at + i - 1)}
       IN  SubSeq(disk[z], end.at, end.at + Max(good) - 1)

(* What a reader gets who follows an offset of the index.  (Data that is      *)
(* incomplete behind its header, where the code inflates what there is, is    *)
(* left by a process that ended, and no index made later leads there.)        *)
ReadAt(z, offset) ==
  IF offset \in 1..Len(disk[z]) /\ disk[z][offset].is = "local"
  THEN LET header == disk[z][offset]
       IN  IF \A k \in 1..Size[header.content] :
                offset + k <= Len(disk[z]) /\ disk[z][offset + k] = Data(header, k)
           THEN header.content ELSE NoContent
  ELSE NoContent

-----------------------------------------------------------------------------
(* The index.                                                                *)

PlainEntry(f) == [zip |-> NoArchive, name |-> f]

(* addZippedDir leaves an empty stored file out of the index.  (Archives are  *)
(* those that this code writes: stored or deflated, not encrypted, without    *)
(* data descriptors, extra fields and comments.)                              *)
Scan(z) ==
  LET records  == Directory(z)
      entry(d) == [zip |-> z, name |-> d.name, at |-> d.at, content |-> d.content]
  IN  FlattenSeq([i \in 1..Len(records) |->
                    IF Size[records[i].content] = 0 THEN <<>> ELSE <<entry(records[i])>>])

Orders(S) == {s \in [1..Cardinality(S) -> S] : \A i, j \in DOMAIN s : i # j => s[i] # s[j]}

Matches(name) == {i \in 1..Len(m_files) : m_files[i].name = name}

isExist(name) == Matches(name) # {}

Init ==
  /\ plain \in [Files -> {NoContent} \cup Contents]
  /\ present = {}
  /\ disk = [z \in Archives |-> <<>>]
  /\ phase = "down"
  /\ m_files = <<>>
  /\ op = NoOp
  /\ loaded = {}
  /\ recreated = {}
  /\ hidden = {}
  /\ updates = 0
  /\ stops = 0

OnDisk == {f \in Files : plain[f] # NoContent}

(* The constructor scans the data directory, in the order the directory has. *)
(* The search for the end record of a file that is shorter than the record   *)
(* starts at an offset that wrapped below zero, and does not end.            *)
Mount ==
  /\ phase = "down"
  /\ phase' = IF \E z \in present : disk[z] = <<>> THEN "hung" ELSE "up"
  /\ \E names \in Orders(OnDisk), zips \in Orders(present) :
       m_files' = [i \in 1..Len(names) |-> PlainEntry(names[i])]
                    \o FlattenSeq([i \in 1..Len(zips) |-> Scan(zips[i])])
  /\ UNCHANGED <<plain, present, disk, op, loaded, recreated, hidden, updates, stops>>

Ready == phase = "up" /\ op = NoOp

\* MemoryFile: a name and data that the caller chooses.
MemoryFiles == [name : Files, content : Contents]

loadPermanentFile(entry) == [name : {entry.name}, content : {plain[entry.name]}]

(* The file gets the archive's path as its name.  Whether the data is         *)
(* compressed is taken from the index, its size from the local header, and    *)
(* what inflate says is ignored: when another file is there than the one that *)
(* was indexed, the content may be anything.                                  *)
loadZipFile(entry) ==
  LET found    == ReadAt(entry.zip, entry.at)
      contents == IF found \in {entry.content, NoContent} THEN {found} ELSE Contents
  IN  [name : {entry.zip}, content : contents]

(* The first entry of the name is loaded; otherwise, and when the file cannot *)
(* be read, getFile throws and nothing changes.                               *)
getFile(name) ==
  /\ Ready
  /\ isExist(name)
  /\ LET entry == m_files[Min(Matches(name))]
     IN  \E file \in IF entry.zip = NoArchive THEN loadPermanentFile(entry)
                     ELSE loadZipFile(entry) :
            file.content # NoContent /\ loaded' = {file} \ MemoryFiles
  /\ UNCHANGED <<plain, present, disk, phase, m_files, op, recreated, hidden, updates, stops>>

\* The files that a caller can have: memory files, and what getFile returned.
Available == MemoryFiles \cup loaded

-----------------------------------------------------------------------------
(* writeFile.  (The path of an archive is not below the data directory, so   *)
(* that opening it there fails and nothing is written.)                      *)

BeginUpdate == Ready /\ updates < MaxUpdates /\ updates' = updates + 1

BeginWriteFile(file) ==
  /\ BeginUpdate
  /\ file.name \in Files
  /\ \E empty \in {c \in Contents : Size[c] = 0} : plain' = [plain EXCEPT ![file.name] = empty]
  /\ op' = [kind |-> "write", file |-> file]
  /\ hidden' = hidden \cup {f \in {file.name} : plain[f] = NoContent /\ isExist(f)}
  /\ UNCHANGED <<present, disk, phase, m_files, loaded, recreated, stops>>

\* Mutant: the new file is not put into the index.
EndWriteFileUnindexed ==
  /\ op.kind = "write"
  /\ plain' = [plain EXCEPT ![op.file.name] = op.file.content]
  /\ op' = NoOp
  /\ UNCHANGED <<present, disk, phase, m_files, loaded, recreated, hidden, updates, stops>>

EndWriteFile ==
  /\ op.kind = "write"
  /\ plain' = [plain EXCEPT ![op.file.name] = op.file.content]
  /\ m_files' = IF isExist(op.file.name) THEN m_files
                ELSE Append(m_files, PlainEntry(op.file.name))
  /\ op' = NoOp
  /\ UNCHANGED <<present, disk, phase, loaded, recreated, hidden, updates, stops>>

-----------------------------------------------------------------------------
(* createZIP and addFileToZIP.                                               *)

\* A call that writes units of archive z one after the other from an offset.
Writing(z, offset, units, promised) ==
  [kind |-> "archive", zip |-> z, at |-> offset, todo |-> units, promised |-> promised]

BeginCreateZIP(z, list) ==
  /\ BeginUpdate
  /\ present' = present \cup {z}
  /\ disk' = [disk EXCEPT ![z] = <<>>]
  /\ recreated' = recreated \cup {z}
  /\ op' = Writing(z, 1, NewArchive(list), list)
  /\ UNCHANGED <<plain, phase, m_files, loaded, hidden, stops>>

\* What the directory gives access to.
Listing(z) ==
  LET records == Directory(z)
  IN  [i \in 1..Len(records) |->
         [name |-> records[i].name, content |-> ReadAt(z, records[i].at)]]

\* addFileToZIP goes on only if the directory is complete and lacks the name.
CanAdd(z, file) ==
  /\ z \in present
  /\ EndAt(z) # 0
  /\ Len(Directory(z)) = disk[z][EndAt(z)].n
  /\ \A i \in 1..Len(Directory(z)) : Directory(z)[i].name # file.name

AddedUnits(file, offset, records) ==
  LET local == LocalUnits(file)
  IN  local \o Append(records, DirUnit(file, offset))
            \o <<EndUnit(offset + Len(local), Len(records) + 1)>>

AddAt(z, file, offset, records) ==
  /\ BeginUpdate
  /\ CanAdd(z, file)
  /\ op' = Writing(z, offset, AddedUnits(file, offset, records), Append(Listing(z), file))
  /\ UNCHANGED <<plain, present, disk, phase, m_files, loaded, recreated, hidden, stops>>

\* Mutant: the old directory is not copied.
BeginAddFileToZIPForgets(z, file) == AddAt(z, file, disk[z][EndAt(z)].at, <<>>)

\* Mutant: writing starts one unit too early.
BeginAddFileToZIPEarly(z, file) == AddAt(z, file, disk[z][EndAt(z)].at - 1, Directory(z))

\* Mutant: writing starts after the file's end, with the end record counted twice.
BeginAddFileToZIPLate(z, file) == AddAt(z, file, Len(disk[z]) + 2, Directory(z))

(* The new file overwrites the old directory, which follows it again. *)
BeginAddFileToZIP(z, file) == AddAt(z, file, disk[z][EndAt(z)].at, Directory(z))

WriteUnit ==
  /\ op.kind = "archive"
  /\ op.todo # <<>>
  /\ disk' = [disk EXCEPT ![op.zip] = SubSeq(@, 1, op.at - 1) \o <<Head(op.todo)>>
                                        \o SubSeq(@, op.at + 1, Len(@))]
  /\ op' = [op EXCEPT !.at = @ + 1, !.todo = Tail(@)]
  /\ UNCHANGED <<plain, present, phase, m_files, loaded, recreated, hidden, updates, stops>>

EndArchive ==
  /\ op.kind = "archive"
  /\ op.todo = <<>>
  /\ op' = NoOp
  /\ UNCHANGED <<plain, present, disk, phase, m_files, loaded, recreated, hidden, updates, stops>>

(* The process ends, in the middle of a call or not; the disk stays. *)
Stop ==
  /\ phase # "down"
  /\ stops < MaxStops
  /\ stops' = stops + 1
  /\ phase' = "down"
  /\ m_files' = <<>>
  /\ op' = NoOp
  /\ loaded' = {}
  /\ recreated' = {}
  /\ hidden' = {}
  /\ UNCHANGED <<plain, present, disk, updates>>

Rest == (Ready \/ phase = "hung") /\ UNCHANGED vars

-----------------------------------------------------------------------------
Next == \/ Mount \/ Stop \/ Rest
        \/ \E name \in Names : getFile(name)
        \/ \E file \in Available : BeginWriteFile(file)
        \/ EndWriteFile
        \/ \E z \in Archives, file \in Available : BeginAddFileToZIP(z, file)
        \/ \E z \in Archives, one, two \in Available :
             BeginCreateZIP(z, <<one>>) \/ BeginCreateZIP(z, <<one, two>>)
        \/ WriteUnit \/ EndArchive

Spec == Init /\ [][Next]_vars

-----------------------------------------------------------------------------
(* Properties.                                                               *)

\* The types; and no call leaves a gap in an archive, or seeks past its end.
TypeOK ==
  /\ plain \in [Files -> Contents \cup {NoContent}]
  /\ present \subseteq Archives
  /\ \A z \in Archives \ present : disk[z] = <<>>
  /\ phase \in {"down", "up", "hung"}
  /\ \A i \in 1..Len(m_files) : m_files[i].name \in Names
  /\ op.kind \in {"none", "write", "archive"}
  /\ op.kind = "archive" => op.at \in 1..(Len(disk[op.zip]) + 1)
  /\ recreated \subseteq present

(* An entry of the index keeps reading the data it was made for, also while   *)
(* addFileToZIP overwrites the directory behind it and after it has failed in *)
(* the middle.  (createZIP over an indexed archive makes its entries stale.)  *)
IndexReadsBack ==
  \A i \in 1..Len(m_files) :
    LET entry == m_files[i]
    IN  entry.zip \notin recreated \cup {NoArchive}
          => ReadAt(entry.zip, entry.at) = entry.content

(* A plain file that is on disk can be found, although only the constructor   *)
(* scans the disk; and getFile reads it, whatever the archives hold under its *)
(* name, except when an archive's file had the name in the index before the   *)
(* plain file was first written: writeFile leaves the index alone then, and   *)
(* getFile goes on reading the archive's until the next start.                *)
EveryFileExists ==
  Ready => \A f \in OnDisk :
             /\ isExist(f)
             /\ m_files[Min(Matches(f))].zip = NoArchive <=> f \notin hidden

\* The code implements ArchiveStore, as seen by a reader of the directory.
\* (No call promises an empty archive: <<>> stands for none in progress.)
Update == [z \in Archives |-> IF op.kind = "archive" /\ op.zip = z THEN op.promised ELSE <<>>]

Store == INSTANCE ArchiveStore WITH listing <- [z \in Archives |-> Listing(z)],
                                    update  <- Update,
                                    None    <- <<>>

(* An update of an archive is all or nothing for every later reader, whenever *)
(* the process ends: see ArchiveStore.                                        *)
ImplementsArchiveStore == Store!Spec

(* An archive without the signature of the end record is reported and left    *)
(* out ("not found EOCD_offset signature"), and the constructor goes on.      *)
UnsignedArchiveIsSkipped == phase # "hung"

=============================================================================
