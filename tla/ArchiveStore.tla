----------------------------- MODULE ArchiveStore -----------------------------
(***************************************************************************)
(* What createZIP and addFileToZIP of evnt::FileSystem promise about an    *)
(* archive on disk.  An update is not atomic, but it is all or nothing:    *)
(* whoever reads the archive, at any moment or after any crash, finds the  *)
(* files that were in it before, or none, or the new list; never a mix,    *)
(* never a file that nobody stored.                                        *)
(***************************************************************************)
EXTENDS Naturals, Sequences

CONSTANTS Archives, Names, Contents,
          None          \* no update is in progress

VARIABLES listing,      \* per archive, the files that its directory gives access to
          update        \* per archive, the listing that is being written, or None

vars == <<listing, update>>

StoredFiles == [name : Names, content : Contents]

Init == /\ listing = [z \in Archives |-> <<>>]
        /\ update = [z \in Archives |-> None]

(* createZIP truncates the archive first. *)
Create(z) ==
  /\ update[z] = None
  /\ update'[z] \in Seq(StoredFiles)
  /\ update'[z] # <<>>
  /\ update' = [update EXCEPT ![z] = update'[z]]
  /\ listing' = [listing EXCEPT ![z] = <<>>]

(* addFileToZIP keeps what is there, and refuses a name that is there. *)
Add(z) ==
  /\ update[z] = None
  /\ listing[z] # <<>>
  /\ \E file \in StoredFiles :
       /\ \A i \in 1..Len(listing[z]) : listing[z][i].name # file.name
       /\ update' = [update EXCEPT ![z] = Append(listing[z], file)]
  /\ UNCHANGED listing

(* While it is written the archive cannot be read. *)
Vanish(z) ==
  /\ update[z] # None
  /\ listing' = [listing EXCEPT ![z] = <<>>]
  /\ UNCHANGED update

Publish(z) ==
  /\ update[z] # None
  /\ listing' = [listing EXCEPT ![z] = update[z]]
  /\ UNCHANGED update

Finish(z) ==
  /\ update[z] # None
  /\ listing[z] = update[z]
  /\ update' = [update EXCEPT ![z] = None]
  /\ UNCHANGED listing

(* The process ends, perhaps in the middle of an update. *)
Stop == update' = [z \in Archives |-> None] /\ UNCHANGED listing

Next == \/ \E z \in Archives : Create(z) \/ Add(z) \/ Vanish(z) \/ Publish(z) \/ Finish(z)
        \/ Stop

Spec == Init /\ [][Next]_vars
=============================================================================
