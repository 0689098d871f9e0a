----------------------------- MODULE Filesystem -----------------------------
(***************************************************************************)
(* persistent_filesystem (src/src/persistent_filesystem.cc): the directory *)
(* of one CRUD endpoint.  An entity is a subdirectory, a document the file *)
(* in it that is named by the document's id.  A disk is a record:          *)
(*   dirs   the entities with a subdirectory                               *)
(*   files  what each file holds; Missing when there is no such file       *)
(* Writing a file is two steps, because opening it empties it and the text *)
(* reaches the file when it is closed.                                     *)
(***************************************************************************)
EXTENDS Integers

CONSTANTS Entities, \* names of entities
          MaxId,    \* bound: ids run from 1 to MaxId
          Docs      \* JSON texts a client may store

ASSUME MaxIdAssumption == MaxId \in Nat

Ids == 1 .. MaxId

\* Missing: no file.  Blank: an empty file.  Mixed: the bytes of two writers.
CONSTANTS Missing, Blank, Mixed

ASSUME ContentAssumption ==
    /\ {Missing, Blank, Mixed} \cap Docs = {}
    /\ Missing # Blank /\ Missing # Mixed /\ Blank # Mixed

Contents == Docs \cup {Missing, Blank, Mixed}

Disks == [dirs : SUBSET Entities, files : [Entities -> [Ids -> Contents]]]

Stored(disk, e) == {i \in Ids : disk.files[e][i] # Missing}

create_directory(disk, e) == [disk EXCEPT !.dirs = @ \cup {e}]

\* ofstream f(path): no file appears in a directory that does not exist.
CanOpen(disk, e) == e \in disk.dirs

open_file(disk, e, i) == [disk EXCEPT !.files[e][i] = Blank]

\* f << data; f.close(): the text goes over whatever the file holds by then.
\* Over another writer's text a shorter one leaves the rest of it behind.
Written(old, doc) == IF old \in {Blank, doc} THEN {doc} ELSE {doc, Mixed}

close_file(disk, e, i, text) == [disk EXCEPT !.files[e][i] = text]

\* What read_file leaves in data, which its caller initialised to null: the
\* document, or Blank for null when there is no file or no JSON in it.
read_file(disk, e, i) ==
    IF disk.files[e][i] \in {Missing, Blank} THEN Blank ELSE disk.files[e][i]

\* Mutant: the file is emptied, not removed.
delete_file_Empties(disk, e, i) == [disk EXCEPT !.files[e][i] = Blank]

delete_file(disk, e, i) == [disk EXCEPT !.files[e][i] = Missing]

\* list_files: the entities found, and the ids found in each of them.
list_files(disk) ==
    [entities |-> disk.dirs,
     ids |-> [e \in Entities |-> IF e \in disk.dirs THEN Stored(disk, e) ELSE {}]]

=============================================================================
