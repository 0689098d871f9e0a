-------------------------------- MODULE Crud --------------------------------
(***************************************************************************)
(* crud_handler (src/src/crud_handler.cc) on one endpoint, as the server   *)
(* runs it: every request has a handler of its own, and up to NUM_THREADS  *)
(* of them run at once on one index of entities and ids (crud_endpoints_   *)
(* of server.cc), which nothing locks, and on one directory.  The steps of *)
(* a handler are its accesses to the index and its calls of the file       *)
(* system; what it computes in between belongs to the access before it.    *)
(* The process may stop between any two steps, and when it is started      *)
(* again the index is rebuilt from the directory.                          *)
(***************************************************************************)
EXTENDS Filesystem

CONSTANTS Workers,    \* the threads of the pool
          DiskFails   \* whether a file may fail to open in a directory

VARIABLES up,        \* whether the process runs
          index,     \* *entities_: the entities known, the ids of each
          disk,      \* the directory
          worker,    \* what each thread is doing
          open,      \* <<w, e, i>>: w has the file of e/i open
          reply,     \* the last answer of each thread
          unwritten  \* <<e, i>> for which write_file failed, unnoticed

vars == <<up, index, disk, worker, open, reply, unwritten>>

NoEntity   == "no entity"   \* the URL names no entity
InvalidId  == -1            \* the URL gives an id below 1, or none after a /
Unparsable == -2            \* the URL gives an id std::stoi throws on
NotJson    == "not json"

Requests ==
    [method : {"post", "get", "put", "delete", "patch"},
     entity : Entities \cup {NoEntity},
     id : Ids \cup {0, InvalidId, Unparsable},
     body : Docs \cup {NotJson}]

Steps ==
    {"find entity", "insert entity", "make directory", "choose id",
     "insert id", "open file", "write file", "list", "look up", "read file",
     "find id", "check id", "delete file", "erase id"}

\* exists: handle_update's id_exists.
WorkerStates ==
    [step : Steps, method : {"post", "get", "put", "delete", "patch"},
     entity : Entities, id : Ids \cup {0}, body : Docs \cup {NotJson},
     exists : BOOLEAN]

Idle == [step |-> "idle"]

Replies ==
    [status : {0, 200, 201, 400, 404, 405}, id : Ids \cup {0},
     doc : Contents, list : SUBSET Ids]

Plain(status) == [status |-> status, id |-> 0, doc |-> Missing, list |-> {}]

Unanswered == Plain(0)

TypeOK ==
    /\ up \in BOOLEAN
    /\ index \in [entities : SUBSET Entities, ids : [Entities -> SUBSET Ids]]
    /\ disk \in Disks
    /\ worker \in [Workers -> WorkerStates \cup {Idle}]
    /\ open \in SUBSET (Workers \X Entities \X Ids)
    /\ reply \in [Workers -> Replies]
    /\ unwritten \in SUBSET (Entities \X Ids)

----------------------------------------------------------------------------
At(w, step) == up /\ worker[w].step = step

Goto(w, step) == worker' = [worker EXCEPT ![w].step = step]

\* The handler answers and its thread is free for another session.
Finish(w, answer) ==
    /\ worker' = [worker EXCEPT ![w] = Idle]
    /\ reply' = [reply EXCEPT ![w] = answer]

\* The process ends: its memory is lost, the directory stays.
Exit ==
    /\ up' = FALSE
    /\ index' = [entities |-> {}, ids |-> [e \in Entities |-> {}]]
    /\ worker' = [w \in Workers |-> Idle]
    /\ open' = {}
    /\ unwritten' = {}
    /\ UNCHANGED <<disk, reply>>

\* The step serve() and the handler it calls take without the index.
FirstStep(r) ==
    CASE r.method = "post" /\ r.body # NotJson -> "find entity"
      [] r.method = "get"  /\ r.id = 0         -> "list"
      [] r.method = "get"  /\ r.id # 0         -> "look up"
      [] r.method = "put"  /\ r.id # 0         -> "find id"
      [] r.method = "delete"                   -> "check id"
      [] OTHER                                 -> "idle"

\* A session hands a request to a new handler.  A number the constructor
\* cannot read throws, nothing catches it and the process terminates.
Receive(w, r) ==
    /\ At(w, "idle")
    /\ IF r.entity # NoEntity /\ r.id = Unparsable
       THEN Exit
       ELSE LET refused == r.entity = NoEntity \/ r.id = InvalidId
                first == IF refused THEN "idle" ELSE FirstStep(r)
            IN  /\ IF first = "idle"
                   THEN /\ reply' = [reply EXCEPT ![w] = Plain(
                              IF ~refused /\ r.method = "patch" THEN 405 ELSE 400)]
                        /\ UNCHANGED worker
                   ELSE /\ reply' = [reply EXCEPT ![w] = Unanswered]
                        /\ worker' = [worker EXCEPT ![w] =
                              [step |-> first, method |-> r.method,
                               entity |-> r.entity, id |-> r.id,
                               body |-> r.body, exists |-> FALSE]]
                /\ UNCHANGED <<up, index, disk, open, unwritten>>

----------------------------------------------------------------------------
\* handle_create
FindEntity(w) ==
    /\ At(w, "find entity")
    /\ Goto(w, IF worker[w].entity \in index.entities
               THEN "choose id" ELSE "insert entity")
    /\ UNCHANGED <<up, index, disk, open, reply, unwritten>>

InsertEntity(w) ==
    /\ At(w, "insert entity")
    /\ index' = [index EXCEPT !.entities = @ \cup {worker[w].entity}]
    /\ Goto(w, "make directory")
    /\ UNCHANGED <<up, disk, open, reply, unwritten>>

MakeDirectory(w) ==
    /\ At(w, "make directory")
    /\ disk' = create_directory(disk, worker[w].entity)
    /\ Goto(w, "choose id")
    /\ UNCHANGED <<up, index, open, reply, unwritten>>

\* Mutant: the count starts at zero.
SmallestAvailableId_FromZero(used) ==
    CHOOSE i \in (0 .. MaxId) \ used : \A j \in (0 .. MaxId) \ used : i <= j

SmallestAvailableId(used) ==
    CHOOSE i \in Ids \ used : \A j \in Ids \ used : i <= j

\* Ids are bounded here: no document is created when MaxId of them exist.
ChooseId(w) ==
    /\ At(w, "choose id")
    /\ IF worker[w].id = 0
       THEN LET used == index.ids[worker[w].entity]
            IN  /\ used # Ids
                /\ worker' = [worker EXCEPT ![w].id = SmallestAvailableId(used),
                                            ![w].step = "insert id"]
                /\ UNCHANGED reply
       ELSE Finish(w, Plain(400))
    /\ UNCHANGED <<up, index, disk, open, unwritten>>

----------------------------------------------------------------------------
\* handle_create and handle_update
InsertId(w) ==
    /\ At(w, "insert id")
    /\ index' = [index EXCEPT !.ids[worker[w].entity] = @ \cup {worker[w].id}]
    /\ Goto(w, "open file")
    /\ UNCHANGED <<up, disk, open, reply, unwritten>>

\* Two threads inserting into one std::set race: each may link its node where
\* the other did, and one insertion is lost.  A race may also crash the
\* process, as Crash does.
LoseInsert(w) ==
    /\ At(w, "insert id")
    /\ \E v \in Workers \ {w} :
          /\ At(v, "insert id")
          /\ worker[v].entity = worker[w].entity
    /\ Goto(w, "open file")
    /\ UNCHANGED <<up, index, disk, open, reply, unwritten>>

Saved(w) ==
    [Plain(IF worker[w].exists THEN 200 ELSE 201) EXCEPT !.id = worker[w].id]

\* write_file opens the file; when it cannot, its FALSE is ignored.
OpenFile(w) ==
    LET e == worker[w].entity
        i == worker[w].id
    IN  /\ At(w, "open file")
        /\ \/ /\ CanOpen(disk, e)
              /\ disk' = open_file(disk, e, i)
              /\ open' = open \cup {<<w, e, i>>}
              /\ unwritten' = unwritten \ {<<e, i>>}
              /\ Goto(w, "write file")
              /\ UNCHANGED reply
           \/ /\ ~CanOpen(disk, e) \/ DiskFails
              /\ unwritten' = unwritten \cup {<<e, i>>}
              /\ Finish(w, Saved(w))
              /\ UNCHANGED <<disk, open>>
        /\ UNCHANGED <<up, index>>

\* A file deleted while it was open takes the text with it, and whether the
\* text got there is not looked at.
WriteFile(w) ==
    LET e == worker[w].entity
        i == worker[w].id
    IN  /\ At(w, "write file")
        /\ IF <<w, e, i>> \in open
           THEN \/ \E text \in Written(disk.files[e][i], worker[w].body) :
                      disk' = close_file(disk, e, i, text)
                \/ DiskFails /\ UNCHANGED disk
           ELSE UNCHANGED disk
        /\ open' = open \ {<<w, e, i>>}
        /\ Finish(w, Saved(w))
        /\ UNCHANGED <<up, index, unwritten>>

----------------------------------------------------------------------------
\* handle_update
\* Mutant: id_exists is never set.
FindId_ForgetsExists(w) ==
    LET e == worker[w].entity
        found == worker[w].id \in index.ids[e]
    IN  /\ At(w, "find id")
        /\ IF e \notin index.entities
           THEN Finish(w, Plain(404))
           ELSE IF worker[w].body = NotJson
           THEN Finish(w, Plain(400))
           ELSE /\ Goto(w, IF found THEN "open file" ELSE "insert id")
                /\ UNCHANGED reply
        /\ UNCHANGED <<up, index, disk, open, unwritten>>

FindId(w) ==
    LET e == worker[w].entity
        found == worker[w].id \in index.ids[e]
    IN  /\ At(w, "find id")
        /\ IF e \notin index.entities
           THEN Finish(w, Plain(404))
           ELSE IF worker[w].body = NotJson
           THEN Finish(w, Plain(400))
           ELSE /\ worker' = [worker EXCEPT
                      ![w].exists = found,
                      ![w].step = IF found THEN "open file" ELSE "insert id"]
                /\ UNCHANGED reply
        /\ UNCHANGED <<up, index, disk, open, unwritten>>

\* handle_list: an entity without ids throws out of substr(2), which nothing
\* catches.
List(w) ==
    LET e == worker[w].entity
    IN  /\ At(w, "list")
        /\ IF e \in index.entities /\ index.ids[e] = {}
           THEN Exit
           ELSE /\ Finish(w, [Plain(200) EXCEPT !.list = index.ids[e]])
                /\ UNCHANGED <<up, index, disk, open, unwritten>>

\* handle_retrieve
LookUp(w) ==
    /\ At(w, "look up")
    /\ IF /\ worker[w].entity \in index.entities
          /\ worker[w].id \in index.ids[worker[w].entity]
       THEN Goto(w, "read file") /\ UNCHANGED reply
       ELSE Finish(w, Plain(404))
    /\ UNCHANGED <<up, index, disk, open, unwritten>>

ReadFile(w) ==
    /\ At(w, "read file")
    /\ Finish(w, [Plain(200) EXCEPT
          !.doc = read_file(disk, worker[w].entity, worker[w].id)])
    /\ UNCHANGED <<up, index, disk, open, unwritten>>

----------------------------------------------------------------------------
\* handle_delete
CheckId(w) ==
    LET e == worker[w].entity
    IN  /\ At(w, "check id")
        /\ IF e \notin index.entities
           THEN Finish(w, Plain(400))
           ELSE IF worker[w].id \notin index.ids[e]
           THEN Finish(w, Plain(404))
           ELSE Goto(w, "delete file") /\ UNCHANGED reply
        /\ UNCHANGED <<up, index, disk, open, unwritten>>

DeleteFile(w) ==
    LET e == worker[w].entity
        i == worker[w].id
    IN  /\ At(w, "delete file")
        /\ disk' = delete_file(disk, e, i)
        /\ open' = {o \in open : o[2] # e \/ o[3] # i}
        /\ Goto(w, "erase id")
        /\ UNCHANGED <<up, index, reply, unwritten>>

\* Mutant: the id stays in the index.
EraseId_KeepsId(w) ==
    /\ At(w, "erase id")
    /\ Finish(w, [Plain(200) EXCEPT !.id = worker[w].id])
    /\ UNCHANGED <<up, index, disk, open, unwritten>>

EraseId(w) ==
    LET e == worker[w].entity
        i == worker[w].id
    IN  /\ At(w, "erase id")
        /\ index' = [index EXCEPT !.ids[e] = @ \ {i}]
        /\ unwritten' = unwritten \ {<<e, i>>}
        /\ Finish(w, [Plain(200) EXCEPT !.id = i])
        /\ UNCHANGED <<up, disk, open>>

----------------------------------------------------------------------------
\* A signal, a kill, or an exception of another handler ends the process.
Crash == up /\ Exit

\* server::server: list_files rebuilds the index of the endpoint.
Restart ==
    /\ ~up
    /\ up' = TRUE
    /\ index' = list_files(disk)
    /\ UNCHANGED <<disk, worker, open, reply, unwritten>>

\* Before its first start the server has a directory with no entity in it.
Init ==
    /\ up = FALSE
    /\ index = [entities |-> {}, ids |-> [e \in Entities |-> {}]]
    /\ disk = [dirs |-> {}, files |-> [e \in Entities |-> [i \in Ids |-> Missing]]]
    /\ worker = [w \in Workers |-> Idle]
    /\ open = {}
    /\ reply = [w \in Workers |-> Unanswered]
    /\ unwritten = {}

Step(w) ==
    \/ FindEntity(w) \/ InsertEntity(w) \/ MakeDirectory(w) \/ ChooseId(w)
    \/ InsertId(w) \/ LoseInsert(w) \/ OpenFile(w) \/ WriteFile(w)
    \/ FindId(w) \/ List(w) \/ LookUp(w) \/ ReadFile(w)
    \/ CheckId(w) \/ DeleteFile(w) \/ EraseId(w)

Next ==
    \/ \E w \in Workers : Step(w) \/ \E r \in Requests : Receive(w, r)
    \/ Crash
    \/ Restart

Spec == Init /\ [][Next]_vars

----------------------------------------------------------------------------
\* Why the index may list an id without a file: the request that inserts or
\* removes it is running, or write_file failed.
Excused(e, i) ==
    \/ <<e, i>> \in unwritten
    \/ \E w \in Workers :
          /\ worker[w].step \in {"open file", "erase id"}
          /\ worker[w].entity = e /\ worker[w].id = i

\* handle_retrieve answers from the index first and the file second, so an id
\* is listed before its file is there and its file is gone before the id is.
\* However the threads interleave, no other id is listed without a file.
IndexBacked ==
    \A e \in Entities : \A i \in index.ids[e] :
        disk.files[e][i] = Missing => Excused(e, i)

\* When no request is running, a restart finds in the directory exactly the
\* entities and ids the index has: nothing that answers stops answering and
\* nothing deleted comes back.
RestartChangesNothing ==
    (up /\ \A w \in Workers : worker[w] = Idle) => index = list_files(disk)

\* What a retrieve finds when no request is running it still finds after a
\* restart.
RetrieveSurvivesRestart ==
    (up /\ \A w \in Workers : worker[w] = Idle) =>
        \A e \in index.entities : index.ids[e] \subseteq list_files(disk).ids[e]

=============================================================================
