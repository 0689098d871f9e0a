----------------------------- MODULE CrudProofs -----------------------------
(***************************************************************************)
(* Proofs about crud_handler.  For every number of threads, entities, ids  *)
(* and documents: type correctness, and that the index never runs ahead of *)
(* the directory but by a request still running or a failed write_file.    *)
(* For one thread: the index follows the directory, so that a restart      *)
(* changes nothing, and every step is one of DurableStore or hidden.       *)
(***************************************************************************)
EXTENDS CrudStore, WellFoundedInduction, TLAPS

----------------------------------------------------------------------------
\* The loop of handle_create finds an id when there is one left, the smallest.
LEMMA SmallestAvailable ==
    ASSUME NEW used \in SUBSET Ids, used # Ids
    PROVE  /\ SmallestAvailableId(used) \in Ids \ used
           /\ \A j \in Ids \ used : SmallestAvailableId(used) <= j
<1> DEFINE free == Ids \ used
           less == {p \in Nat \X Nat : p[1] < p[2]}
<1>1. PICK n \in Ids : n \notin used
  OBVIOUS
<1>a. free # {}
  BY <1>1
<1>b. free \subseteq Nat
  BY MaxIdAssumption DEF Ids
<1>2. IsWellFoundedOn(less, Nat)
  BY NatLessThanWellFounded DEF OpToRel
<1>3. PICK i \in free : \A j \in free : ~(<<j, i>> \in less)
  <2> HIDE DEF free, less
  <2> QED
    BY <1>a, <1>b, <1>2, WFMin
<1>4. ASSUME NEW j \in free PROVE i <= j
  <2>1. i \in Nat /\ j \in Nat
    BY <1>b
  <2>2. <<j, i>> \notin less
    BY <1>3
  <2>3. ~(j < i)
    BY <2>1, <2>2
  <2> QED
    BY <2>1, <2>3
<1> QED
  BY <1>4 DEF SmallestAvailableId

\* list_files finds entities and ids.
LEMMA ListFilesType ==
    ASSUME disk \in Disks
    PROVE  list_files(disk) \in
              [entities : SUBSET Entities, ids : [Entities -> SUBSET Ids]]
BY DEF list_files, Disks, Stored

\* What is left when the process ends is well typed.
LEMMA ExitType == TypeOK /\ Exit => TypeOK'
<1> SUFFICES ASSUME TypeOK, Exit PROVE TypeOK'
  OBVIOUS
<1>1. index' \in [entities : SUBSET Entities, ids : [Entities -> SUBSET Ids]]
  BY DEF Exit
<1>2. worker' \in [Workers -> WorkerStates \cup {Idle}]
  BY DEF Exit
<1>3. up' \in BOOLEAN /\ open' \in SUBSET (Workers \X Entities \X Ids)
      /\ unwritten' \in SUBSET (Entities \X Ids)
  BY DEF Exit
<1>4. disk' \in Disks /\ reply' \in [Workers -> Replies]
  BY DEF Exit, TypeOK
<1> QED
  BY <1>1, <1>2, <1>3, <1>4 DEF TypeOK

\* A step of a busy thread starts from a well-typed request.
LEMMA BusyType ==
    ASSUME TypeOK, NEW w \in Workers, NEW step \in Steps, At(w, step)
    PROVE  /\ worker[w] \in WorkerStates
           /\ worker[w].entity \in Entities
           /\ worker[w].id \in Ids \cup {0}
<1>1. step # "idle"
  BY DEF Steps
<1>2. worker[w] # Idle
  BY <1>1 DEF At, Idle
<1> QED
  BY <1>2 DEF TypeOK, WorkerStates

\* Going to another step keeps the threads well typed.
LEMMA GotoType ==
    ASSUME TypeOK, NEW w \in Workers, worker[w] \in WorkerStates,
           NEW step \in Steps, Goto(w, step)
    PROVE  worker' \in [Workers -> WorkerStates \cup {Idle}]
<1>1. [worker[w] EXCEPT !.step = step] \in WorkerStates
  BY DEF WorkerStates
<1> QED
  BY <1>1 DEF Goto, TypeOK

\* Answering leaves the thread idle with an answer.
LEMMA FinishType ==
    ASSUME TypeOK, NEW w \in Workers, NEW answer \in Replies, Finish(w, answer)
    PROVE  /\ worker' \in [Workers -> WorkerStates \cup {Idle}]
           /\ reply' \in [Workers -> Replies]
BY DEF Finish, TypeOK

\* The answers without an id, a document or a list.
LEMMA PlainType ==
    ASSUME NEW status \in {0, 200, 201, 400, 404, 405}
    PROVE  Plain(status) \in Replies
BY DEF Plain, Replies, Contents

----------------------------------------------------------------------------
\* The steps a handler takes once it has an id to work on, and the ones it
\* takes once it has parsed the body.
IdSteps ==
    {"look up", "read file", "find id", "insert id", "open file",
     "write file", "delete file", "erase id"}

BodySteps ==
    {"find entity", "insert entity", "make directory", "choose id",
     "insert id", "open file", "write file"}

RequestChecked ==
    \A w \in Workers :
        /\ worker[w].step \in IdSteps => worker[w].id # 0
        /\ worker[w].step \in BodySteps => worker[w].body # NotJson

TypeInv == TypeOK /\ RequestChecked

\* An id that has been chosen is one of the bounded ids, a body that has been
\* parsed a document.
LEMMA ChosenId ==
    ASSUME TypeInv, NEW w \in Workers, NEW step \in IdSteps, At(w, step)
    PROVE  /\ worker[w] \in WorkerStates
           /\ worker[w].entity \in Entities
           /\ worker[w].id \in Ids /\ worker[w].id # 0
           /\ step \in BodySteps => worker[w].body \in Docs
<1>1. step \in Steps
  BY DEF IdSteps, Steps
<1>2. worker[w] \in WorkerStates
  BY <1>1, BusyType DEF TypeInv
<1> QED
  BY <1>2 DEF TypeInv, RequestChecked, At, WorkerStates

\* A body is parsed before anything is done with it.
LEMMA BodyParsed ==
    ASSUME TypeInv, NEW w \in Workers, NEW step \in BodySteps, At(w, step)
    PROVE  worker[w].body # NotJson
BY DEF TypeInv, RequestChecked, At

\* Going from one step to another keeps the id, going idle gives it up.
LEMMA GotoChosen ==
    ASSUME TypeInv, NEW w \in Workers, worker[w] \in WorkerStates, NEW step,
           step \in IdSteps => worker[w].id # 0,
           step \in BodySteps => worker[w].body # NotJson, Goto(w, step)
    PROVE  RequestChecked'
BY DEF Goto, TypeInv, TypeOK, RequestChecked, WorkerStates

\* An idle thread has no id.
LEMMA FinishChosen ==
    ASSUME TypeInv, NEW w \in Workers, NEW answer, Finish(w, answer)
    PROVE  RequestChecked'
BY DEF Finish, TypeInv, TypeOK, RequestChecked, Idle, IdSteps, BodySteps

\* Nor has any thread when the process ends.
LEMMA ExitChosen == Exit => RequestChecked'
<1> SUFFICES ASSUME Exit, NEW w \in Workers
               PROVE  worker'[w].step \notin IdSteps \cup BodySteps
  BY DEF RequestChecked
<1>1. worker'[w] = Idle
  BY DEF Exit
<1> QED
  BY <1>1 DEF Idle, IdSteps, BodySteps

\* A request is refused, started, or ends the process.
LEMMA ReceiveType ==
    ASSUME TypeInv, NEW w \in Workers, NEW r \in Requests, Receive(w, r)
    PROVE  TypeInv'
<1>1. CASE Exit
  BY <1>1, ExitType, ExitChosen DEF TypeInv
<1>2. CASE r.entity = NoEntity \/ r.id = InvalidId \/ FirstStep(r) = "idle"
  <2>1. CASE ~Exit
    <3>1. \E status \in {405, 400} :
             reply' = [reply EXCEPT ![w] = Plain(status)]
      BY <1>2, <2>1 DEF Receive
    <3>2. reply' \in [Workers -> Replies]
      BY <3>1, PlainType DEF TypeInv, TypeOK
    <3>3. UNCHANGED <<up, index, disk, worker, open, unwritten>>
      BY <1>2, <2>1 DEF Receive
    <3> QED
      BY <3>2, <3>3 DEF TypeInv, TypeOK, RequestChecked
  <2> QED
    BY <1>1, <2>1
<1>3. CASE /\ ~Exit
           /\ r.entity # NoEntity /\ r.id # InvalidId /\ FirstStep(r) # "idle"
  <2> DEFINE started == [step |-> FirstStep(r), method |-> r.method,
                         entity |-> r.entity, id |-> r.id, body |-> r.body,
                         exists |-> FALSE]
  <2>1. /\ reply' = [reply EXCEPT ![w] = Unanswered]
        /\ worker' = [worker EXCEPT ![w] = started]
        /\ UNCHANGED <<up, index, disk, open, unwritten>>
    BY <1>3 DEF Receive
  <2>2. r.id # Unparsable
    BY <1>3 DEF Receive
  <2>3. FirstStep(r) \in Steps
    BY <1>3 DEF FirstStep, Steps, Requests
  <2>4. started \in WorkerStates
    BY <1>3, <2>2, <2>3 DEF WorkerStates, Requests
  <2>5. /\ FirstStep(r) \in IdSteps => r.id # 0
        /\ FirstStep(r) \in BodySteps => r.body # NotJson
    BY <1>3 DEF FirstStep, IdSteps, BodySteps
  <2>6. worker' \in [Workers -> WorkerStates \cup {Idle}]
    BY <2>1, <2>4 DEF TypeInv, TypeOK
  <2>7. reply' \in [Workers -> Replies]
    BY <2>1, PlainType DEF Unanswered, TypeInv, TypeOK
  <2>8. RequestChecked'
    BY <2>1, <2>5 DEF TypeInv, TypeOK, RequestChecked
  <2> QED
    BY <2>1, <2>6, <2>7, <2>8 DEF TypeInv, TypeOK
<1> QED
  BY <1>1, <1>2, <1>3

\* Every step of a handler keeps the state well typed: first the steps of
\* handle_create,
LEMMA CreateType ==
    ASSUME TypeInv, NEW w \in Workers,
           \/ FindEntity(w) \/ InsertEntity(w)
           \/ MakeDirectory(w) \/ ChooseId(w)
    PROVE  TypeInv'
<1>1. CASE FindEntity(w)
  <2>1. worker[w] \in WorkerStates
    BY <1>1, BusyType DEF FindEntity, TypeInv, Steps
  <2>2. PICK step \in {"choose id", "insert entity"} : Goto(w, step)
    BY <1>1 DEF FindEntity
  <2>3. step \in Steps /\ step \notin IdSteps /\ worker[w].body # NotJson
    BY <1>1 DEF Steps, IdSteps, FindEntity, At, BodySteps, TypeInv, RequestChecked
  <2>4. RequestChecked' /\ worker' \in [Workers -> WorkerStates \cup {Idle}]
    BY <2>1, <2>2, <2>3, GotoType, GotoChosen DEF TypeInv
  <2> QED
    BY <1>1, <2>4 DEF FindEntity, TypeInv, TypeOK
<1>2. CASE InsertEntity(w)
  <2>1. worker[w] \in WorkerStates /\ worker[w].entity \in Entities
    BY <1>2, BusyType DEF InsertEntity, TypeInv, Steps
  <2>2. /\ "make directory" \in Steps /\ "make directory" \notin IdSteps
        /\ worker[w].body # NotJson
    BY <1>2 DEF InsertEntity, At, Steps, IdSteps, BodySteps, TypeInv, RequestChecked
  <2>3. RequestChecked' /\ worker' \in [Workers -> WorkerStates \cup {Idle}]
    BY <1>2, <2>1, <2>2, GotoType, GotoChosen DEF InsertEntity, TypeInv
  <2>4. index' \in [entities : SUBSET Entities, ids : [Entities -> SUBSET Ids]]
    BY <1>2, <2>1 DEF InsertEntity, TypeInv, TypeOK
  <2> QED
    BY <1>2, <2>3, <2>4 DEF InsertEntity, TypeInv, TypeOK
<1>3. CASE MakeDirectory(w)
  <2>1. worker[w] \in WorkerStates /\ worker[w].entity \in Entities
    BY <1>3, BusyType DEF MakeDirectory, TypeInv, Steps
  <2>2. /\ "choose id" \in Steps /\ "choose id" \notin IdSteps
        /\ worker[w].body # NotJson
    BY <1>3 DEF MakeDirectory, At, Steps, IdSteps, BodySteps, TypeInv, RequestChecked
  <2>3. RequestChecked' /\ worker' \in [Workers -> WorkerStates \cup {Idle}]
    BY <1>3, <2>1, <2>2, GotoType, GotoChosen DEF MakeDirectory, TypeInv
  <2>4. disk' \in Disks
    BY <1>3, <2>1 DEF MakeDirectory, create_directory, TypeInv, TypeOK, Disks
  <2> QED
    BY <1>3, <2>3, <2>4 DEF MakeDirectory, TypeInv, TypeOK
<1>4. CASE ChooseId(w)
  <2>1. worker[w] \in WorkerStates /\ worker[w].entity \in Entities
    BY <1>4, BusyType DEF ChooseId, TypeInv, Steps
  <2>2. CASE worker[w].id = 0
    <3> DEFINE i == SmallestAvailableId(index.ids[worker[w].entity])
    <3>1. i \in Ids
      BY <1>4, <2>1, <2>2, SmallestAvailable DEF ChooseId, TypeInv, TypeOK
    <3>2. worker' = [worker EXCEPT ![w].id = i, ![w].step = "insert id"]
      BY <1>4, <2>2 DEF ChooseId
    <3> HIDE DEF i
    <3>3. /\ worker'[w] \in WorkerStates /\ worker'[w].id = i
          /\ worker'[w].body = worker[w].body
      BY <2>1, <3>1, <3>2 DEF WorkerStates, Steps, TypeInv, TypeOK
    <3>4. worker' \in [Workers -> WorkerStates \cup {Idle}]
      BY <3>2, <3>3 DEF TypeInv, TypeOK
    <3>5. i # 0
      BY <3>1, MaxIdAssumption DEF Ids
    <3>a. worker[w].body # NotJson
      BY <1>4, BodyParsed DEF ChooseId, BodySteps
    <3>6. RequestChecked'
      BY <3>2, <3>3, <3>5, <3>a DEF TypeInv, TypeOK, RequestChecked
    <3> QED
      BY <1>4, <2>2, <3>4, <3>6 DEF ChooseId, TypeInv, TypeOK
  <2>3. CASE worker[w].id # 0
    <3>a. Plain(400) \in Replies
      BY PlainType
    <3>b. Finish(w, Plain(400))
      BY <1>4, <2>3, Zenon DEF ChooseId
    <3>1. Finish(w, Plain(400)) /\ Plain(400) \in Replies
      BY <3>a, <3>b
    <3>2. RequestChecked' /\ worker' \in [Workers -> WorkerStates \cup {Idle}]
          /\ reply' \in [Workers -> Replies]
      BY <3>1, FinishType, FinishChosen DEF TypeInv
    <3> QED
      BY <1>4, <3>2 DEF ChooseId, TypeInv, TypeOK
  <2> QED
    BY <2>2, <2>3
<1> QED
  BY <1>1, <1>2, <1>3, <1>4

\* The answer to a request that saved a document.
LEMMA SavedType ==
    ASSUME NEW w \in Workers, worker[w].id \in Ids
    PROVE  Saved(w) \in Replies
BY PlainType DEF Saved, Replies

\* then the steps that save a document,
LEMMA SaveType ==
    ASSUME TypeInv, NEW w \in Workers,
           \/ FindId(w) \/ InsertId(w) \/ LoseInsert(w)
           \/ OpenFile(w) \/ WriteFile(w)
    PROVE  TypeInv'
<1> DEFINE e == worker[w].entity
           i == worker[w].id
<1>1. CASE FindId(w)
  <2>1. worker[w] \in WorkerStates /\ i \in Ids
    BY <1>1, ChosenId DEF FindId, IdSteps
  <2>2. CASE e \notin index.entities \/ worker[w].body = NotJson
    <3>1. \E status \in {404, 400} : Finish(w, Plain(status))
      <4>1. CASE e \notin index.entities
        BY <1>1, <4>1 DEF FindId
      <4>2. CASE e \in index.entities /\ worker[w].body = NotJson
        BY <1>1, <4>2 DEF FindId
      <4> QED
        BY <2>2, <4>1, <4>2
    <3>a. PICK status \in {404, 400} : Finish(w, Plain(status))
      BY <3>1
    <3>2. Plain(status) \in Replies
      BY PlainType
    <3>3. RequestChecked' /\ worker' \in [Workers -> WorkerStates \cup {Idle}]
          /\ reply' \in [Workers -> Replies]
      BY <3>a, <3>2, FinishType, FinishChosen DEF TypeInv
    <3> QED
      BY <1>1, <3>3 DEF FindId, TypeInv, TypeOK
  <2>3. CASE e \in index.entities /\ worker[w].body # NotJson
    <3> DEFINE found == i \in index.ids[e]
               next == IF found THEN "open file" ELSE "insert id"
    <3>1. /\ worker' = [worker EXCEPT ![w].exists = found, ![w].step = next]
          /\ UNCHANGED <<up, index, disk, open, reply, unwritten>>
      BY <1>1, <2>3 DEF FindId
    <3>2. found \in BOOLEAN /\ next \in Steps
      BY DEF Steps
    <3> HIDE DEF found, next
    <3>3. /\ worker'[w] \in WorkerStates /\ worker'[w].id = worker[w].id
          /\ worker'[w].body = worker[w].body
      BY <2>1, <3>1, <3>2 DEF WorkerStates, TypeInv, TypeOK
    <3>4. i # 0
      BY <2>1, MaxIdAssumption DEF Ids
    <3>5. worker' \in [Workers -> WorkerStates \cup {Idle}] /\ RequestChecked'
      BY <2>3, <3>1, <3>3, <3>4 DEF TypeInv, TypeOK, RequestChecked
    <3> QED
      BY <3>1, <3>5 DEF TypeInv, TypeOK
  <2> QED
    BY <2>2, <2>3
<1>2. ASSUME InsertId(w) \/ LoseInsert(w) PROVE TypeInv'
  <2>1. worker[w] \in WorkerStates /\ e \in Entities /\ i \in Ids
    BY <1>2, ChosenId DEF InsertId, LoseInsert, IdSteps
  <2>2. i # 0 /\ "open file" \in Steps /\ worker[w].body # NotJson
    BY <1>2, BodyParsed, ChosenId
    DEF Steps, InsertId, LoseInsert, BodySteps, IdSteps
  <2>3. Goto(w, "open file")
    BY <1>2 DEF InsertId, LoseInsert
  <2>4. worker' \in [Workers -> WorkerStates \cup {Idle}] /\ RequestChecked'
    BY <2>1, <2>2, <2>3, GotoType, GotoChosen DEF TypeInv
  <2>5. index' \in [entities : SUBSET Entities, ids : [Entities -> SUBSET Ids]]
    <3>1. CASE InsertId(w)
      BY <2>1, <3>1 DEF InsertId, TypeInv, TypeOK
    <3>2. CASE LoseInsert(w)
      BY <3>2 DEF LoseInsert, TypeInv, TypeOK
    <3> QED
      BY <1>2, <3>1, <3>2
  <2> QED
    BY <1>2, <2>4, <2>5 DEF InsertId, LoseInsert, TypeInv, TypeOK
<1>3. CASE OpenFile(w)
  <2>1. worker[w] \in WorkerStates /\ e \in Entities /\ i \in Ids
    BY <1>3, ChosenId DEF OpenFile, IdSteps
  <2>a. UNCHANGED <<up, index>>
    BY <1>3 DEF OpenFile
  <2>2. CASE /\ disk' = open_file(disk, e, i)
             /\ open' = open \cup {<<w, e, i>>}
             /\ unwritten' = unwritten \ {<<e, i>>}
             /\ Goto(w, "write file")
             /\ UNCHANGED reply
    <3>1. i # 0 /\ "write file" \in Steps /\ worker[w].body # NotJson
      BY <1>3, BodyParsed, ChosenId DEF Steps, OpenFile, BodySteps, IdSteps
    <3>2. worker' \in [Workers -> WorkerStates \cup {Idle}] /\ RequestChecked'
      BY <2>1, <2>2, <3>1, GotoType, GotoChosen DEF TypeInv
    <3>3. disk' \in Disks
      BY <2>1, <2>2 DEF open_file, Disks, Contents, TypeInv, TypeOK
    <3>a. <<w, e, i>> \in Workers \X Entities \X Ids
      BY <2>1
    <3>b. open \subseteq Workers \X Entities \X Ids
      BY DEF TypeInv, TypeOK
    <3>4. /\ open' \in SUBSET (Workers \X Entities \X Ids)
          /\ unwritten' \in SUBSET (Entities \X Ids)
      BY <2>2, <3>a, <3>b DEF TypeInv, TypeOK
    <3> QED
      BY <2>a, <2>2, <3>2, <3>3, <3>4 DEF TypeInv, TypeOK
  <2>3. CASE /\ unwritten' = unwritten \cup {<<e, i>>}
             /\ Finish(w, Saved(w))
             /\ UNCHANGED <<disk, open>>
    <3>1. RequestChecked' /\ worker' \in [Workers -> WorkerStates \cup {Idle}]
          /\ reply' \in [Workers -> Replies]
      BY <2>1, <2>3, SavedType, FinishType, FinishChosen DEF TypeInv
    <3>2. unwritten' \in SUBSET (Entities \X Ids)
      BY <2>1, <2>3 DEF TypeInv, TypeOK
    <3> QED
      BY <2>a, <2>3, <3>1, <3>2 DEF TypeInv, TypeOK
  <2> QED
    BY <1>3, <2>2, <2>3 DEF OpenFile
<1>4. CASE WriteFile(w)
  <2>1. /\ worker[w] \in WorkerStates /\ e \in Entities /\ i \in Ids
        /\ worker[w].body \in Docs
    BY <1>4, ChosenId DEF WriteFile, IdSteps, BodySteps
  <2>2. Finish(w, Saved(w)) /\ open' \subseteq open
    BY <1>4 DEF WriteFile
  <2>3. disk' \in Disks
    <3>1. CASE UNCHANGED disk
      BY <3>1 DEF TypeInv, TypeOK
    <3>2. ASSUME NEW text \in Written(disk.files[e][i], worker[w].body),
                 disk' = close_file(disk, e, i, text)
          PROVE  disk' \in Disks
      <4>1. text \in Contents
        BY <2>1, <3>2 DEF Written, Contents
      <4> QED
        BY <2>1, <3>2, <4>1 DEF close_file, Disks, TypeInv, TypeOK
    <3> QED
      BY <1>4, <3>1, <3>2 DEF WriteFile
  <2> QED
    BY <1>4, <2>1, <2>2, <2>3, SavedType, FinishType, FinishChosen
    DEF WriteFile, TypeInv, TypeOK
<1> QED
  BY <1>1, <1>2, <1>3, <1>4

\* then the steps that read or delete one,
LEMMA AnswerType ==
    ASSUME TypeInv, NEW w \in Workers,
           List(w) \/ LookUp(w) \/ ReadFile(w) \/ CheckId(w)
    PROVE  TypeInv'
<1> DEFINE e == worker[w].entity
           i == worker[w].id
<1> DEFINE Answered == \E answer \in Replies : Finish(w, answer)
           Continued == \E step \in Steps :
                           /\ i # 0 /\ step \notin BodySteps
                           /\ worker[w] \in WorkerStates
                           /\ Goto(w, step) /\ UNCHANGED reply
           OnlyLooked == UNCHANGED <<up, index, disk, open, unwritten>>
<1>1. ASSUME OnlyLooked, Answered PROVE TypeInv'
  BY <1>1, FinishType, FinishChosen DEF TypeInv, TypeOK
<1>2. ASSUME OnlyLooked, Continued PROVE TypeInv'
  BY <1>2, GotoType, GotoChosen DEF TypeInv, TypeOK
<1>3. CASE List(w)
  <2>1. CASE Exit
    BY <2>1, ExitType, ExitChosen DEF TypeInv
  <2>2. CASE ~Exit
    <3>1. worker[w].entity \in Entities
      BY <1>3, BusyType DEF List, Steps, TypeInv
    <3>2. [Plain(200) EXCEPT !.list = index.ids[e]] \in Replies
      BY <3>1, PlainType DEF Replies, TypeInv, TypeOK
    <3> QED
      BY <1>1, <1>3, <2>2, <3>2 DEF List
  <2> QED
    BY <2>1, <2>2
<1>4. CASE LookUp(w)
  <2>1. worker[w] \in WorkerStates /\ i # 0
    BY <1>4, ChosenId DEF LookUp, IdSteps
  <2>2. "read file" \in Steps \ BodySteps /\ Plain(404) \in Replies
    BY PlainType DEF Steps, BodySteps
  <2> QED
    BY <1>1, <1>2, <1>4, <2>1, <2>2 DEF LookUp
<1>5. CASE ReadFile(w)
  <2>1. worker[w].entity \in Entities /\ i \in Ids
    BY <1>5, ChosenId DEF ReadFile, IdSteps
  <2>2. read_file(disk, e, i) \in Contents
    BY <2>1 DEF read_file, TypeInv, TypeOK, Disks, Contents
  <2>3. [Plain(200) EXCEPT !.doc = read_file(disk, e, i)] \in Replies
    BY <2>2, PlainType DEF Replies
  <2> QED
    BY <1>1, <1>5, <2>3 DEF ReadFile
<1>6. CASE CheckId(w)
  <2>1. worker[w] \in WorkerStates /\ e \in Entities
    BY <1>6, BusyType DEF CheckId, Steps, TypeInv
  <2>2. i \in index.ids[e] => i # 0
    BY <2>1, MaxIdAssumption DEF TypeInv, TypeOK, Ids
  <2>3. "delete file" \in Steps \ BodySteps
    BY DEF Steps, BodySteps
  <2>4. Plain(404) \in Replies /\ Plain(400) \in Replies
    BY PlainType
  <2> QED
    BY <1>1, <1>2, <1>6, <2>1, <2>2, <2>3, <2>4 DEF CheckId
<1> QED
  BY <1>3, <1>4, <1>5, <1>6

\* and the two that remove it.
LEMMA RemoveType ==
    ASSUME TypeInv, NEW w \in Workers, DeleteFile(w) \/ EraseId(w)
    PROVE  TypeInv'
<1> DEFINE e == worker[w].entity
           i == worker[w].id
<1>1. CASE DeleteFile(w)
  <2>1. worker[w] \in WorkerStates /\ e \in Entities /\ i \in Ids /\ i # 0
    BY <1>1, ChosenId DEF DeleteFile, IdSteps
  <2>2. "erase id" \in Steps \ BodySteps
    BY DEF Steps, BodySteps
  <2>3. RequestChecked' /\ worker' \in [Workers -> WorkerStates \cup {Idle}]
    BY <1>1, <2>1, <2>2, GotoType, GotoChosen DEF DeleteFile, TypeInv
  <2>4. disk' \in Disks
    BY <1>1, <2>1 DEF DeleteFile, delete_file, Disks, Contents, TypeInv, TypeOK
  <2>5. open' \subseteq open
    BY <1>1 DEF DeleteFile
  <2> QED
    BY <1>1, <2>3, <2>4, <2>5 DEF DeleteFile, TypeInv, TypeOK
<1>2. CASE EraseId(w)
  <2>1. worker[w].entity \in Entities /\ i \in Ids
    BY <1>2, ChosenId DEF EraseId, IdSteps
  <2>2. [Plain(200) EXCEPT !.id = i] \in Replies
    BY <2>1, PlainType DEF Replies
  <2>3. /\ RequestChecked'
        /\ worker' \in [Workers -> WorkerStates \cup {Idle}]
        /\ reply' \in [Workers -> Replies]
    BY <1>2, <2>2, FinishType, FinishChosen DEF EraseId, TypeInv
  <2>4. index' \in [entities : SUBSET Entities, ids : [Entities -> SUBSET Ids]]
    BY <1>2, <2>1 DEF EraseId, TypeInv, TypeOK
  <2> QED
    BY <1>2, <2>3, <2>4 DEF EraseId, TypeInv, TypeOK
<1> QED
  BY <1>1, <1>2

\* Altogether, every step keeps the state well typed.
LEMMA TypeStep == TypeInv /\ [Next]_vars => TypeInv'
<1> SUFFICES ASSUME TypeInv, [Next]_vars PROVE TypeInv'
  OBVIOUS
<1>1. CASE \E w \in Workers : Step(w)
  BY <1>1, CreateType, SaveType, AnswerType, RemoveType DEF Step
<1>2. CASE \E w \in Workers : \E r \in Requests : Receive(w, r)
  BY <1>2, ReceiveType
<1>3. CASE Crash
  BY <1>3, ExitType, ExitChosen DEF Crash, TypeInv
<1>4. CASE Restart
  BY <1>4, ListFilesType DEF Restart, TypeInv, TypeOK, RequestChecked
<1>5. CASE UNCHANGED vars
  BY <1>5 DEF vars, TypeInv, TypeOK, RequestChecked
<1> QED
  BY <1>1, <1>2, <1>3, <1>4, <1>5 DEF Next

\* The initial state is well typed.
LEMMA TypeInit == Init => TypeInv
<1> SUFFICES ASSUME Init PROVE TypeInv
  OBVIOUS
<1>1. disk \in Disks
  BY DEF Init, Disks, Contents
<1>2. reply \in [Workers -> Replies]
  BY PlainType DEF Init, Unanswered
<1>3. /\ worker \in [Workers -> WorkerStates \cup {Idle}]
      /\ RequestChecked
  BY DEF Init, RequestChecked, Idle, IdSteps, BodySteps
<1> QED
  BY <1>1, <1>2, <1>3 DEF Init, TypeInv, TypeOK

\* Whatever the threads do and whenever the process stops, the index, the
\* directory and the requests in progress are well formed; an id is never 0
\* once it has been chosen and a body never stored before it was parsed.
THEOREM TypeCorrect == Spec => []TypeOK
<1>1. TypeInv => TypeOK
  BY DEF TypeInv
<1> QED
  BY <1>1, TypeInit, TypeStep, PTL DEF Spec

----------------------------------------------------------------------------
(* The index never runs ahead of the directory.                            *)

\* A step that leaves the index, the files and the failed writes alone, and is
\* not one of the two steps that excuse a missing file, excuses as many.
LEMMA QuietStep ==
    ASSUME TypeInv, IndexBacked, NEW w \in Workers,
           worker[w].step \notin {"open file", "erase id"},
           index'.ids = index.ids, unwritten' = unwritten, disk'.files = disk.files,
           \A v \in Workers \ {w} : worker'[v] = worker[v]
    PROVE  IndexBacked'
<1> SUFFICES ASSUME NEW e \in Entities, NEW i \in index.ids[e],
                    disk.files[e][i] = Missing
             PROVE  Excused(e, i)'
  BY DEF IndexBacked
<1>1. Excused(e, i)
  BY DEF IndexBacked
<1> QED
  BY <1>1 DEF Excused

\* The threads a step does not belong to stay where they are.
LEMMA OthersStay ==
    ASSUME TypeInv, NEW w \in Workers,
           \/ \E step : Goto(w, step)
           \/ \E answer : Finish(w, answer)
    PROVE  \A v \in Workers \ {w} : worker'[v] = worker[v]
BY DEF Goto, Finish, TypeInv, TypeOK

\* No step of a handler that is not saving or deleting a document matters,
LEMMA QuietBacked ==
    ASSUME TypeInv, IndexBacked, NEW w \in Workers,
           \/ FindEntity(w) \/ InsertEntity(w) \/ MakeDirectory(w) \/ ChooseId(w)
           \/ FindId(w) \/ LoseInsert(w) \/ LookUp(w) \/ ReadFile(w) \/ CheckId(w)
    PROVE  IndexBacked'
<1>1. worker[w].step \notin {"open file", "erase id"}
  BY DEF FindEntity, InsertEntity, MakeDirectory, ChooseId, FindId,
         LoseInsert, LookUp, ReadFile, CheckId, At
<1>2. index'.ids = index.ids /\ unwritten' = unwritten
  BY DEF FindEntity, InsertEntity, MakeDirectory, ChooseId, FindId,
         LoseInsert, LookUp, ReadFile, CheckId, TypeInv, TypeOK
<1>3. disk'.files = disk.files
  BY DEF FindEntity, InsertEntity, MakeDirectory, ChooseId, FindId,
         LoseInsert, LookUp, ReadFile, CheckId, create_directory, TypeInv, TypeOK, Disks
<1>4. \A v \in Workers \ {w} : worker'[v] = worker[v]
  BY DEF FindEntity, InsertEntity, MakeDirectory, ChooseId, FindId,
         LoseInsert, LookUp, ReadFile, CheckId, Goto, Finish, TypeInv, TypeOK
<1> QED
  BY <1>1, <1>2, <1>3, <1>4, QuietStep

\* nor does the end of the process, which forgets every id.
LEMMA ExitBacked == Exit => IndexBacked'
BY DEF Exit, IndexBacked

\* Nor a new request, nor a list, unless they end the process.
LEMMA SessionBacked ==
    ASSUME TypeInv, IndexBacked, NEW w \in Workers,
           List(w) \/ \E r \in Requests : Receive(w, r)
    PROVE  IndexBacked'
<1>1. CASE Exit
  BY <1>1, ExitBacked
<1>2. CASE ~Exit
  <2>1. worker[w].step \notin {"open file", "erase id"}
    BY DEF List, Receive, At
  <2>2. UNCHANGED <<index, disk, unwritten>>
    BY <1>2 DEF List, Receive
  <2>3. \A v \in Workers \ {w} : worker'[v] = worker[v]
    BY <1>2 DEF List, Receive, Finish, TypeInv, TypeOK
  <2> QED
    BY <2>1, <2>2, <2>3, QuietStep
<1> QED
  BY <1>1, <1>2

\* The thread that inserts an id goes on to open its file.
LEMMA InsertIdBacked ==
    ASSUME TypeInv, IndexBacked, NEW w \in Workers, InsertId(w)
    PROVE  IndexBacked'
<1> DEFINE e == worker[w].entity
           i == worker[w].id
<1>1. /\ worker[w] \in WorkerStates /\ e \in Entities
      /\ worker[w].step = "insert id"
  BY ChosenId DEF InsertId, IdSteps, At
<1>2. /\ worker'[w].step = "open file"
      /\ worker'[w].entity = e /\ worker'[w].id = i
      /\ \A v \in Workers \ {w} : worker'[v] = worker[v]
  BY <1>1 DEF InsertId, Goto, TypeInv, TypeOK, WorkerStates
<1>3. /\ index'.ids = [index.ids EXCEPT ![e] = @ \cup {i}]
      /\ UNCHANGED <<disk, unwritten>>
  BY DEF InsertId, TypeInv, TypeOK
<1> SUFFICES ASSUME NEW f \in Entities, NEW j \in index'.ids[f],
                    disk.files[f][j] = Missing
             PROVE  Excused(f, j)'
  BY <1>3 DEF IndexBacked
<1>4. CASE f = e /\ j = i
  BY <1>2, <1>4 DEF Excused
<1>5. CASE ~(f = e /\ j = i)
  <2>1. j \in index.ids[f]
    <3>1. index.ids \in [Entities -> SUBSET Ids] /\ e \in Entities
      BY <1>1 DEF TypeInv, TypeOK
    <3>2. index'.ids[f] = IF f = e THEN index.ids[e] \cup {i} ELSE index.ids[f]
      BY <1>3, <3>1
    <3> QED
      BY <1>5, <3>2
  <2>2. Excused(f, j)
    BY <2>1 DEF IndexBacked
  <2> QED
    BY <1>1, <1>2, <1>3, <2>2 DEF Excused
<1> QED
  BY <1>4, <1>5

\* The thread that leaves "open file" leaves a file or a failed write_file.
LEMMA OpenFileBacked ==
    ASSUME TypeInv, IndexBacked, NEW w \in Workers, OpenFile(w)
    PROVE  IndexBacked'
<1> DEFINE e == worker[w].entity
           i == worker[w].id
<1>1. worker[w] \in WorkerStates /\ e \in Entities /\ i \in Ids
  BY ChosenId DEF OpenFile, IdSteps
<1>2. index' = index /\ \A v \in Workers \ {w} : worker'[v] = worker[v]
  BY OthersStay DEF OpenFile
<1>a. disk.files \in [Entities -> [Ids -> Contents]]
  BY DEF TypeInv, TypeOK, Disks
<1>b. \/ /\ disk'.files = [disk.files EXCEPT ![e][i] = Blank]
         /\ unwritten' = unwritten \ {<<e, i>>}
      \/ /\ disk'.files = disk.files
         /\ unwritten' = unwritten \cup {<<e, i>>}
  BY DEF OpenFile, open_file, TypeInv, TypeOK, Disks
<1>3. \/ /\ disk'.files[e][i] = Blank /\ unwritten' = unwritten \ {<<e, i>>}
      \/ <<e, i>> \in unwritten' /\ unwritten \subseteq unwritten'
  BY <1>1, <1>a, <1>b
<1>4. \A f \in Entities, j \in Ids :
         ~(f = e /\ j = i) => disk'.files[f][j] = disk.files[f][j]
  BY <1>1, <1>a, <1>b
<1> SUFFICES ASSUME NEW f \in Entities, NEW j \in index.ids[f],
                    disk'.files[f][j] = Missing
             PROVE  Excused(f, j)'
  BY <1>2 DEF IndexBacked
<1>5. CASE f = e /\ j = i
  BY <1>3, <1>5, ContentAssumption DEF Excused
<1>6. CASE ~(f = e /\ j = i)
  <2>1. j \in Ids
    BY DEF TypeInv, TypeOK
  <2>2. Excused(f, j)
    BY <1>4, <1>6, <2>1 DEF IndexBacked
  <2>3. CASE <<f, j>> \in unwritten
    BY <1>3, <1>6, <2>3 DEF Excused
  <2>4. CASE \E v \in Workers : /\ worker[v].step \in {"open file", "erase id"}
                               /\ worker[v].entity = f /\ worker[v].id = j
    BY <1>2, <1>6, <2>4 DEF Excused
  <2> QED
    BY <2>2, <2>3, <2>4 DEF Excused
<1> QED
  BY <1>5, <1>6

\* Writing a file never removes one.
LEMMA WriteFileBacked ==
    ASSUME TypeInv, IndexBacked, NEW w \in Workers, WriteFile(w)
    PROVE  IndexBacked'
<1> DEFINE e == worker[w].entity
           i == worker[w].id
<1>1. e \in Entities /\ i \in Ids /\ worker[w].body \in Docs
  BY ChosenId DEF WriteFile, IdSteps, BodySteps
<1>2. /\ index' = index /\ unwritten' = unwritten
      /\ worker[w].step = "write file"
      /\ \A v \in Workers \ {w} : worker'[v] = worker[v]
  BY OthersStay DEF WriteFile, At
<1> DEFINE Kept == \A f \in Entities, j \in Ids :
               disk'.files[f][j] = Missing => disk.files[f][j] = Missing
<1>3. Kept
  <2>1. CASE UNCHANGED disk
    BY <2>1
  <2>2. ASSUME NEW text \in Written(disk.files[e][i], worker[w].body),
               disk' = close_file(disk, e, i, text)
        PROVE  Kept
    <3>1. text # Missing
      BY <1>1, <2>2, ContentAssumption DEF Written
    <3>2. /\ disk.files \in [Entities -> [Ids -> Contents]]
          /\ disk'.files = [disk.files EXCEPT ![e][i] = text]
      BY <2>2 DEF close_file, TypeInv, TypeOK, Disks
    <3> QED
      BY <1>1, <3>1, <3>2
  <2> QED
    BY <2>1, <2>2 DEF WriteFile
<1> SUFFICES ASSUME NEW f \in Entities, NEW j \in index.ids[f],
                    disk'.files[f][j] = Missing
             PROVE  Excused(f, j)'
  BY <1>2 DEF IndexBacked
<1>4. j \in Ids
  BY DEF TypeInv, TypeOK
<1>5. Excused(f, j)
  BY <1>3, <1>4 DEF IndexBacked
<1> QED
  BY <1>2, <1>5 DEF Excused

\* The thread that deletes a file goes on to erase its id,
LEMMA DeleteFileBacked ==
    ASSUME TypeInv, IndexBacked, NEW w \in Workers, DeleteFile(w)
    PROVE  IndexBacked'
<1> DEFINE e == worker[w].entity
           i == worker[w].id
<1>1. /\ worker[w] \in WorkerStates /\ e \in Entities /\ i \in Ids
      /\ worker[w].step = "delete file"
  BY ChosenId DEF DeleteFile, IdSteps, At
<1>2. /\ worker'[w].step = "erase id"
      /\ worker'[w].entity = e /\ worker'[w].id = i
      /\ \A v \in Workers \ {w} : worker'[v] = worker[v]
  BY <1>1 DEF DeleteFile, Goto, TypeInv, TypeOK, WorkerStates
<1>3. index' = index /\ unwritten' = unwritten
  BY DEF DeleteFile
<1>4. \A f \in Entities, j \in Ids :
         ~(f = e /\ j = i) => disk'.files[f][j] = disk.files[f][j]
  BY <1>1 DEF DeleteFile, delete_file, TypeInv, TypeOK, Disks
<1> SUFFICES ASSUME NEW f \in Entities, NEW j \in index.ids[f],
                    disk'.files[f][j] = Missing
             PROVE  Excused(f, j)'
  BY <1>3 DEF IndexBacked
<1>5. CASE f = e /\ j = i
  BY <1>2, <1>5 DEF Excused
<1>6. CASE ~(f = e /\ j = i)
  <2>1. j \in Ids
    BY DEF TypeInv, TypeOK
  <2>2. Excused(f, j)
    BY <1>4, <1>6, <2>1 DEF IndexBacked
  <2> QED
    BY <1>1, <1>2, <1>3, <2>2 DEF Excused
<1> QED
  BY <1>5, <1>6

\* and the thread that has erased it leaves nothing to excuse.
LEMMA EraseIdBacked ==
    ASSUME TypeInv, IndexBacked, NEW w \in Workers, EraseId(w)
    PROVE  IndexBacked'
<1> DEFINE e == worker[w].entity
           i == worker[w].id
<1>1. e \in Entities /\ i \in Ids
  BY ChosenId DEF EraseId, IdSteps
<1>2. /\ index'.ids = [index.ids EXCEPT ![e] = @ \ {i}]
      /\ unwritten' = unwritten \ {<<e, i>>} /\ disk' = disk
      /\ \A v \in Workers \ {w} : worker'[v] = worker[v]
  BY OthersStay DEF EraseId, TypeInv, TypeOK
<1> SUFFICES ASSUME NEW f \in Entities, NEW j \in index'.ids[f],
                    disk.files[f][j] = Missing
             PROVE  Excused(f, j)'
  BY <1>2 DEF IndexBacked
<1>3. j \in index.ids[f] /\ ~(f = e /\ j = i)
  BY <1>1, <1>2 DEF TypeInv, TypeOK
<1>4. Excused(f, j)
  BY <1>3 DEF IndexBacked
<1> QED
  BY <1>2, <1>3, <1>4 DEF Excused

\* Altogether, no step makes the index run ahead.
LEMMA BackedStep == TypeInv /\ IndexBacked /\ [Next]_vars => IndexBacked'
<1> SUFFICES ASSUME TypeInv, IndexBacked, [Next]_vars PROVE IndexBacked'
  OBVIOUS
<1>1. CASE \E w \in Workers : Step(w)
  BY <1>1, QuietBacked, SessionBacked, InsertIdBacked, OpenFileBacked,
     WriteFileBacked, DeleteFileBacked, EraseIdBacked DEF Step
<1>2. CASE \E w \in Workers : \E r \in Requests : Receive(w, r)
  BY <1>2, SessionBacked
<1>3. CASE Crash
  BY <1>3, ExitBacked DEF Crash
<1>4. CASE Restart
  BY <1>4 DEF Restart, list_files, Stored, IndexBacked
<1>5. CASE UNCHANGED vars
  BY <1>5 DEF vars, IndexBacked, Excused
<1> QED
  BY <1>1, <1>2, <1>3, <1>4, <1>5 DEF Next

\* For any number of threads, however they interleave and even when insertions
\* are lost to the unlocked index: handle_retrieve finds a file behind every
\* id it finds, unless the document is being created or deleted right then or
\* write_file failed without anybody looking.
THEOREM IndexCorrect == Spec => []IndexBacked
<1>1. Init => IndexBacked
  BY DEF Init, IndexBacked
<1> QED
  BY <1>1, TypeInit, TypeStep, BackedStep, PTL DEF Spec

\* One client, which waits for its answers, and files that can be opened.
Alone == Workers = {TheWorker} /\ ~DiskFails

----------------------------------------------------------------------------
(* The inductive invariant.                                                *)

TheStep == worker[TheWorker].step

TheEntity == worker[TheWorker].entity

TheId == worker[TheWorker].id

\* The documents the directory has for the entity of the request.
Documents == Stored(disk, TheEntity)

\* The id the index lists before its file is there or after it has gone.
Ahead(e) ==
    IF TheStep \in {"open file", "erase id"} /\ TheEntity = e
    THEN {TheId} ELSE {}

\* While the process runs the index lists what is in the directory, but for
\* what the step at hand is about to change.
IndexFollows ==
    /\ index.entities = disk.dirs \cup
          (IF TheStep = "make directory" THEN {TheEntity} ELSE {})
    /\ \A e \in Entities : index.ids[e] = Stored(disk, e) \cup Ahead(e)

\* Each step belongs to the handlers that take it.
MethodFits ==
    /\ TheStep \in {"find entity", "insert entity", "make directory", "choose id"} =>
          worker[TheWorker].method = "post"
    /\ TheStep \in {"insert id", "open file", "write file"} =>
          worker[TheWorker].method \in {"post", "put"}
    /\ TheStep \in {"list", "look up", "read file"} =>
          worker[TheWorker].method = "get"
    /\ TheStep = "find id" => worker[TheWorker].method = "put"
    /\ TheStep \in {"check id", "delete file", "erase id"} =>
          worker[TheWorker].method = "delete"
    /\ TheStep = "list" => TheId = 0

\* What a handler has found out is still so when it acts on it.
DocumentFits ==
    /\ TheStep \in {"choose id", "insert id", "open file", "write file"} =>
          TheEntity \in disk.dirs
    /\ TheStep \in {"find entity", "insert entity", "make directory", "choose id",
                    "insert id"} => ~worker[TheWorker].exists
    /\ TheStep = "insert id" => TheId \notin Documents
    /\ TheStep = "open file" => (worker[TheWorker].exists <=> TheId \in Documents)
    /\ TheStep \in {"insert id", "open file"} /\ worker[TheWorker].method = "post" =>
          TheId \notin Documents /\ \A j \in Ids : j < TheId => j \in Documents
    /\ TheStep = "write file" =>
          /\ <<TheWorker, TheEntity, TheId>> \in open
          /\ disk.files[TheEntity][TheId] = Blank
    /\ TheStep \in {"read file", "delete file"} => TheId \in Documents
    /\ TheStep = "erase id" => TheId \notin Documents

StoreInv ==
    /\ up => IndexFollows
    /\ ~up => worker[TheWorker] = Idle
    /\ \A e \in Entities \ disk.dirs : Stored(disk, e) = {}
    /\ MethodFits
    /\ DocumentFits

----------------------------------------------------------------------------
(* What the store sees.                                                    *)

Hidden == UNCHANGED Store!vars

\* An idle thread serves nothing,
LEMMA IdleView ==
    /\ RequestOf(Idle) = Store!None
    /\ TargetOf(Idle) = 0
    /\ ExistedOf(Idle) = FALSE
BY DEF RequestOf, TargetOf, ExistedOf, Idle, Store!None

\* a busy one the request it was given.
LEMMA BusyView ==
    ASSUME NEW s \in WorkerStates
    PROVE  /\ RequestOf(s).method = s.method
           /\ RequestOf(s).entity = s.entity
           /\ RequestOf(s).body = s.body
           /\ (s.method # "post" \/ s.step \notin {"insert id", "open file", "write file"})
                 => RequestOf(s).id = s.id
           /\ (s.method = "post" /\ s.step \in {"insert id", "open file", "write file"})
                 => RequestOf(s).id = 0
           /\ RequestOf(s) # Store!None
<1>1. s # Idle
  <2>1. s.step \in Steps
    BY DEF WorkerStates
  <2>2. Idle.step \notin Steps
    BY DEF Idle, Steps
  <2> QED
    BY <2>1, <2>2
<1> QED
  BY <1>1 DEF RequestOf, Store!None, WorkerStates

\* The thread of a step is the only one there is.
LEMMA TheOnly ==
    ASSUME Alone, TypeInv, NEW w \in Workers
    PROVE  /\ w = TheWorker
           /\ \A s : worker' = [worker EXCEPT ![w] = s] => worker'[TheWorker] = s
           /\ \A a : reply' = [reply EXCEPT ![w] = a] => reply'[TheWorker] = a
BY DEF Alone, TypeInv, TypeOK

\* What leaves the directory, the request and the answer alone is hidden.
LEMMA HiddenStep ==
    ASSUME disk'.files = disk.files, disk'.dirs = disk.dirs,
           reply'[TheWorker] = reply[TheWorker],
           RequestOf(worker'[TheWorker]) = RequestOf(worker[TheWorker]),
           TargetOf(worker'[TheWorker]) = TargetOf(worker[TheWorker]),
           ExistedOf(worker'[TheWorker]) = ExistedOf(worker[TheWorker])
    PROVE  [Store!Next]_Store!vars
BY DEF Store!vars

\* Nothing is promised of an idle thread.
LEMMA IdleFits ==
    ASSUME worker'[TheWorker] = Idle
    PROVE  TheStep' = "idle" /\ MethodFits' /\ DocumentFits'
<1>1. TheStep' = "idle"
  BY DEF TheStep, Idle
<1>2. MethodFits'
  BY <1>1 DEF MethodFits
<1>3. DocumentFits'
  BY <1>1 DEF DocumentFits
<1> QED
  BY <1>1, <1>2, <1>3

----------------------------------------------------------------------------
(* The process ends and starts again.                                      *)

\* When the process ends the directory stays as it is and the request, if
\* there is one, is forgotten.
LEMMA ExitStore ==
    ASSUME Alone, TypeInv, StoreInv, Exit
    PROVE  StoreInv' /\ [Store!Next]_Store!vars
<1>1. worker'[TheWorker] = Idle /\ disk' = disk /\ reply' = reply /\ ~up'
  BY DEF Exit, Alone
<1>2. StoreInv'
  BY <1>1, IdleFits DEF StoreInv
<1>3. Store!Abandon
  BY <1>1, IdleView DEF Store!Abandon
<1> QED
  BY <1>2, <1>3 DEF Store!Next

\* A restart is a step of the abstract store: the index is read back from
\* the files that are there.
LEMMA RestartStore ==
    ASSUME Alone, TypeInv, StoreInv, Restart
    PROVE  StoreInv' /\ [Store!Next]_Store!vars
<1>1. worker' = worker /\ disk' = disk /\ reply' = reply /\ up'
      /\ index' = list_files(disk)
  BY DEF Restart
<1>2. worker[TheWorker].step = "idle"
  BY DEF Restart, StoreInv, Idle
<1>3. \A e \in Entities : index'.ids[e] = Stored(disk, e)
  BY <1>1 DEF list_files, StoreInv
<1>4. IndexFollows'
  BY <1>1, <1>2, <1>3 DEF IndexFollows, Ahead, TheStep, list_files
<1>5. StoreInv'
  BY <1>1, <1>2, <1>4 DEF StoreInv, MethodFits, DocumentFits, TheStep
<1> QED
  BY <1>1, <1>5, HiddenStep

\* A request is refused, started or ends the process.
LEMMA ReceiveStore ==
    ASSUME Alone, TypeInv, StoreInv, NEW w \in Workers, NEW r \in Requests,
           Receive(w, r)
    PROVE  StoreInv' /\ [Store!Next]_Store!vars
<1>1. CASE Exit
  BY <1>1, ExitStore
<1>2. up /\ worker[TheWorker].step = "idle" /\ w = TheWorker
  BY TheOnly DEF Receive, At
<1>3. worker[TheWorker] = Idle
  <2>1. worker[TheWorker] \notin WorkerStates
    BY <1>2 DEF WorkerStates, Steps
  <2> QED
    BY <1>2, <2>1 DEF TypeInv, TypeOK
<1>4. CASE /\ ~Exit
           /\ r.entity = NoEntity \/ r.id = InvalidId \/ FirstStep(r) = "idle"
  <2>1. PICK status \in {405, 400} : reply' = [reply EXCEPT ![w] = Plain(status)]
    BY <1>4 DEF Receive
  <2>2. UNCHANGED <<up, index, disk, worker>>
    BY <1>4 DEF Receive
  <2>3. reply'[TheWorker] = Plain(status)
    BY <1>2, <2>1 DEF TypeInv, TypeOK
  <2>4. Store!Refuse(status)
    BY <1>3, <2>2, <2>3, IdleView DEF Store!Refuse, Store!Plain, Store!Answer, Plain
  <2>5. Store!Next
    BY <2>4 DEF Store!Next
  <2>6. StoreInv'
    <3>1. IndexFollows'
      BY <1>2, <2>2 DEF StoreInv, IndexFollows, Ahead, TheStep
    <3> QED
      BY <1>2, <1>3, <2>2, <3>1, IdleFits DEF StoreInv
  <2> QED
    BY <2>5, <2>6
<1>5. CASE /\ ~Exit
           /\ r.entity # NoEntity /\ r.id # InvalidId /\ FirstStep(r) # "idle"
  <2> DEFINE s == [step |-> FirstStep(r), method |-> r.method,
                   entity |-> r.entity, id |-> r.id, body |-> r.body,
                   exists |-> FALSE]
  <2>1. /\ reply' = [reply EXCEPT ![w] = Unanswered]
        /\ worker' = [worker EXCEPT ![w] = s]
        /\ UNCHANGED <<up, index, disk>>
    BY <1>5 DEF Receive
  <2>2. reply'[TheWorker] = Unanswered /\ worker'[TheWorker] = s
    BY <1>2, <2>1, TheOnly
  <2>3. r.entity \in Entities /\ r.id \in Ids \cup {0}
    BY <1>5 DEF Receive, Requests
  <2>4. \/ FirstStep(r) = "find entity" /\ r.method = "post"
        \/ FirstStep(r) = "list" /\ r.method = "get" /\ r.id = 0
        \/ FirstStep(r) = "look up" /\ r.method = "get"
        \/ FirstStep(r) = "find id" /\ r.method = "put"
        \/ FirstStep(r) = "check id" /\ r.method = "delete"
    BY <1>5 DEF FirstStep
  <2>5. StoreInv'
    <3>1. TheStep' = FirstStep(r) /\ TheId' = r.id
          /\ worker'[TheWorker].method = r.method /\ ~worker'[TheWorker].exists
      BY <2>2 DEF TheStep, TheId
    <3>2. IndexFollows'
      BY <1>2, <2>1, <2>4, <3>1 DEF StoreInv, IndexFollows, Ahead, TheStep
    <3>3. MethodFits'
      BY <2>4, <3>1 DEF MethodFits
    <3>4. DocumentFits'
      BY <2>4, <3>1 DEF DocumentFits
    <3> QED
      BY <1>2, <2>1, <3>2, <3>3, <3>4 DEF StoreInv
  <2>6. /\ RequestOf(s) = [method |-> r.method, entity |-> r.entity, id |-> r.id,
                           body |-> r.body]
        /\ TargetOf(s) = 0 /\ ExistedOf(s) = FALSE
    BY <2>4 DEF RequestOf, TargetOf, ExistedOf, Idle
  <2>7. RequestOf(s) = r /\ r \in Store!Requests
    BY <2>3, <2>4, <2>6 DEF Requests, Store!Requests
  <2>8. Store!Receive(r)
    BY <1>3, <2>1, <2>2, <2>6, <2>7, IdleView
    DEF Store!Receive, Store!Plain, Store!Answer, Plain, Unanswered
  <2> QED
    BY <2>5, <2>7, <2>8 DEF Store!Next
<1> QED
  BY <1>1, <1>4, <1>5

----------------------------------------------------------------------------
(* What a step of a handler changes.                                       *)

\* Going to another step keeps the request,
LEMMA GotoView ==
    ASSUME Alone, TypeInv, NEW w \in Workers, worker[w] \in WorkerStates,
           NEW step \in Steps, Goto(w, step)
    PROVE  /\ worker'[TheWorker] \in WorkerStates
           /\ TheStep' = step /\ TheEntity' = TheEntity /\ TheId' = TheId
           /\ worker'[TheWorker].method = worker[TheWorker].method
           /\ worker'[TheWorker].exists = worker[TheWorker].exists
           /\ worker'[TheWorker].body = worker[TheWorker].body
<1>1. w = TheWorker
  BY TheOnly
<1>2. worker'[TheWorker] = [worker[TheWorker] EXCEPT !.step = step]
  BY <1>1 DEF Goto, TypeInv, TypeOK
<1> QED
  BY <1>1, <1>2 DEF WorkerStates, TheStep, TheEntity, TheId

\* which the store does not see while nothing is being written or removed,
LEMMA GotoHidden ==
    ASSUME Alone, TypeInv, NEW w \in Workers, worker[w] \in WorkerStates,
           NEW step \in Steps \ {"write file", "erase id"}, Goto(w, step),
           TheStep \notin {"write file", "erase id"},
           worker[w].method = "post" =>
              (TheStep \in {"insert id", "open file"} <=>
                  step \in {"insert id", "open file"}),
           UNCHANGED <<disk, reply>>
    PROVE  [Store!Next]_Store!vars
<1> DEFINE s == worker[TheWorker]
           t == worker'[TheWorker]
<1>1. w = TheWorker
  BY TheOnly
<1>2. s \in WorkerStates /\ t = [s EXCEPT !.step = step]
  BY <1>1 DEF Goto, TypeInv, TypeOK
<1>3. t \in WorkerStates
  BY <1>2 DEF WorkerStates
<1>4. s # Idle /\ t # Idle
  BY <1>2, <1>3, BusyView, IdleView
<1>5. RequestOf(t) = RequestOf(s)
  BY <1>1, <1>2, <1>4 DEF RequestOf, WorkerStates, TheStep
<1>6. TargetOf(t) = TargetOf(s) /\ ExistedOf(t) = ExistedOf(s)
  BY <1>2 DEF TargetOf, ExistedOf, WorkerStates, TheStep
<1> QED
  BY <1>5, <1>6, HiddenStep

\* and finishing answers it.
LEMMA FinishView ==
    ASSUME Alone, TypeInv, NEW w \in Workers, NEW answer, Finish(w, answer)
    PROVE  /\ worker'[TheWorker] = Idle /\ reply'[TheWorker] = answer
           /\ Store!Reply(answer)
           /\ TheStep' = "idle" /\ MethodFits' /\ DocumentFits'
<1>1. w = TheWorker
  BY TheOnly
<1>2. worker'[TheWorker] = Idle /\ reply'[TheWorker] = answer
  BY <1>1 DEF Finish, TypeInv, TypeOK
<1>3. Store!Reply(answer)
  BY <1>2, IdleView DEF Store!Reply
<1> QED
  BY <1>2, <1>3, IdleFits

\* The answers that are told from the documents there are.
Told(answer) ==
    LET method == worker[TheWorker].method
    IN  \/ /\ method = "post" /\ TheId # 0 /\ TheEntity \in disk.dirs
           /\ answer = Plain(400)
        \/ /\ method = "put"
           /\ \/ TheEntity \notin disk.dirs /\ answer = Plain(404)
              \/ /\ TheEntity \in disk.dirs /\ worker[TheWorker].body = NotJson
                 /\ answer = Plain(400)
        \/ /\ method = "delete"
           /\ \/ TheEntity \notin disk.dirs /\ answer = Plain(400)
              \/ /\ TheEntity \in disk.dirs /\ TheId \notin Documents
                 /\ answer = Plain(404)
        \/ /\ method = "get" /\ TheId = 0
           /\ answer = [Plain(200) EXCEPT !.list = Documents]
        \/ /\ method = "get" /\ TheId # 0
           /\ answer = IF TheId \in Documents
                       THEN [Plain(200) EXCEPT !.doc = disk.files[TheEntity][TheId]]
                       ELSE Plain(404)

\* A handler's answer that tells what the store holds is a step of the store.
LEMMA TellStore ==
    ASSUME Alone, TypeInv, NEW w \in Workers, worker[w] \in WorkerStates,
           NEW answer, Finish(w, answer), disk' = disk,
           TheStep \notin {"insert id", "open file", "write file", "erase id"},
           Told(answer)
    PROVE  [Store!Next]_Store!vars
<1> DEFINE s == worker[TheWorker]
<1>1. s \in WorkerStates
  BY TheOnly
<1>2. /\ RequestOf(s).method = s.method /\ RequestOf(s).entity = TheEntity
      /\ RequestOf(s).body = s.body /\ RequestOf(s).id = TheId
      /\ RequestOf(s) # Store!None
  BY <1>1, BusyView DEF TheStep, TheEntity, TheId
<1>3. TargetOf(s) = 0
  BY DEF TargetOf, TheStep
<1>4. Store!Reply(answer)
  BY FinishView
<1>5. Store!Stored(TheEntity) = Documents
  BY DEF Store!Stored, Stored, Documents
<1>a. Store!Plain(400) = Plain(400) /\ Store!Plain(404) = Plain(404)
  BY DEF Store!Plain, Store!Answer, Plain
<1>b. answer = Plain(400) => Store!Reply(Store!Plain(400))
  BY <1>4, <1>a
<1>c. answer = Plain(404) => Store!Reply(Store!Plain(404))
  BY <1>4, <1>a
<1>6. Store!Tell
  <2>1. CASE s.method = "post" /\ TheId # 0 /\ TheEntity \in disk.dirs /\ answer = Plain(400)
    <3>1. Store!Reply(Store!Plain(400))
      BY <1>b, <2>1
    <3> QED
      BY <1>2, <1>3, <2>1, <3>1 DEF Store!Tell
  <2>2. CASE /\ s.method = "put"
             /\ \/ TheEntity \notin disk.dirs /\ answer = Plain(404)
                \/ TheEntity \in disk.dirs /\ s.body = NotJson /\ answer = Plain(400)
    <3>1. \/ TheEntity \notin disk.dirs /\ Store!Reply(Store!Plain(404))
          \/ TheEntity \in disk.dirs /\ s.body = NotJson /\ Store!Reply(Store!Plain(400))
      BY <1>b, <1>c, <2>2, Zenon
    <3>2. s.method = "put"
      BY <2>2
    <3>3. CASE TheEntity \notin disk.dirs /\ Store!Reply(Store!Plain(404))
      BY <1>2, <1>3, <3>2, <3>3 DEF Store!Tell
    <3>4. CASE TheEntity \in disk.dirs /\ s.body = NotJson /\ Store!Reply(Store!Plain(400))
      BY <1>2, <1>3, <3>2, <3>4 DEF Store!Tell
    <3> QED
      BY <3>1, <3>3, <3>4
  <2>3. CASE /\ s.method = "delete"
             /\ \/ TheEntity \notin disk.dirs /\ answer = Plain(400)
                \/ /\ TheEntity \in disk.dirs /\ TheId \notin Documents
                   /\ answer = Plain(404)
    <3>1. \/ TheEntity \notin disk.dirs /\ Store!Reply(Store!Plain(400))
          \/ /\ TheEntity \in disk.dirs /\ TheId \notin Documents
             /\ Store!Reply(Store!Plain(404))
      BY <1>b, <1>c, <2>3, Zenon
    <3> QED
      BY <1>2, <1>3, <1>5, <2>3, <3>1 DEF Store!Tell
  <2>4. CASE s.method = "get" /\ TheId = 0
    BY <1>2, <1>3, <1>4, <1>5, <2>4
    DEF Store!Tell, Told, Store!Plain, Store!Answer, Plain
  <2>5. CASE s.method = "get" /\ TheId # 0
    BY <1>2, <1>3, <1>4, <1>5, <2>5
    DEF Store!Tell, Told, Store!Plain, Store!Answer, Plain
  <2> QED
    BY <2>1, <2>2, <2>3, <2>4, <2>5 DEF Told
<1> QED
  BY <1>2, <1>6 DEF Store!Next

----------------------------------------------------------------------------
(* The steps of the handlers.                                              *)

\* The part of the invariant that is about the index and the directory, for
\* a step that leaves both alone and is not ahead of the directory.
LEMMA SameIndex ==
    ASSUME StoreInv, up, UNCHANGED <<up, index, disk>>,
           TheStep \notin {"make directory", "open file", "erase id"},
           TheStep' \notin {"make directory", "open file", "erase id"},
           MethodFits', DocumentFits'
    PROVE  StoreInv'
<1>1. IndexFollows'
  BY DEF StoreInv, IndexFollows, Ahead
<1> QED
  BY <1>1 DEF StoreInv

\* What changing one file does to the ids that have one.
LEMMA StoredAfter ==
    ASSUME NEW d \in Disks, NEW c, NEW e \in Entities, NEW i \in Ids, NEW text,
           c.files = [d.files EXCEPT ![e][i] = text]
    PROVE  \A f \in Entities :
              Stored(c, f) = IF f # e THEN Stored(d, f)
                             ELSE IF text = Missing THEN Stored(d, e) \ {i}
                             ELSE Stored(d, e) \cup {i}
<1> SUFFICES ASSUME NEW f \in Entities
               PROVE  Stored(c, f) = IF f # e THEN Stored(d, f)
                                     ELSE IF text = Missing THEN Stored(d, e) \ {i}
                                     ELSE Stored(d, e) \cup {i}
  OBVIOUS
<1>1. d.files \in [Entities -> [Ids -> Contents]]
  BY DEF Disks
<1>2. f # e => c.files[f] = d.files[f]
  BY <1>1
<1>3. c.files[e] = [d.files[e] EXCEPT ![i] = text]
  BY <1>1
<1>4. d.files[e] \in [Ids -> Contents]
  BY <1>1
<1>5. \A j \in Ids : c.files[e][j] = IF j = i THEN text ELSE d.files[e][j]
  BY <1>3, <1>4
<1> QED
  BY <1>2, <1>5 DEF Stored

\* handle_create
LEMMA CreateStore ==
    ASSUME Alone, TypeInv, StoreInv, NEW w \in Workers,
           FindEntity(w) \/ InsertEntity(w) \/ MakeDirectory(w) \/ ChooseId(w)
    PROVE  StoreInv' /\ [Store!Next]_Store!vars
<1>1. w = TheWorker
  BY TheOnly
<1>2. up /\ IndexFollows /\ worker[w] \in WorkerStates
  BY BusyType DEF FindEntity, InsertEntity, MakeDirectory, ChooseId, StoreInv,
                  TypeInv, At, Steps
<1>3. CASE FindEntity(w)
  <2>1. TheStep = "find entity" /\ UNCHANGED <<up, index, disk, reply>>
    BY <1>1, <1>3 DEF FindEntity, At, TheStep
  <2> DEFINE next == IF TheEntity \in index.entities
                     THEN "choose id" ELSE "insert entity"
  <2>2. Goto(w, next) /\ next \in Steps \ {"write file", "erase id"}
    BY <1>1, <1>3 DEF FindEntity, TheEntity, Steps
  <2>3. /\ TheStep' = next /\ TheEntity' = TheEntity
        /\ worker'[TheWorker].method = worker[TheWorker].method
        /\ worker'[TheWorker].exists = worker[TheWorker].exists
    BY <1>2, <2>2, GotoView
  <2>4. TheEntity \in index.entities <=> TheEntity \in disk.dirs
    BY <1>2, <2>1 DEF IndexFollows
  <2>5. MethodFits' /\ DocumentFits'
    <3>1. MethodFits'
      BY <2>1, <2>3 DEF MethodFits, StoreInv
    <3>2. DocumentFits'
      BY <2>1, <2>3, <2>4 DEF DocumentFits, StoreInv
    <3> QED
      BY <3>1, <3>2
  <2>6. StoreInv'
    BY <1>2, <2>1, <2>3, <2>5, SameIndex
  <2> QED
    BY <1>2, <2>1, <2>2, <2>6, GotoHidden
<1>4. CASE InsertEntity(w)
  <2>1. /\ TheStep = "insert entity" /\ UNCHANGED <<up, disk, reply>>
        /\ index' = [index EXCEPT !.entities = @ \cup {TheEntity}]
        /\ Goto(w, "make directory")
    BY <1>1, <1>4 DEF InsertEntity, At, TheStep, TheEntity
  <2>2. /\ TheStep' = "make directory" /\ TheEntity' = TheEntity
        /\ worker'[TheWorker].method = worker[TheWorker].method
        /\ worker'[TheWorker].exists = worker[TheWorker].exists
    BY <1>2, <2>1, GotoView DEF Steps
  <2>3. /\ index'.entities = index.entities \cup {TheEntity}
        /\ index'.ids = index.ids
    BY <2>1 DEF TypeInv, TypeOK
  <2>4. IndexFollows'
    BY <1>2, <2>1, <2>2, <2>3 DEF IndexFollows, Ahead
  <2>5. MethodFits' /\ DocumentFits'
    BY <2>1, <2>2 DEF MethodFits, DocumentFits, StoreInv
  <2>6. StoreInv'
    BY <1>2, <2>1, <2>4, <2>5 DEF StoreInv
  <2> QED
    BY <1>2, <2>1, <2>6, GotoHidden DEF Steps
<1>5. CASE MakeDirectory(w)
  <2>1. /\ TheStep = "make directory" /\ UNCHANGED <<up, index, reply>>
        /\ disk' = [disk EXCEPT !.dirs = @ \cup {TheEntity}]
        /\ Goto(w, "choose id")
    BY <1>1, <1>5 DEF MakeDirectory, At, TheStep, TheEntity, create_directory
  <2>2. /\ TheStep' = "choose id" /\ TheEntity' = TheEntity /\ TheId' = TheId
        /\ worker'[TheWorker].method = worker[TheWorker].method
        /\ worker'[TheWorker].exists = worker[TheWorker].exists
        /\ worker'[TheWorker].body = worker[TheWorker].body
        /\ worker'[TheWorker] \in WorkerStates
    BY <1>2, <2>1, GotoView DEF Steps
  <2>3. /\ disk'.dirs = disk.dirs \cup {TheEntity}
        /\ disk'.files = disk.files
        /\ \A e \in Entities : Stored(disk', e) = Stored(disk, e)
    BY <2>1 DEF TypeInv, TypeOK, Disks, Stored
  <2>4. IndexFollows'
    BY <1>2, <2>1, <2>2, <2>3 DEF IndexFollows, Ahead
  <2>5. MethodFits' /\ DocumentFits'
    BY <2>1, <2>2, <2>3 DEF MethodFits, DocumentFits, StoreInv
  <2>6. StoreInv'
    BY <1>2, <2>1, <2>3, <2>4, <2>5 DEF StoreInv
  <2>7. worker[TheWorker].method = "post"
    BY <2>1 DEF StoreInv, MethodFits
  <2>8. /\ RequestOf(worker'[TheWorker]) = RequestOf(worker[TheWorker])
        /\ TargetOf(worker'[TheWorker]) = TargetOf(worker[TheWorker])
        /\ ExistedOf(worker'[TheWorker]) = ExistedOf(worker[TheWorker])
        /\ RequestOf(worker[TheWorker]).method = "post"
        /\ RequestOf(worker[TheWorker]).entity = TheEntity
        /\ RequestOf(worker[TheWorker]) # Store!None
    <3>1. worker[TheWorker] # Idle /\ worker'[TheWorker] # Idle
      BY <1>1, <1>2, <2>2, BusyView, IdleView
    <3>2. RequestOf(worker'[TheWorker]) = RequestOf(worker[TheWorker])
      BY <2>1, <2>2, <3>1 DEF RequestOf, TheStep, TheEntity, TheId
    <3>3. /\ TargetOf(worker'[TheWorker]) = TargetOf(worker[TheWorker])
          /\ ExistedOf(worker'[TheWorker]) = ExistedOf(worker[TheWorker])
      BY <2>1, <2>2 DEF TargetOf, ExistedOf, TheStep
    <3> QED
      BY <1>1, <1>2, <2>7, <3>2, <3>3, BusyView DEF TheEntity
  <2>9. Store!NewEntity
    BY <2>1, <2>3, <2>8 DEF Store!NewEntity
  <2> QED
    BY <2>6, <2>8, <2>9 DEF Store!Next
<1>6. CASE ChooseId(w) /\ worker[w].id # 0
  <2>1. /\ TheStep = "choose id" /\ UNCHANGED <<up, index, disk>>
        /\ Finish(w, Plain(400)) /\ TheId # 0
    BY <1>1, <1>6 DEF ChooseId, At, TheStep, TheId
  <2>2. worker[TheWorker].method = "post" /\ TheEntity \in disk.dirs
    BY <2>1 DEF StoreInv, MethodFits, DocumentFits
  <2>3. Told(Plain(400))
    BY <2>1, <2>2 DEF Told
  <2>a. TheStep' = "idle" /\ MethodFits' /\ DocumentFits'
    BY <2>1, FinishView
  <2>4. StoreInv'
    BY <1>2, <2>1, <2>a, SameIndex
  <2> QED
    BY <1>2, <2>1, <2>3, <2>4, TellStore
<1>7. CASE ChooseId(w) /\ worker[w].id = 0
  <2> DEFINE used == index.ids[TheEntity]
             i == SmallestAvailableId(used)
             s == worker[TheWorker]
             t == worker'[TheWorker]
  <2>1. /\ TheStep = "choose id" /\ UNCHANGED <<up, index, disk, reply>>
        /\ used # Ids /\ t = [s EXCEPT !.id = i, !.step = "insert id"]
    BY <1>1, <1>7 DEF ChooseId, At, TheStep, TheEntity, TypeInv, TypeOK
  <2>2. /\ s \in WorkerStates /\ TheEntity \in Entities /\ s.method = "post"
        /\ ~s.exists /\ TheEntity \in disk.dirs
    BY <1>1, <1>2, <2>1
    DEF WorkerStates, TheEntity, StoreInv, MethodFits, DocumentFits
  <2>a. Ahead(TheEntity) = {}
    BY <2>1 DEF Ahead
  <2>b. index.ids[TheEntity] = Stored(disk, TheEntity) \cup Ahead(TheEntity)
    BY <1>2, <2>2, Zenon DEF StoreInv, IndexFollows
  <2>c. index.ids[TheEntity] \in SUBSET Ids
    BY <2>2 DEF TypeInv, TypeOK
  <2>3. used = Documents /\ used \in SUBSET Ids
    BY <2>a, <2>b, <2>c DEF Documents
  <2>4. i \in Ids \ used /\ \A j \in Ids \ used : i <= j
    BY <2>1, <2>3, SmallestAvailable
  <2>5. \A j \in Ids : j < i => j \in used
    BY <2>4, MaxIdAssumption DEF Ids
  <2>6. /\ TheStep' = "insert id" /\ TheEntity' = TheEntity /\ TheId' = i
        /\ t.method = s.method /\ t.exists = s.exists /\ t.body = s.body
        /\ t \in WorkerStates
    BY <2>1, <2>2, <2>4 DEF WorkerStates, TheStep, TheEntity, TheId, Steps
  <2>7. Documents' = Documents
    BY <2>1, <2>6 DEF Documents
  <2>8. MethodFits'
    BY <2>2, <2>6 DEF MethodFits
  <2>9. DocumentFits'
    BY <2>1, <2>2, <2>3, <2>4, <2>5, <2>6, <2>7 DEF DocumentFits
  <2>10. StoreInv'
    BY <1>2, <2>1, <2>6, <2>8, <2>9, SameIndex
  <2>11. s # Idle /\ t # Idle
    BY <2>2, <2>6, BusyView, IdleView
  <2>12. RequestOf(t) = RequestOf(s)
    BY <1>1, <1>7, <2>1, <2>2, <2>6, <2>11
    DEF RequestOf, TheStep, TheEntity, TheId
  <2>13. TargetOf(t) = TargetOf(s) /\ ExistedOf(t) = ExistedOf(s)
    BY <2>1, <2>6 DEF TargetOf, ExistedOf, TheStep
  <2> QED
    BY <2>1, <2>10, <2>12, <2>13, HiddenStep
<1> QED
  BY <1>3, <1>4, <1>5, <1>6, <1>7

\* handle_create and handle_update: the id is inserted,
LEMMA InsertStore ==
    ASSUME Alone, TypeInv, StoreInv, NEW w \in Workers,
           InsertId(w) \/ LoseInsert(w)
    PROVE  StoreInv' /\ [Store!Next]_Store!vars
<1>1. w = TheWorker /\ InsertId(w)
  BY TheOnly DEF Alone, LoseInsert
<1>2. /\ TheStep = "insert id" /\ UNCHANGED <<up, disk, reply>> /\ up
      /\ index' = [index EXCEPT !.ids[TheEntity] = @ \cup {TheId}]
      /\ Goto(w, "open file")
  BY <1>1 DEF InsertId, At, TheStep, TheEntity, TheId
<1>3. /\ worker[w] \in WorkerStates /\ TheEntity \in Entities
      /\ worker[TheWorker].exists \in BOOLEAN
  <2>1. worker[w] \in WorkerStates
    BY <1>1, BusyType DEF InsertId, TypeInv, At, Steps
  <2> QED
    BY <1>1, <2>1 DEF WorkerStates, TheEntity
<1>4. /\ TheStep' = "open file" /\ TheEntity' = TheEntity /\ TheId' = TheId
      /\ worker'[TheWorker].method = worker[TheWorker].method
      /\ worker'[TheWorker].exists = worker[TheWorker].exists
  BY <1>2, <1>3, GotoView DEF Steps
<1>5. /\ index'.entities = index.entities
      /\ index'.ids = [index.ids EXCEPT ![TheEntity] = @ \cup {TheId}]
  BY <1>2 DEF TypeInv, TypeOK
<1>6. IndexFollows'
  <2>1. \A e \in Entities : index.ids[e] = Stored(disk, e)
    BY <1>2 DEF StoreInv, IndexFollows, Ahead
  <2>2. ASSUME NEW e \in Entities
        PROVE  index'.ids[e] = Stored(disk, e) \cup
                  (IF TheEntity = e THEN {TheId} ELSE {})
    BY <1>3, <1>5, <2>1 DEF TypeInv, TypeOK
  <2> QED
    BY <1>2, <1>4, <1>5, <2>2 DEF StoreInv, IndexFollows, Ahead
<1>7. Documents' = Documents
  BY <1>2, <1>4 DEF Documents
<1>8. MethodFits' /\ DocumentFits'
  <2>1. MethodFits'
    BY <1>2, <1>4 DEF StoreInv, MethodFits
  <2>2. DocumentFits'
    <3>1. ~worker[TheWorker].exists /\ TheId \notin Documents
      BY <1>2 DEF StoreInv, DocumentFits
    <3> QED
      BY <1>2, <1>3, <1>4, <1>7, <3>1 DEF StoreInv, DocumentFits
  <2> QED
    BY <2>1, <2>2
<1>9. StoreInv'
  BY <1>2, <1>6, <1>8 DEF StoreInv
<1> QED
  BY <1>2, <1>3, <1>9, GotoHidden DEF Steps

\* its file is opened, which empties it,
LEMMA OpenStore ==
    ASSUME Alone, TypeInv, StoreInv, NEW w \in Workers, OpenFile(w)
    PROVE  StoreInv' /\ [Store!Next]_Store!vars
<1> DEFINE s == worker[TheWorker]
           t == worker'[TheWorker]
<1>1. w = TheWorker
  BY TheOnly
<1>2. /\ TheStep = "open file" /\ up /\ s \in WorkerStates
      /\ TheEntity \in Entities /\ TheId \in Ids
      /\ s.method \in {"post", "put"} /\ s.body # NotJson /\ s.exists \in BOOLEAN
      /\ TheEntity \in disk.dirs /\ (s.exists <=> TheId \in Documents)
  <2>1. At(w, "open file") /\ TheStep = "open file"
    BY <1>1 DEF OpenFile, At, TheStep
  <2>2. s \in WorkerStates /\ TheEntity \in Entities /\ TheId \in Ids
    BY <1>1, <2>1, ChosenId DEF IdSteps, TheEntity, TheId
  <2>3. s.body # NotJson
    BY <1>1, <2>1, BodyParsed DEF BodySteps
  <2> QED
    BY <2>1, <2>2, <2>3 DEF At, StoreInv, MethodFits, DocumentFits, WorkerStates
<1>3. /\ disk' = [disk EXCEPT !.files[TheEntity][TheId] = Blank]
      /\ open' = open \cup {<<TheWorker, TheEntity, TheId>>}
      /\ Goto(w, "write file") /\ UNCHANGED <<up, index, reply>>
  BY <1>1, <1>2 DEF OpenFile, Alone, CanOpen, open_file, TheEntity, TheId
<1>4. /\ TheStep' = "write file" /\ TheEntity' = TheEntity /\ TheId' = TheId
      /\ t.method = s.method /\ t.exists = s.exists /\ t.body = s.body
      /\ t \in WorkerStates
  BY <1>1, <1>2, <1>3, GotoView DEF Steps
<1>5. /\ disk'.dirs = disk.dirs
      /\ disk'.files = [disk.files EXCEPT ![TheEntity][TheId] = Blank]
      /\ disk'.files[TheEntity][TheId] = Blank
  BY <1>2, <1>3 DEF TypeInv, TypeOK, Disks
<1>6. \A e \in Entities :
         Stored(disk', e) = Stored(disk, e) \cup (IF e = TheEntity THEN {TheId} ELSE {})
  <2>1. disk \in Disks /\ Blank # Missing
    BY ContentAssumption DEF TypeInv, TypeOK
  <2>2. TheEntity \in Entities /\ TheId \in Ids
    BY <1>2
  <2> QED
    BY <1>5, <2>1, <2>2, StoredAfter
<1>7. StoreInv'
  <2>1. IndexFollows'
    BY <1>2, <1>3, <1>4, <1>5, <1>6 DEF StoreInv, IndexFollows, Ahead
  <2>2. MethodFits'
    BY <1>2, <1>4 DEF MethodFits
  <2>3. DocumentFits'
    BY <1>2, <1>3, <1>4, <1>5 DEF DocumentFits
  <2>4. \A e \in Entities \ disk'.dirs : Stored(disk', e) = {}
    BY <1>2, <1>5, <1>6 DEF StoreInv
  <2> QED
    BY <1>2, <1>3, <2>1, <2>2, <2>3, <2>4 DEF StoreInv
<1>8. Store!BeginWrite
  <2> DEFINE r == RequestOf(s)
  <2>1. /\ r.method = s.method /\ r.entity = TheEntity /\ r.body = s.body
        /\ s.method = "post" => r.id = 0
        /\ s.method = "put" => r.id = TheId
    BY <1>2, BusyView DEF TheStep, TheEntity, TheId
  <2>2. s # Idle /\ t # Idle
    BY <1>2, <1>4, BusyView, IdleView
  <2>3. RequestOf(t) = r
    BY <1>2, <1>4, <2>2 DEF RequestOf, TheStep, TheEntity, TheId
  <2>4. TargetOf(s) = 0 /\ TargetOf(t) = TheId /\ ExistedOf(t) = s.exists
    BY <1>2, <1>4 DEF TargetOf, ExistedOf, TheStep, TheId
  <2>5. Store!Stored(TheEntity) = Documents
    BY DEF Store!Stored, Stored, Documents
  <2>6. \A i : Store!IsFree(i) <=> i \notin Documents
    BY <2>1, <2>5 DEF Store!IsFree
  <2>7. s.method = "post" => /\ TheId \notin Documents
                            /\ \A j \in Ids : j < TheId => j \in Documents
    BY <1>2 DEF StoreInv, DocumentFits
  <2>8. ExistedOf(t) = ~Store!IsFree(TargetOf(t))
    BY <1>2, <2>4, <2>6
  <2>9. disk'.files = [disk.files EXCEPT ![r.entity][TargetOf(t)] = Blank]
    BY <1>5, <2>1, <2>4
  <2>10. CASE s.method = "post"
    BY <1>2, <1>3, <1>5, <2>1, <2>3, <2>4, <2>6, <2>7, <2>8, <2>9, <2>10
    DEF Store!BeginWrite
  <2>11. CASE s.method = "put"
    BY <1>2, <1>3, <1>5, <2>1, <2>3, <2>4, <2>8, <2>9, <2>11
    DEF Store!BeginWrite
  <2> QED
    BY <1>2, <2>10, <2>11
<1>9. RequestOf(s) # Store!None
  BY <1>2, BusyView
<1> QED
  BY <1>7, <1>8, <1>9 DEF Store!Next

\* and the text is written.
LEMMA WriteStore ==
    ASSUME Alone, TypeInv, StoreInv, NEW w \in Workers, WriteFile(w)
    PROVE  StoreInv' /\ [Store!Next]_Store!vars
<1> DEFINE s == worker[TheWorker]
<1>1. w = TheWorker
  BY TheOnly
<1>2. /\ TheStep = "write file" /\ up /\ s \in WorkerStates
      /\ TheEntity \in Entities /\ TheId \in Ids
      /\ s.method \in {"post", "put"} /\ s.body \in Docs
      /\ TheEntity \in disk.dirs /\ disk.files[TheEntity][TheId] = Blank
      /\ <<TheWorker, TheEntity, TheId>> \in open
  <2>1. At(w, "write file") /\ TheStep = "write file"
    BY <1>1 DEF WriteFile, At, TheStep
  <2>2. s \in WorkerStates /\ TheEntity \in Entities /\ TheId \in Ids
        /\ s.body \in Docs
    BY <1>1, <2>1, ChosenId DEF IdSteps, BodySteps, TheEntity, TheId
  <2> QED
    BY <2>1, <2>2 DEF At, StoreInv, MethodFits, DocumentFits
<1>3. /\ disk' = [disk EXCEPT !.files[TheEntity][TheId] = s.body]
      /\ Finish(w, Saved(w)) /\ UNCHANGED <<up, index>>
  BY <1>1, <1>2 DEF WriteFile, Alone, Written, close_file, TheEntity, TheId
<1>4. /\ disk'.dirs = disk.dirs
      /\ disk'.files = [disk.files EXCEPT ![TheEntity][TheId] = s.body]
  BY <1>3 DEF TypeInv, TypeOK, Disks
<1>5. \A e \in Entities : Stored(disk', e) = Stored(disk, e)
  <2>1. TheId \in Stored(disk, TheEntity) /\ s.body # Missing
    BY <1>2, ContentAssumption DEF Stored
  <2>2. disk \in Disks
    BY DEF TypeInv, TypeOK
  <2>3. TheEntity \in Entities /\ TheId \in Ids
    BY <1>2
  <2>4. \A e \in Entities : e # TheEntity => Stored(disk', e) = Stored(disk, e)
    BY <1>4, <2>2, <2>3, StoredAfter
  <2>5. Stored(disk', TheEntity) = Stored(disk, TheEntity) \cup {TheId}
    BY <1>4, <2>1, <2>2, <2>3, StoredAfter
  <2> QED
    BY <2>1, <2>4, <2>5
<1>6. StoreInv'
  <2>1. TheStep' = "idle" /\ MethodFits' /\ DocumentFits'
    BY <1>3, FinishView
  <2>2. IndexFollows'
    BY <1>2, <1>3, <1>4, <1>5, <2>1 DEF StoreInv, IndexFollows, Ahead
  <2> QED
    BY <1>2, <1>3, <1>4, <1>5, <2>1, <2>2 DEF StoreInv
<1>7. Store!EndWrite
  <2>1. /\ RequestOf(s).method = s.method /\ RequestOf(s).entity = TheEntity
        /\ RequestOf(s).body = s.body
    BY <1>2, BusyView DEF TheEntity
  <2>2. TargetOf(s) = TheId /\ TheId # 0 /\ (ExistedOf(s) <=> s.exists)
    <3>1. TheId # 0
      <4>1. TheId \in Ids
        BY <1>2
      <4> QED
        BY <4>1, MaxIdAssumption DEF Ids
    <3>2. TargetOf(s) = TheId
      BY <1>2 DEF TargetOf, TheStep, TheId
    <3>3. ExistedOf(s) <=> s.exists
      BY <1>2 DEF ExistedOf, TheStep
    <3> QED
      BY <3>1, <3>2, <3>3
  <2>3. Saved(w) = Store!Answer(IF ExistedOf(s) THEN 200 ELSE 201, TargetOf(s),
                                Missing, {})
    BY <1>1, <2>2 DEF Saved, Plain, Store!Answer, TheId
  <2>4. Store!Reply(Saved(w))
    BY <1>3, FinishView
  <2> QED
    BY <1>2, <1>4, <2>1, <2>2, <2>3, <2>4 DEF Store!EndWrite
<1>8. RequestOf(s) # Store!None
  BY <1>2, BusyView
<1> QED
  BY <1>6, <1>7, <1>8 DEF Store!Next

\* A handler that answers from the index answers from the documents.
LEMMA AnswerStore ==
    ASSUME Alone, TypeInv, StoreInv, NEW w \in Workers, NEW answer,
           UNCHANGED <<up, index, disk>>, Finish(w, answer), Told(answer), up,
           worker[w] \in WorkerStates,
           TheStep \in {"list", "look up", "read file", "find id", "check id"}
    PROVE  StoreInv' /\ [Store!Next]_Store!vars
<1>1. StoreInv'
  BY FinishView, SameIndex
<1>2. [Store!Next]_Store!vars
  BY TellStore
<1> QED
  BY <1>1, <1>2

\* What the index says where a handler looks at it.
LEMMA IndexAgrees ==
    ASSUME Alone, TypeInv, StoreInv, NEW w \in Workers, up,
           NEW step \in {"list", "look up", "read file", "find id", "check id"},
           At(w, step)
    PROVE  /\ w = TheWorker /\ TheStep = step
           /\ worker[w] \in WorkerStates
           /\ worker[w].entity = TheEntity /\ worker[w].id = TheId
           /\ TheEntity \in Entities
           /\ TheEntity \in index.entities <=> TheEntity \in disk.dirs
           /\ index.ids[TheEntity] = Documents
           /\ TheEntity \notin disk.dirs => Documents = {}
<1>1. w = TheWorker
  BY TheOnly
<1>2. worker[w] \in WorkerStates /\ worker[w].entity \in Entities
  BY BusyType DEF TypeInv, Steps
<1>3. TheStep = step /\ worker[w].entity = TheEntity /\ worker[w].id = TheId
  BY <1>1 DEF At, TheStep, TheEntity, TheId
<1>4. index.entities = disk.dirs /\ index.ids[TheEntity] = Documents
  BY <1>2, <1>3 DEF StoreInv, IndexFollows, Ahead, Documents
<1>5. TheEntity \notin disk.dirs => Documents = {}
  BY <1>2, <1>3 DEF StoreInv, Documents
<1> QED
  BY <1>1, <1>2, <1>3, <1>4, <1>5

\* handle_list and handle_retrieve
LEMMA RetrieveStore ==
    ASSUME Alone, TypeInv, StoreInv, NEW w \in Workers,
           List(w) \/ LookUp(w) \/ ReadFile(w)
    PROVE  StoreInv' /\ [Store!Next]_Store!vars
<1>1. CASE List(w)
  <2>1. up /\ At(w, "list")
    BY <1>1 DEF List, At
  <2>2. CASE Exit
    BY <2>2, ExitStore
  <2>3. CASE ~Exit
    <3> DEFINE answer == [Plain(200) EXCEPT !.list = Documents]
    <3>1. Finish(w, answer) /\ UNCHANGED <<up, index, disk>>
      BY <1>1, <2>1, <2>3, IndexAgrees DEF List
    <3>2. worker[TheWorker].method = "get" /\ TheId = 0
      BY <2>1, IndexAgrees DEF StoreInv, MethodFits
    <3>3. Told(answer)
      BY <3>2 DEF Told
    <3> QED
      BY <2>1, <3>1, <3>3, IndexAgrees, AnswerStore
  <2> QED
    BY <2>2, <2>3
<1>2. CASE LookUp(w)
  <2>1. up /\ At(w, "look up")
    BY <1>2 DEF LookUp, At
  <2>2. /\ worker[TheWorker].method = "get" /\ TheId # 0
        /\ TheStep = "look up" /\ w = TheWorker /\ worker[w] \in WorkerStates
    BY <2>1, IndexAgrees, ChosenId DEF StoreInv, MethodFits, IdSteps
  <2>3. CASE TheId \in Documents
    <3>1. Goto(w, "read file") /\ UNCHANGED <<up, index, disk, reply>>
      <4>1. TheEntity \in disk.dirs
        BY <2>1, <2>3, IndexAgrees
      <4>2. worker[w].entity = TheEntity /\ worker[w].id = TheId
        BY <2>1, IndexAgrees
      <4>3. TheEntity \in index.entities <=> TheEntity \in disk.dirs
        BY <2>1, IndexAgrees
      <4>4. index.ids[TheEntity] = Documents
        BY <2>1, IndexAgrees
      <4>5. /\ worker[w].entity \in index.entities
            /\ worker[w].id \in index.ids[worker[w].entity]
        BY <2>3, <4>1, <4>2, <4>3, <4>4
      <4> QED
        BY <1>2, <4>5 DEF LookUp
    <3>2. /\ TheStep' = "read file" /\ TheEntity' = TheEntity /\ TheId' = TheId
          /\ worker'[TheWorker].method = worker[TheWorker].method
      BY <2>2, <3>1, GotoView DEF Steps
    <3>3. Documents' = Documents
      BY <3>1, <3>2 DEF Documents
    <3>4. MethodFits'
      BY <2>2, <3>2 DEF MethodFits
    <3>5. DocumentFits'
      BY <2>3, <3>2, <3>3 DEF DocumentFits
    <3>6. StoreInv'
      BY <2>1, <2>2, <3>1, <3>2, <3>4, <3>5, SameIndex
    <3>7. [Store!Next]_Store!vars
      BY <2>2, <3>1, GotoHidden DEF Steps
    <3> QED
      BY <3>6, <3>7
  <2>4. CASE TheId \notin Documents
    <3>1. Finish(w, Plain(404)) /\ UNCHANGED <<up, index, disk>>
      BY <1>2, <2>1, <2>4, IndexAgrees DEF LookUp
    <3>2. worker[TheWorker].method = "get" /\ TheId # 0
      BY <2>2
    <3>3. Told(Plain(404))
      BY <2>4, <3>2 DEF Told
    <3> QED
      BY <2>1, <2>2, <3>1, <3>3, AnswerStore
  <2> QED
    BY <2>3, <2>4
<1>3. CASE ReadFile(w)
  <2> DEFINE answer == [Plain(200) EXCEPT !.doc = read_file(disk, TheEntity, TheId)]
  <2>1. up /\ At(w, "read file")
    BY <1>3 DEF ReadFile, At
  <2>2. /\ worker[TheWorker].method = "get" /\ TheId \in Documents /\ TheId # 0
        /\ TheStep = "read file" /\ w = TheWorker /\ worker[w] \in WorkerStates
    BY <2>1, IndexAgrees, ChosenId DEF StoreInv, MethodFits, DocumentFits, IdSteps
  <2>3. Finish(w, answer) /\ UNCHANGED <<up, index, disk>>
    BY <1>3, <2>1, IndexAgrees DEF ReadFile
  <2>4. read_file(disk, TheEntity, TheId) = disk.files[TheEntity][TheId]
    BY <2>2 DEF read_file, Documents, Stored
  <2>5. Told(answer)
    BY <2>2, <2>4 DEF Told
  <2> QED
    BY <2>1, <2>2, <2>3, <2>5, AnswerStore
<1> QED
  BY <1>1, <1>2, <1>3

\* handle_update
LEMMA UpdateStore ==
    ASSUME Alone, TypeInv, StoreInv, NEW w \in Workers, FindId(w)
    PROVE  StoreInv' /\ [Store!Next]_Store!vars
<1> DEFINE s == worker[TheWorker]
           t == worker'[TheWorker]
           next == IF TheId \in Documents THEN "open file" ELSE "insert id"
<1>1. up /\ At(w, "find id") /\ UNCHANGED <<up, index, disk>>
  BY DEF FindId, At
<1>2. /\ w = TheWorker /\ TheStep = "find id" /\ s \in WorkerStates
      /\ worker[w].entity = TheEntity /\ worker[w].id = TheId
      /\ (TheEntity \in index.entities <=> TheEntity \in disk.dirs)
      /\ index.ids[TheEntity] = Documents
      /\ s.method = "put"
  BY <1>1, IndexAgrees DEF StoreInv, MethodFits
<1>3. CASE TheEntity \notin disk.dirs
  <2>1. Finish(w, Plain(404))
    BY <1>2, <1>3 DEF FindId
  <2>2. Told(Plain(404))
    BY <1>2, <1>3 DEF Told
  <2> QED
    BY <1>1, <1>2, <2>1, <2>2, AnswerStore
<1>4. CASE TheEntity \in disk.dirs /\ s.body = NotJson
  <2>1. Finish(w, Plain(400))
    BY <1>2, <1>4 DEF FindId
  <2>2. Told(Plain(400))
    BY <1>2, <1>4 DEF Told
  <2> QED
    BY <1>1, <1>2, <2>1, <2>2, AnswerStore
<1>5. CASE TheEntity \in disk.dirs /\ s.body # NotJson
  <2>1. /\ worker' = [worker EXCEPT ![w].exists = (TheId \in Documents),
                                   ![w].step = next]
        /\ reply' = reply
    BY <1>2, <1>5 DEF FindId
  <2>2. t = [s EXCEPT !.exists = (TheId \in Documents), !.step = next]
    BY <1>2, <2>1 DEF TypeInv, TypeOK
  <2>3. /\ TheStep' = next /\ TheEntity' = TheEntity /\ TheId' = TheId
        /\ t.method = "put" /\ (t.exists <=> TheId \in Documents)
        /\ t.body = s.body /\ t \in WorkerStates
    <3>1. s \in WorkerStates /\ s.method = "put"
      BY <1>2
    <3>2. next \in Steps /\ (TheId \in Documents) \in BOOLEAN
      BY DEF Steps
    <3>3. t.step = next /\ t.entity = s.entity /\ t.id = s.id
          /\ t.method = s.method /\ t.body = s.body
      BY <2>2, <3>1 DEF WorkerStates
    <3>4. t.exists <=> TheId \in Documents
      BY <2>2, <3>1 DEF WorkerStates
    <3>5. t \in WorkerStates
      <4> HIDE DEF next
      <4> QED
        BY <2>2, <3>1, <3>2 DEF WorkerStates
    <3> QED
      BY <3>1, <3>3, <3>4, <3>5 DEF TheStep, TheEntity, TheId
  <2>4. Documents' = Documents
    BY <1>1, <2>3 DEF Documents
  <2>5. MethodFits'
    BY <2>3 DEF MethodFits
  <2>6. DocumentFits'
    BY <1>1, <1>5, <2>3, <2>4 DEF DocumentFits
  <2>7. IndexFollows'
    <3>1. index.entities = disk.dirs
          /\ \A e \in Entities : index.ids[e] = Stored(disk, e)
      <4>1. IndexFollows /\ TheStep = "find id"
        BY <1>1, <1>2 DEF StoreInv
      <4> QED
        BY <4>1 DEF IndexFollows, Ahead
    <3>2. \A e \in Entities : Ahead(e)' \subseteq Stored(disk, e)
      BY <2>3 DEF Ahead, Documents
    <3>3. TheStep' # "make directory"
      BY <2>3
    <3> QED
      BY <1>1, <3>1, <3>2, <3>3 DEF IndexFollows
  <2>8. StoreInv'
    BY <1>1, <2>5, <2>6, <2>7 DEF StoreInv
  <2>9. s # Idle /\ t # Idle
    BY <1>2, <2>3, BusyView, IdleView
  <2>10. RequestOf(t) = RequestOf(s)
    BY <1>2, <2>3, <2>9 DEF RequestOf, TheStep, TheEntity, TheId
  <2>11. TargetOf(t) = TargetOf(s) /\ ExistedOf(t) = ExistedOf(s)
    BY <1>2, <2>3 DEF TargetOf, ExistedOf, TheStep
  <2> QED
    BY <1>1, <2>1, <2>8, <2>10, <2>11, HiddenStep
<1> QED
  BY <1>3, <1>4, <1>5

\* handle_delete
LEMMA RemoveStore ==
    ASSUME Alone, TypeInv, StoreInv, NEW w \in Workers,
           CheckId(w) \/ DeleteFile(w) \/ EraseId(w)
    PROVE  StoreInv' /\ [Store!Next]_Store!vars
<1> DEFINE s == worker[TheWorker]
           t == worker'[TheWorker]
<1>1. w = TheWorker
  BY TheOnly
<1>2. CASE CheckId(w)
  <2>1. up /\ At(w, "check id") /\ UNCHANGED <<up, index, disk>>
    BY <1>2 DEF CheckId, At
  <2>2. /\ TheStep = "check id" /\ s \in WorkerStates
        /\ worker[w].entity = TheEntity /\ worker[w].id = TheId
        /\ (TheEntity \in index.entities <=> TheEntity \in disk.dirs)
        /\ index.ids[TheEntity] = Documents
        /\ s.method = "delete"
    BY <1>1, <2>1, IndexAgrees DEF StoreInv, MethodFits
  <2>3. CASE TheEntity \notin disk.dirs
    <3>1. Finish(w, Plain(400))
      BY <1>2, <2>2, <2>3 DEF CheckId
    <3>2. Told(Plain(400))
      BY <2>2, <2>3 DEF Told
    <3> QED
      BY <1>1, <2>1, <2>2, <3>1, <3>2, AnswerStore
  <2>4. CASE TheEntity \in disk.dirs /\ TheId \notin Documents
    <3>1. Finish(w, Plain(404))
      BY <1>2, <2>2, <2>4 DEF CheckId
    <3>2. Told(Plain(404))
      BY <2>2, <2>4 DEF Told
    <3> QED
      BY <1>1, <2>1, <2>2, <3>1, <3>2, AnswerStore
  <2>5. CASE TheEntity \in disk.dirs /\ TheId \in Documents
    <3>1. Goto(w, "delete file") /\ reply' = reply
      BY <1>2, <2>2, <2>5 DEF CheckId
    <3>2. /\ TheStep' = "delete file" /\ TheEntity' = TheEntity /\ TheId' = TheId
          /\ t.method = s.method
      BY <1>1, <2>2, <3>1, GotoView DEF Steps
    <3>3. Documents' = Documents
      BY <2>1, <3>2 DEF Documents
    <3>4. MethodFits'
      BY <2>2, <3>2 DEF MethodFits
    <3>5. DocumentFits'
      BY <2>5, <3>2, <3>3 DEF DocumentFits
    <3>6. StoreInv'
      BY <2>1, <2>2, <3>2, <3>4, <3>5, SameIndex
    <3>7. [Store!Next]_Store!vars
      BY <1>1, <2>1, <2>2, <3>1, GotoHidden DEF Steps
    <3> QED
      BY <3>6, <3>7
  <2> QED
    BY <2>3, <2>4, <2>5
<1>3. ASSUME NEW step \in {"delete file", "erase id"}, At(w, step)
      PROVE  /\ TheStep = step /\ up /\ s \in WorkerStates
             /\ TheEntity \in Entities /\ TheId \in Ids /\ TheId # 0
             /\ s.method = "delete"
             /\ RequestOf(s).method = "delete" /\ RequestOf(s).id = TheId
             /\ RequestOf(s).entity = TheEntity /\ RequestOf(s) # Store!None
  <2>1. TheStep = step /\ up
    BY <1>1, <1>3 DEF At, TheStep
  <2>2. s \in WorkerStates /\ TheEntity \in Entities /\ TheId \in Ids /\ TheId # 0
    BY <1>1, <1>3, ChosenId DEF IdSteps, TheEntity, TheId
  <2>3. s.method = "delete"
    BY <2>1 DEF StoreInv, MethodFits
  <2> QED
    BY <2>1, <2>2, <2>3, BusyView DEF TheEntity, TheId
<1>4. CASE DeleteFile(w)
  <2>1. /\ At(w, "delete file") /\ UNCHANGED <<up, index, reply>>
        /\ disk' = [disk EXCEPT !.files[TheEntity][TheId] = Missing]
        /\ Goto(w, "erase id")
    BY <1>1, <1>4 DEF DeleteFile, delete_file, TheEntity, TheId
  <2>2. /\ TheStep = "delete file" /\ up /\ s \in WorkerStates
        /\ TheEntity \in Entities /\ TheId \in Ids /\ s.method = "delete"
        /\ TheId \in Documents
    BY <1>3, <2>1 DEF StoreInv, DocumentFits
  <2>3. /\ TheStep' = "erase id" /\ TheEntity' = TheEntity /\ TheId' = TheId
        /\ t.method = s.method /\ t.body = s.body /\ t \in WorkerStates
    BY <1>1, <2>1, <2>2, GotoView DEF Steps
  <2>4. /\ disk'.dirs = disk.dirs
        /\ disk'.files = [disk.files EXCEPT ![TheEntity][TheId] = Missing]
    BY <2>1 DEF TypeInv, TypeOK, Disks
  <2>5. disk \in Disks /\ TheEntity \in Entities /\ TheId \in Ids
    BY <2>2 DEF TypeInv, TypeOK
  <2>6. /\ \A e \in Entities : e # TheEntity => Stored(disk', e) = Stored(disk, e)
        /\ Stored(disk', TheEntity) = Documents \ {TheId}
    BY <2>4, <2>5, StoredAfter DEF Documents
  <2>7. IndexFollows'
    <3>1. \A e \in Entities : index.ids[e] = Stored(disk, e)
      BY <2>2 DEF StoreInv, IndexFollows, Ahead
    <3>2. \A e \in Entities : index.ids[e] = Stored(disk', e) \cup Ahead(e)'
      BY <2>2, <2>3, <2>6, <3>1 DEF Ahead, Documents
    <3>3. index.entities = disk'.dirs
      BY <2>2, <2>4 DEF StoreInv, IndexFollows
    <3> QED
      BY <2>1, <2>3, <3>2, <3>3 DEF IndexFollows
  <2>8. MethodFits'
    BY <2>2, <2>3 DEF MethodFits
  <2>9. DocumentFits'
    BY <2>3, <2>6 DEF DocumentFits, Documents
  <2>10. \A e \in Entities \ disk'.dirs : Stored(disk', e) = {}
    BY <2>4, <2>5, <2>6 DEF StoreInv, Documents
  <2>11. StoreInv'
    BY <2>1, <2>2, <2>7, <2>8, <2>9, <2>10 DEF StoreInv
  <2>12. s # Idle /\ t # Idle
    BY <2>2, <2>3, BusyView, IdleView
  <2>13. RequestOf(t) = RequestOf(s)
    BY <2>2, <2>3, <2>12 DEF RequestOf, TheEntity, TheId
  <2>14. TargetOf(t) = TheId /\ ExistedOf(t) = FALSE /\ ExistedOf(s) = FALSE
    BY <2>2, <2>3 DEF TargetOf, ExistedOf, TheStep, TheId
  <2>15. Store!Stored(TheEntity) = Documents
    BY DEF Store!Stored, Stored, Documents
  <2>16. Store!Remove
    BY <1>3, <2>1, <2>2, <2>4, <2>13, <2>14, <2>15 DEF Store!Remove
  <2> QED
    BY <1>3, <2>1, <2>11, <2>16 DEF Store!Next
<1>5. CASE EraseId(w)
  <2> DEFINE answer == [Plain(200) EXCEPT !.id = TheId]
  <2>1. /\ At(w, "erase id") /\ UNCHANGED <<up, disk>>
        /\ index' = [index EXCEPT !.ids[TheEntity] = @ \ {TheId}]
        /\ Finish(w, answer)
    BY <1>1, <1>5 DEF EraseId, TheEntity, TheId
  <2>2. /\ TheStep = "erase id" /\ up /\ TheEntity \in Entities
        /\ TheId \notin Documents
    BY <1>3, <2>1 DEF StoreInv, DocumentFits
  <2>3. TheStep' = "idle" /\ MethodFits' /\ DocumentFits' /\ Store!Reply(answer)
    BY <2>1, FinishView
  <2>4. /\ index'.entities = index.entities
        /\ index'.ids = [index.ids EXCEPT ![TheEntity] = @ \ {TheId}]
    BY <2>1 DEF TypeInv, TypeOK
  <2>5. ASSUME NEW e \in Entities PROVE index'.ids[e] = Stored(disk, e)
    <3>1. index.ids[e] = Stored(disk, e) \cup (IF TheEntity = e THEN {TheId} ELSE {})
      BY <2>2 DEF StoreInv, IndexFollows, Ahead
    <3>2. index.ids \in [Entities -> SUBSET Ids]
      BY DEF TypeInv, TypeOK
    <3>3. TheEntity \in Entities /\ TheId \notin Stored(disk, TheEntity)
      BY <2>2 DEF Documents
    <3>4. CASE e = TheEntity
      BY <2>4, <3>1, <3>2, <3>3, <3>4
    <3>5. CASE e # TheEntity
      BY <2>4, <3>1, <3>2, <3>5
    <3> QED
      BY <3>4, <3>5
  <2>6. IndexFollows'
    BY <2>1, <2>2, <2>3, <2>4, <2>5 DEF StoreInv, IndexFollows, Ahead
  <2>7. StoreInv'
    BY <2>1, <2>2, <2>3, <2>6 DEF StoreInv
  <2>8. TargetOf(s) = TheId
    BY <2>2 DEF TargetOf, TheStep, TheId
  <2>9. answer = Store!Answer(200, TargetOf(s), Missing, {})
    BY <2>8 DEF Store!Answer, Plain
  <2>10. Store!Removed
    BY <1>3, <2>1, <2>3, <2>8, <2>9 DEF Store!Removed
  <2> QED
    BY <1>3, <2>1, <2>7, <2>10 DEF Store!Next
<1> QED
  BY <1>2, <1>4, <1>5

----------------------------------------------------------------------------
\* The server starts as the abstract store does.
LEMMA StoreInit ==
    ASSUME Alone, Init
    PROVE  StoreInv /\ Store!Init
<1>1. worker[TheWorker] = Idle /\ reply[TheWorker] = Unanswered /\ ~up
  BY DEF Init, Alone
<1>2. TheStep = "idle"
  BY <1>1 DEF TheStep, Idle
<1>3. MethodFits /\ DocumentFits
  BY <1>2 DEF MethodFits, DocumentFits
<1>4. \A e \in Entities : Stored(disk, e) = {}
  BY DEF Init, Stored
<1>5. Store!Init
  BY <1>1, IdleView
  DEF Init, Store!Init, Unanswered, Plain, Store!Plain, Store!Answer
<1> QED
  BY <1>1, <1>3, <1>4, <1>5 DEF StoreInv

\* Every step of the handlers is a step of the store, or a stutter.
LEMMA StoreStep ==
    ASSUME Alone, TypeInv, StoreInv, [Next]_vars
    PROVE  StoreInv' /\ [Store!Next]_Store!vars
<1>1. CASE \E w \in Workers : Step(w)
  BY <1>1, CreateStore, InsertStore, OpenStore, WriteStore, UpdateStore,
     RetrieveStore, RemoveStore DEF Step
<1>2. CASE \E w \in Workers : \E r \in Requests : Receive(w, r)
  BY <1>2, ReceiveStore
<1>3. CASE Crash
  BY <1>3, ExitStore DEF Crash
<1>4. CASE Restart
  BY <1>4, RestartStore
<1>5. CASE UNCHANGED vars
  <2>1. worker' = worker /\ disk' = disk /\ reply' = reply /\ up' = up
        /\ index' = index /\ open' = open
    BY <1>5 DEF vars
  <2>2. StoreInv'
    BY <2>1 DEF StoreInv, IndexFollows, Ahead, MethodFits, DocumentFits,
                TheStep, TheEntity, TheId, Documents
  <2> QED
    BY <2>1, <2>2, HiddenStep
<1> QED
  BY <1>1, <1>2, <1>3, <1>4, <1>5 DEF Next

\* For one client that waits for its answers, the CRUD endpoint is a durable
\* store: whatever it sends and whenever the process stops, every step of
\* crud_handler is one DurableStore allows.
THEOREM StoreImplemented == Alone => (Spec => ImplementsStore)
<1> SUFFICES ASSUME Alone PROVE Spec => ImplementsStore
  OBVIOUS
<1>1. Init => TypeInv /\ StoreInv /\ Store!Init
  BY TypeInit, StoreInit
<1>2. TypeInv /\ StoreInv /\ [Next]_vars =>
         (TypeInv /\ StoreInv)' /\ [Store!Next]_Store!vars
  BY TypeStep, StoreStep
<1> QED
  BY <1>1, <1>2, PTL DEF Spec, ImplementsStore, Store!Spec

\* And when no request is running, a restart finds in the directory exactly
\* what the index has: for one client the index and the directory, which
\* change in separate steps, never part for good.
THEOREM RestartCorrect == Alone => (Spec => []RestartChangesNothing)
<1> SUFFICES ASSUME Alone PROVE Spec => []RestartChangesNothing
  OBVIOUS
<1>1. Init => TypeInv /\ StoreInv
  BY TypeInit, StoreInit
<1>2. TypeInv /\ StoreInv /\ [Next]_vars => (TypeInv /\ StoreInv)'
  BY TypeStep, StoreStep
<1>3. TypeInv /\ StoreInv => RestartChangesNothing
  <2> SUFFICES ASSUME TypeInv, StoreInv, up, worker[TheWorker] = Idle
                 PROVE  index = list_files(disk)
    BY DEF Alone, RestartChangesNothing
  <2>1. TheStep = "idle"
    BY DEF TheStep, Idle
  <2>2. index.entities = disk.dirs
        /\ \A e \in Entities : index.ids[e] = Stored(disk, e)
    BY <2>1 DEF StoreInv, IndexFollows, Ahead
  <2>3. \A e \in Entities :
           index.ids[e] = IF e \in disk.dirs THEN Stored(disk, e) ELSE {}
    BY <2>2 DEF StoreInv
  <2>4. index.ids = [e \in Entities |->
                        IF e \in disk.dirs THEN Stored(disk, e) ELSE {}]
    BY <2>3 DEF TypeInv, TypeOK
  <2> QED
    BY <2>2, <2>4 DEF list_files, TypeInv, TypeOK
<1> QED
  BY <1>1, <1>2, <1>3, PTL DEF Spec

=============================================================================
