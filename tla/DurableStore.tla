---------------------------- MODULE DurableStore ----------------------------
(***************************************************************************)
(* What the CRUD endpoint promises a single client: documents in durable   *)
(* storage, under ids the store gives out, that change only as requests    *)
(* say and survive the process; a document becomes null (Blank) only while *)
(* a request is writing it, and stays null if the process ends just then.  *)
(***************************************************************************)
EXTENDS Integers

CONSTANTS Entities, Ids, Docs, NotJson, Missing, Blank

VARIABLES docs,     \* the document under each id of each entity, or Missing
          known,    \* the entities that exist
          request,  \* the request being served, or None
          target,   \* the id it has begun to write or has removed, or 0
          existed,  \* whether there was a document under that id
          reply     \* the last answer

vars == <<docs, known, request, target, existed, reply>>

None == [method |-> "none"]

Answer(status, id, doc, list) ==
    [status |-> status, id |-> id, doc |-> doc, list |-> list]
Plain(status) == Answer(status, 0, Missing, {})

Stored(e) == {i \in Ids : docs[e][i] # Missing}

Init ==
    /\ docs = [e \in Entities |-> [i \in Ids |-> Missing]]
    /\ known = {}
    /\ request = None
    /\ target = 0
    /\ existed = FALSE
    /\ reply = Plain(0)

Receive(r) ==
    /\ request = None
    /\ request' = r
    /\ reply' = Plain(0)
    /\ UNCHANGED <<docs, known, target, existed>>

Refuse(status) ==
    /\ request = None
    /\ reply' = Plain(status)
    /\ UNCHANGED <<docs, known, request, target, existed>>

\* Ending a request.
Reply(answer) ==
    /\ request' = None
    /\ target' = 0
    /\ existed' = FALSE
    /\ reply' = answer

NewEntity ==
    /\ request.method = "post"
    /\ known' = known \cup {request.entity}
    /\ UNCHANGED <<docs, request, target, existed, reply>>

IsFree(i) == i \notin Stored(request.entity)

BeginWrite ==
    /\ target = 0
    /\ request.entity \in known
    /\ \/ /\ request.method = "post" /\ request.id = 0
          /\ \E i \in Ids :
                /\ IsFree(i) /\ \A j \in Ids : j < i => ~IsFree(j)
                /\ target' = i
       \/ /\ request.method = "put" /\ request.body # NotJson
          /\ target' = request.id
    /\ existed' = ~IsFree(target')
    /\ docs' = [docs EXCEPT ![request.entity][target'] = Blank]
    /\ UNCHANGED <<known, request, reply>>

EndWrite ==
    /\ request.method \in {"post", "put"}
    /\ target # 0
    /\ docs' = [docs EXCEPT ![request.entity][target] = request.body]
    /\ Reply(Answer(IF existed THEN 200 ELSE 201, target, Missing, {}))
    /\ UNCHANGED known

Remove ==
    /\ request.method = "delete"
    /\ request.id \in Stored(request.entity)
    /\ docs' = [docs EXCEPT ![request.entity][request.id] = Missing]
    /\ target' = request.id
    /\ UNCHANGED <<known, request, existed, reply>>

Removed ==
    /\ request.method = "delete"
    /\ target # 0
    /\ Reply(Answer(200, target, Missing, {}))
    /\ UNCHANGED <<docs, known>>

\* Requests that are answered from the documents there are.
Tell ==
    LET e == request.entity
        i == request.id
    IN  /\ target = 0
        /\ CASE request.method = "post" ->
                  i # 0 /\ e \in known /\ Reply(Plain(400))
             [] request.method = "put" ->
                  \/ e \notin known /\ Reply(Plain(404))
                  \/ e \in known /\ request.body = NotJson /\ Reply(Plain(400))
             [] request.method = "delete" ->
                  \/ e \notin known /\ Reply(Plain(400))
                  \/ e \in known /\ i \notin Stored(e) /\ Reply(Plain(404))
             [] request.method = "get" /\ i = 0 ->
                  Reply(Answer(200, 0, Missing, Stored(e)))
             [] request.method = "get" /\ i # 0 ->
                  Reply(IF i \in Stored(e) THEN Answer(200, 0, docs[e][i], {})
                                           ELSE Plain(404))
        /\ UNCHANGED <<docs, known>>

\* The process ends and the request is never answered.
Abandon ==
    /\ request' = None
    /\ target' = 0
    /\ existed' = FALSE
    /\ UNCHANGED <<docs, known, reply>>

Requests ==
    [method : {"post", "get", "put", "delete"}, entity : Entities,
     id : Ids \cup {0}, body : Docs \cup {NotJson}]

Next ==
    \/ \E r \in Requests : Receive(r)
    \/ \E status \in {400, 405} : Refuse(status)
    \/ /\ request # None
       /\ NewEntity \/ BeginWrite \/ EndWrite \/ Remove \/ Removed \/ Tell
    \/ Abandon

Spec == Init /\ [][Next]_vars

=============================================================================
