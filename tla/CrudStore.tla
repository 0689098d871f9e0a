------------------------------ MODULE CrudStore ------------------------------
(***************************************************************************)
(* One thread of crud_handler serving one request after another, with      *)
(* crashes in between, implements DurableStore.                            *)
(***************************************************************************)
EXTENDS Crud

TheWorker == CHOOSE w \in Workers : TRUE

\* What the store sees of a thread that is in state s: the request it serves,
\* with the id that came with it (handle_create keeps the id it has chosen in
\* its place), and the id it has begun to write or has removed.
RequestOf(s) ==
    IF s = Idle THEN [method |-> "none"]
    ELSE [method |-> s.method,
          entity |-> s.entity,
          id     |-> IF /\ s.method = "post"
                        /\ s.step \in {"insert id", "open file", "write file"}
                     THEN 0 ELSE s.id,
          body   |-> s.body]

TargetOf(s) == IF s.step \in {"write file", "erase id"} THEN s.id ELSE 0

ExistedOf(s) == s.step = "write file" /\ s.exists

Store == INSTANCE DurableStore WITH
    docs    <- disk.files,
    known   <- disk.dirs,
    request <- RequestOf(worker[TheWorker]),
    target  <- TargetOf(worker[TheWorker]),
    existed <- ExistedOf(worker[TheWorker]),
    reply   <- reply[TheWorker]

\* A client that sends its next request when the last is answered sees a
\* durable store: every answer is the one the documents call for, and no
\* crash loses or changes a document but the one being written.
ImplementsStore == Store!Spec

=============================================================================
