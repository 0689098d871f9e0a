------------------------------- MODULE Config -------------------------------
(***************************************************************************)
(* What the server reads from a parsed configuration (NginxConfig,         *)
(* src/src/config_parser.cc), a sequence of statements [tokens,            *)
(* child_block] as ConfigParser builds it.                                 *)
(***************************************************************************)
EXTENDS ConfigParser, FiniteSets, SequencesExt

CONSTANT atoi(_)  \* the number a token stands for

HasBlock(s) == s.child_block # NoBlock

\* The name a token is, if it is a single one.
Name(token) == IF Len(token) = 1 THEN token[1] ELSE "other"

\* tokens_[0] == name
Is(s, name) == Name(s.tokens[1]) = name

----------------------------------------------------------------------------
\* Mutant: any number is a port.
InRange_Any(port) == port

InRange(port) == IF port \in 0..(2^16 - 1) THEN port ELSE -1

\* The statements of a block that are a port.
Ports(block) ==
    SelectSeq(block, LAMBDA s : ~HasBlock(s) /\ Is(s, "port") /\ Len(s.tokens) = 2)

\* The first port of the statements without a block decides, valid or not.
PortOf(block) ==
    IF Ports(block) = << >> THEN -1 ELSE InRange(atoi(Ports(block)[1].tokens[2]))

\* A block without a port of its own is left for those in it.
Inside(visit) ==
    IF Ports(visit.block) # << >> THEN {visit}
    ELSE LET owners == {i \in DOMAIN visit.block : HasBlock(visit.block[i])}
         IN  {[path |-> Append(visit.path, i), block |-> visit.block[i].child_block] : i \in owners}

\* The blocks that are come to so deep, and the way to each.
Visited(config, depth) ==
    LET visits[n \in Nat] ==
            IF n = 0 THEN {[path |-> << >>, block |-> config]}
            ELSE UNION {Inside(v) : v \in visits[n - 1]}
    IN  visits[depth]

Before(p, q) ==
    \E k \in DOMAIN p \cap DOMAIN q : p[k] < q[k] /\ \A j \in 1..(k - 1) : p[j] = q[j]

\* Of the blocks the first with a valid port.
FirstPort(config, depth) ==
    LET valid == {v \in Visited(config, depth) : PortOf(v.block) # -1}
        first == CHOOSE v \in valid : \A w \in valid : ~Before(w.path, v.path)
    IN  IF valid = {} THEN -1 ELSE PortOf(first.block)

\* No block is deeper than the file has braces.
Braces == Cardinality({i \in DOMAIN text : text[i] = "{"})

get_port_from_config(config) == FirstPort(config, Braces)

IsServer(s) == Is(s, "server") /\ HasBlock(s)

IsLocation(s) == Is(s, "location") /\ Len(s.tokens) >= 2 /\ HasBlock(s)

\* Where the handlers of locations are: in the j-th statement of the i-th.
TypedLocations(config) ==
    UNION {{<<i, j>> : j \in {j \in DOMAIN config[i].child_block :
                                /\ IsLocation(config[i].child_block[j])
                                /\ Len(config[i].child_block[j].tokens) >= 3}} :
               i \in {i \in DOMAIN config : IsServer(config[i])}}

\* The handler of each endpoint; of two locations with it, the later one's.
get_handler_types(config) ==
    LET tokens(at) == config[at[1]].child_block[at[2]].tokens
        At(e) == {at \in TypedLocations(config) : tokens(at)[2] = e}
        lastAt(e) == CHOOSE at \in At(e) :
                        \A b \in At(e) : b[1] < at[1] \/ (b[1] = at[1] /\ b[2] <= at[2])
    IN  [e \in {tokens(at)[2] : at \in TypedLocations(config)} |-> Name(tokens(lastAt(e))[3])]

\* Every root and data_path of a location, with its endpoint; an empty
\* location without a handler has an empty one.
PathsOf(location) ==
    LET roots == SelectSeq(location.child_block, LAMBDA s :
                     (Is(s, "root") \/ Is(s, "data_path")) /\ Len(s.tokens) >= 2)
        path(root) == [endpoint |-> location.tokens[2], root |-> root]
    IN  IF Len(location.tokens) = 2 /\ location.child_block = << >>
        THEN <<path(<< >>)>>
        ELSE [i \in DOMAIN roots |-> path(roots[i].tokens[2])]

get_path_from_config(config) ==
    LET servers == SelectSeq(config, IsServer)
        Paths(block) ==
            LET locations == SelectSeq(block, IsLocation)
            IN  FlattenSeq([j \in DOMAIN locations |-> PathsOf(locations[j])])
    IN  FlattenSeq([i \in DOMAIN servers |-> Paths(servers[i].child_block)])

=============================================================================
