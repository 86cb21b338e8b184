-------------------------- MODULE ConnectionRegistry --------------------------
(***************************************************************************)
(* The registry of clients (connection.py) with what uses it: the contexts *)
(* of asyncio tasks, transaction blocks, querysets that keep the client    *)
(* they were first awaited on, and Tortoise.init() and _drop_databases().  *)
(*                                                                         *)
(* A storage is a dictionary from aliases to clients.  Tasks hold their    *)
(* storage in a ContextVar: a spawned task has the dictionary of its       *)
(* parent, set() gives a task a copy.  Clients and storages are objects on *)
(* a heap; an id is used again when nothing refers to its object.  Clients *)
(* are SQLite's: a wrapper shares the connection of the client it is for.  *)
(***************************************************************************)
EXTENDS Naturals, Sequences, FiniteSets, Functions, TLC

CONSTANTS
    Tasks, Main,    \* asyncio tasks, and the one that runs first
    Aliases,        \* names of connections
    Default,        \* default_connection of the models
    Versions,       \* the configurations init() is called with, told apart
    MaxClients,     \* objects on the heap
    MaxStorages,
    MaxDepth,       \* blocks of one task inside of one another
    Features        \* what happens in this run, see Quiet, Init and Await

ASSUME RegistryAssumption ==
    /\ Main \in Tasks /\ Default \in Aliases /\ IsFiniteSet(Aliases)
    /\ Versions \subseteq Nat \ {0}
    /\ MaxClients \in Nat /\ MaxStorages \in Nat \ {0} /\ MaxDepth \in Nat
    /\ Features \subseteq {"init", "fail", "discard", "reuse", "busy", "outlive"}

None     == 0
Clients  == 1..MaxClients
Storages == 1..MaxStorages
Base     == 1       \* the default of the ContextVar, which all contexts share

VARIABLES
    config,     \* _db_config: the version of each alias's settings, None if absent
    inited,     \* Tortoise._inited
    storages,   \* the dictionaries
    context,    \* the storage of each task; None before it is spawned
    clients,    \* the client objects
    frames,     \* the open blocks of each task, the innermost last
    pc,         \* what a task is suspended in: [at, ...]
    query       \* _db of a queryset that is awaited again and again

vars == <<config, inited, storages, context, clients, frames, pc, query>>

\* parent is None for a client; for a wrapper, the client it was made from.
\* conn is "dead" when somebody else closed the connection the object holds.
Client == [alias : Aliases, built : Versions \cup {None}, parent : Clients \cup {None},
           conn : {"none", "open", "dead"}, final : BOOLEAN]
Frame  == [alias : Aliases, wrapper : Clients, token : Storages]
Idle   == [at |-> "idle"]

Empty  == [a \in Aliases |-> None]
Unused == [alias |-> Default, built |-> None, parent |-> None, conn |-> "none",
           final |-> FALSE]

Configured == {a \in Aliases : config[a] # None}
Storage(t) == storages[context[t]]
Wrappers   == {c \in Clients : clients[c].parent # None}

Init ==
    /\ config   = [a \in Aliases |-> None]
    /\ inited   = FALSE
    /\ storages = [s \in Storages |-> Empty]
    /\ context  = [t \in Tasks |-> IF t = Main THEN Base ELSE None]
    /\ clients  = [c \in Clients |-> Unused]
    /\ frames   = [t \in Tasks |-> <<>>]
    /\ pc       = [t \in Tasks |-> Idle]
    /\ query    = None

-----------------------------------------------------------------------------
(* The heap *)

Tokens(t) == {frames[t][i].token : i \in DOMAIN frames[t]}
Live == {Base} \cup {context[t] : t \in Tasks} \cup UNION {Tokens(t) : t \in Tasks}

Waiting(t) == IF pc[t].at = "locking" THEN {pc[t].wrapper} ELSE {}
Closing(t) == IF pc[t].at = "closing" THEN pc[t].left ELSE {}
Held == {query} \cup {storages[s][a] : s \in Live \ {None}, a \in Aliases}
          \cup UNION {{frames[t][i].wrapper : i \in DOMAIN frames[t]}
                        \cup Waiting(t) \cup Closing(t) : t \in Tasks}
Referenced == Held \cup {clients[c].parent : c \in Held \ {None}}

Least(S) == CHOOSE x \in S : \A y \in S : x <= y
\* An open connection stays, whoever has forgotten its client.
FreeClients  == {c \in Clients : c \notin Referenced /\ clients[c].conn = "none"}
FreeStorages == Storages \ Live

-----------------------------------------------------------------------------
(* ConnectionHandler *)

\* get(): the client of the alias, made from the configuration when the storage
\* has none.  An alias that is not configured raises ConfigurationError.
CanGet(t, a) == Storage(t)[a] # None \/ (a \in Configured /\ FreeClients # {})
Got(t, a) ==
    IF Storage(t)[a] # None
    THEN [id |-> Storage(t)[a], clients |-> clients, storages |-> storages]
    ELSE LET c == Least(FreeClients) IN
         [id       |-> c,
          clients  |-> [clients EXCEPT ![c] = [Unused EXCEPT !.alias = a, !.built = config[a]]],
          storages |-> [storages EXCEPT ![context[t]][a] = c]]

\* get() for every alias of configuration cfg, in dictionary s of st.
Missing(st, s, cfg) == {a \in Aliases : cfg[a] # None /\ st[s][a] = None}
CanMake(st, s, cfg) == Cardinality(Missing(st, s, cfg)) <= Cardinality(FreeClients)
Make(st, s, cfg) ==
    LET new  == Missing(st, s, cfg)
        pick == CHOOSE f \in [new -> FreeClients] : IsInjective(f)
        alias(c) == CHOOSE name \in new : pick[name] = c
    IN  [storages |-> [st EXCEPT ![s] = [a \in Aliases |-> IF a \in new THEN pick[a] ELSE @[a]]],
         clients  |-> [c \in Clients |->
                        IF c \in Range(pick)
                        THEN [Unused EXCEPT !.alias = alias(c), !.built = cfg[alias(c)]]
                        ELSE clients[c]]]

\* set(): a copy of the storage, with the alias changed, for this task only.
Set(t, a, c, st) ==
    LET s == Least(FreeStorages) IN
    /\ storages' = [st EXCEPT ![s] = [st[context[t]] EXCEPT ![a] = c]]
    /\ context'  = [context EXCEPT ![t] = s]

\* A bug: what the block's dictionary has comes first.
ResetKeepingOwn(t, token) ==
    /\ storages' = [storages EXCEPT ![token] =
                       [a \in Aliases |-> IF Storage(t)[a] # None THEN Storage(t)[a] ELSE @[a]]]
    /\ context'  = [context EXCEPT ![t] = token]

\* A bug: every block resets to the dictionary there was at first.
ResetToBase(t, token) == UNCHANGED storages /\ context' = [context EXCEPT ![t] = Base]

\* A bug: what only the block's dictionary has is dropped.
ResetDropping(t, token) == UNCHANGED storages /\ context' = [context EXCEPT ![t] = token]

\* reset(): back to the dictionary of the token; what only the current one has is
\* carried over.
Reset(t, token) ==
    /\ storages' = [storages EXCEPT ![token] =
                       [a \in Aliases |-> IF @[a] = None THEN Storage(t)[a] ELSE @[a]]]
    /\ context'  = [context EXCEPT ![t] = token]

-----------------------------------------------------------------------------
(* What tasks do *)

\* Connections are closed, and Tortoise is initialised, when no block is open and
\* nothing else runs, unless the application is "busy".
Quiet == "busy" \in Features \/ \A t \in Tasks : frames[t] = <<>> /\ pc[t] = Idle
Ready(t) ==
    /\ context[t] # None /\ pc[t] = Idle
    /\ "busy" \in Features \/ \A u \in Tasks : pc[u].at # "closing"

\* A statement of task t: the first one opens the connection of its client.
Opened(cl, c) ==
    IF cl[c].parent = None /\ cl[c].conn = "none" THEN [cl EXCEPT ![c].conn = "open"] ELSE cl
Use(t, a) ==
    /\ Ready(t) /\ CanGet(t, a)
    /\ storages' = Got(t, a).storages
    /\ clients'  = Opened(Got(t, a).clients, Got(t, a).id)
    /\ UNCHANGED <<config, inited, context, frames, pc, query>>

\* _choose_db(): the client the queryset was awaited on before, else the one the
\* router names, else the default; a name that is not configured counts as none.
Route(r) == IF r \in Configured THEN r ELSE Default
Await(t, r) ==
    /\ "reuse" \in Features /\ Ready(t)
    /\ \/ /\ query # None
          /\ clients' = Opened(clients, query)
          /\ UNCHANGED <<storages, query>>
       \/ /\ query = None /\ CanGet(t, Route(r))
          /\ query'    = Got(t, Route(r)).id
          /\ storages' = Got(t, Route(r)).storages
          /\ clients'  = Opened(Got(t, Route(r)).clients, Got(t, Route(r)).id)
    /\ UNCHANGED <<config, inited, context, frames, pc>>

\* in_transaction() and the head of __aenter__(): the wrapper is made from the client
\* of the alias, whose connection is opened.  (On a wrapper the block is nested and
\* leaves the registry alone.)
Enter(t, a) ==
    /\ Ready(t) /\ Len(frames[t]) < MaxDepth /\ CanGet(t, a)
    /\ LET g    == Got(t, a)
           cl   == Opened(g.clients, g.id)
           free == FreeClients \ {g.id}
       IN  /\ cl[g.id].parent = None /\ free # {}
           /\ clients'  = [cl EXCEPT ![Least(free)] =
                              [Unused EXCEPT !.alias = a, !.parent = g.id, !.conn = cl[g.id].conn]]
           /\ storages' = g.storages
           /\ pc'       = [pc EXCEPT ![t] = [at |-> "locking", wrapper |-> Least(free)]]
    /\ UNCHANGED <<config, inited, context, frames, query>>

\* A bug: the token of set() is not kept.
EnteredWithoutToken(t) ==
    /\ pc[t].at = "locking" /\ FreeStorages # {}
    /\ LET w == pc[t].wrapper IN
       /\ Set(t, clients[w].alias, w, storages)
       /\ frames' = [frames EXCEPT ![t] = Append(@, [alias |-> clients[w].alias,
                                                     wrapper |-> w, token |-> None])]
    /\ pc' = [pc EXCEPT ![t] = Idle]
    /\ UNCHANGED <<config, inited, clients, query>>

\* The rest of __aenter__(): the lock of the client, then set().
Parent(w) == clients[w].parent
Locked(c) == \E t \in Tasks : \E i \in DOMAIN frames[t] : Parent(frames[t][i].wrapper) = c
Entered(t) ==
    /\ pc[t].at = "locking" /\ FreeStorages # {}
    /\ LET w == pc[t].wrapper IN
       /\ ~Locked(Parent(w))
       /\ Set(t, clients[w].alias, w, storages)
       /\ frames' = [frames EXCEPT ![t] = Append(@, [alias   |-> clients[w].alias,
                                                     wrapper |-> w,
                                                     token   |-> context[t]])]
    /\ pc' = [pc EXCEPT ![t] = Idle]
    /\ UNCHANGED <<config, inited, clients, query>>

\* Tasks spawned inside of the block end before it, unless they "outlive" it.
Shared(t) == \E u \in Tasks \ {t} : context[t] \in {context[u]} \cup Tokens(u)
\* __aexit__(): commit or rollback, then reset().
Exit(t) ==
    /\ Ready(t) /\ frames[t] # <<>>
    /\ "outlive" \in Features \/ ~Shared(t)
    /\ LET f == frames[t][Len(frames[t])] IN
       /\ clients' = [clients EXCEPT ![f.wrapper].final = TRUE, ![f.wrapper].conn = "none"]
       /\ Reset(t, f.token)
    /\ frames' = [frames EXCEPT ![t] = SubSeq(@, 1, Len(@) - 1)]
    /\ UNCHANGED <<config, inited, pc, query>>

\* create_task(): the new task has the dictionary of its parent.
Spawn(t, u) ==
    /\ Ready(t) /\ context[u] = None
    /\ context' = [context EXCEPT ![u] = context[t]]
    /\ UNCHANGED <<config, inited, storages, clients, frames, pc, query>>

End(u) ==
    /\ Ready(u) /\ u # Main /\ frames[u] = <<>>
    /\ context' = [context EXCEPT ![u] = None]
    /\ UNCHANGED <<config, inited, storages, clients, frames, pc, query>>

\* discard(), of a client that was closed before, as its documentation asks for.
Discard(t, a) ==
    /\ "discard" \in Features /\ Ready(t) /\ Quiet
    /\ Storage(t)[a] # None /\ clients[Storage(t)[a]].conn = "none"
    /\ storages' = [storages EXCEPT ![context[t]][a] = None]
    /\ UNCHANGED <<config, inited, context, clients, frames, pc, query>>

-----------------------------------------------------------------------------
(* close_all(), and the two methods of Tortoise that begin with it *)

\* The clients of all() are closed side by side; then comes whatever the call is for.
CloseAll(t, for) ==
    /\ Ready(t) /\ Quiet /\ Configured # {}
    /\ CanMake(storages, context[t], config)
    /\ for = "init" => inited /\ "init" \in Features
    /\ for = "drop" => inited
    /\ LET g == Make(storages, context[t], config) IN
       /\ storages' = g.storages
       /\ clients'  = g.clients
       /\ pc' = [pc EXCEPT ![t] = [at   |-> "closing", for |-> for,
                                   left |-> {g.storages[context[t]][a] : a \in Configured}]]
    /\ UNCHANGED <<config, inited, context, frames, query>>

\* close(): through a wrapper it closes the connection of the client, which keeps it.
Closed(cl, c) ==
    [d \in Clients |->
        IF d = c THEN [cl[d] EXCEPT !.conn = "none"]
        ELSE IF cl[c].conn = "open" /\ cl[d].conn = "open"
                /\ (d = cl[c].parent \/ (cl[c].parent = None /\ cl[d].parent = c))
             THEN [cl[d] EXCEPT !.conn = "dead"] ELSE cl[d]]
CloseOne(t) ==
    /\ pc[t].at = "closing"
    /\ \E c \in pc[t].left :
           /\ clients' = Closed(clients, c)
           /\ pc' = [pc EXCEPT ![t].left = @ \ {c}]
    /\ UNCHANGED <<config, inited, storages, context, frames, query>>

\* A bug: the clients stay registered.
DiscardedNone(t) == storages

\* Every alias of the configuration is discarded; db_delete() finds it closed.
Discarded(t) ==
    [storages EXCEPT ![context[t]] = [a \in Aliases |-> IF a \in Configured THEN None ELSE @[a]]]
CloseDone(t) ==
    /\ pc[t].at = "closing" /\ pc[t].left = {} /\ pc[t].for \in {"discard", "drop"}
    /\ storages' = Discarded(t)
    /\ pc' = [pc EXCEPT ![t] = Idle]
    /\ UNCHANGED <<config, inited, context, clients, frames, query>>

\* The rest of init(), after close_all() when it is not the first: the configuration
\* is updated, a client made for every alias; models that do not resolve end it.
InitReady(t) ==
    \/ ~inited /\ Ready(t) /\ Quiet
    \/ inited /\ pc[t].at = "closing" /\ pc[t].left = {} /\ pc[t].for = "init"
Initialise(t, A, v, ok) ==
    /\ InitReady(t) /\ (ok \/ "fail" \in Features)
    /\ config' = [a \in Aliases |-> IF a \in A THEN v ELSE config[a]]
    /\ LET st == IF inited THEN Discarded(t) ELSE storages IN
       /\ CanMake(st, context[t], config')
       /\ storages' = Make(st, context[t], config').storages
       /\ clients'  = Make(st, context[t], config').clients
    /\ inited' = (inited \/ ok)
    /\ pc' = [pc EXCEPT ![t] = Idle]
    /\ UNCHANGED <<context, frames, query>>

Next ==
    \E t \in Tasks :
        \/ \E a \in Aliases : Use(t, a) \/ Enter(t, a) \/ Discard(t, a) \/ Await(t, a)
        \/ Entered(t) \/ Exit(t) \/ End(t) \/ CloseOne(t) \/ CloseDone(t)
        \/ \E u \in Tasks : Spawn(t, u)
        \/ \E for \in {"discard", "init", "drop"} : CloseAll(t, for)
        \/ \E A \in SUBSET Aliases, v \in Versions, ok \in BOOLEAN :
               Default \in A /\ Initialise(t, A, v, ok)

Spec == Init /\ [][Next]_vars

-----------------------------------------------------------------------------
(* Properties *)

TypeOK ==
    /\ config \in [Aliases -> Versions \cup {None}]
    /\ inited \in BOOLEAN
    /\ storages \in [Storages -> [Aliases -> Clients \cup {None}]]
    /\ context \in [Tasks -> Storages \cup {None}]
    /\ clients \in [Clients -> Client]
    /\ \A t \in Tasks : /\ Len(frames[t]) <= MaxDepth
                        /\ \A i \in DOMAIN frames[t] : frames[t][i] \in Frame
    /\ query \in Clients \cup {None}

\* connections.get() never gives the wrapper of a block that has ended: reset() may
\* carry clients from a block's dictionary to the one outside of it, wrappers never.
NoEndedWrapper ==
    \A t \in Tasks : context[t] # None =>
        \A a \in Aliases : Storage(t)[a] # None => ~clients[Storage(t)[a]].final

\* In a block of its own a task gets the innermost wrapper of the alias, whatever
\* clients it made and blocks it left since.
BlockGetsItsWrapper ==
    \A t \in Tasks : \A i \in DOMAIN frames[t] :
        LET f == frames[t][i] IN Storage(t)[f.alias] = f.wrapper

\* After every init() the registered clients were made from the settings that are in
\* force, also when aliases were added, changed or left out.
ClientsMatchConfig ==
    \A t \in Tasks : context[t] # None /\ pc[t] = Idle =>
        \A a \in Aliases :
            LET c == Storage(t)[a] IN
            c # None /\ clients[c].parent = None => clients[c].built = config[a]

\* A client with an open connection is forgotten only for another client of its
\* alias: what a block opened first stays registered when the block is left.
LostOnlyToAnother ==
    [][\A c \in Clients :
          clients[c].conn = "open" /\ clients'[c] = clients[c]
            /\ c \in Referenced /\ c \notin Referenced' =>
          \E t \in Tasks : context'[t] # None /\ Storage(t)'[clients[c].alias] \notin {None, c}]_vars

=============================================================================
