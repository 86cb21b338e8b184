----------------------- MODULE ConnectionRegistryProofs -----------------------
(***************************************************************************)
(* Theorems about ConnectionRegistry: what the dictionaries of the tasks   *)
(* hold while blocks are entered and left side by side, clients are made   *)
(* and discarded, and Tortoise.init() changes the configuration; for every *)
(* set of tasks and aliases, any depth of blocks and any size of the heap. *)
(***************************************************************************)
EXTENDS ConnectionRegistry, FiniteSetTheorems, FunctionTheorems, TLAPS

-----------------------------------------------------------------------------
(* The heap *)

\* A set of numbers that is not empty has a least one.
LEMMA LeastOf ==
    ASSUME NEW S \in SUBSET Nat, S # {}
    PROVE  Least(S) \in S
<1> DEFINE R == {p \in Nat \X Nat : p[1] < p[2]}
<1>1. IsWellFoundedOn(R, Nat)
  BY NatLessThanWellFounded DEF OpToRel
<1> HIDE DEF R
<1>2. \A T : T \subseteq Nat /\ T # {} => \E x \in T : \A y \in T : ~(<<y, x>> \in R)
  BY <1>1, WFMin, Zenon
<1>3. PICK x \in S : \A y \in S : ~(<<y, x>> \in R)
  <2>1. S \subseteq Nat
    OBVIOUS
  <2> QED BY <1>2, <2>1, Zenon
<1>4. ASSUME NEW y \in S, ~(x <= y)
      PROVE  FALSE
  <2>1. y \in Nat /\ x \in Nat /\ y < x
    BY <1>4
  <2>2. <<y, x>> \in Nat \X Nat /\ <<y, x>>[1] = y /\ <<y, x>>[2] = x
    BY <2>1
  <2>3. <<y, x>> \in R
    BY <2>1, <2>2 DEF R
  <2> QED BY <1>3, <2>3
<1> QED BY <1>4 DEF Least

\* As many free ids as there are clients to make: they can be told apart.
LEMMA InjectionExists ==
    ASSUME NEW S, NEW T, IsFiniteSet(S), IsFiniteSet(T), Cardinality(S) <= Cardinality(T)
    PROVE  \E f \in [S -> T] : IsInjective(f)
<1>1. /\ Cardinality(S) \in Nat /\ ExistsBijection(1..Cardinality(S), S)
      /\ Cardinality(T) \in Nat /\ ExistsBijection(1..Cardinality(T), T)
  BY FS_CardinalityType
<1>2. ExistsBijection(S, 1..Cardinality(S))
  BY <1>1, Fun_ExistsBijSymmetric
<1>3. ExistsInjection(1..Cardinality(S), 1..Cardinality(T))
  BY <1>1, Fun_NatInjLeq
<1>4. ExistsInjection(S, 1..Cardinality(S)) /\ ExistsInjection(1..Cardinality(T), T)
  BY <1>1, <1>2 DEF ExistsBijection, ExistsInjection, Bijection
<1>5. ExistsInjection(S, T)
  BY <1>3, <1>4, Fun_ExistsInjTransitive
<1> QED BY <1>5 DEF ExistsInjection, Injection

\* Dictionaries, objects on the heap and configurations.
Dictionary  == [Aliases -> Clients \cup {None}]
Heap        == [Clients -> Client]
Configs     == [Aliases -> Versions \cup {None}]

\* Object c differs in its connection at most.
Alike(cl, c, new) ==
    /\ new[c].alias = cl[c].alias /\ new[c].built = cl[c].built
    /\ new[c].parent = cl[c].parent /\ new[c].final = cl[c].final

\* What get() does to dictionaries st and objects clients: aliases without a client in
\* dictionary s get a new one, made from configuration cfg.
Filled(st, s, cfg, new, cl) ==
    /\ new \in [Storages -> Dictionary] /\ cl \in Heap
    /\ \A r \in Storages \ {s} : new[r] = st[r]
    /\ \A a \in Aliases :
         \/ new[s][a] = st[s][a]
         \/ /\ st[s][a] = None /\ cfg[a] # None
            /\ new[s][a] \in FreeClients
            /\ cl[new[s][a]].alias = a /\ cl[new[s][a]].built = cfg[a]
            /\ cl[new[s][a]].parent = None /\ ~cl[new[s][a]].final
    /\ \A c \in Clients \ FreeClients : Alike(clients, c, cl)

LEMMA FreeOnes ==
    /\ FreeClients \subseteq Clients /\ IsFiniteSet(FreeClients)
    /\ None \notin Clients /\ Clients \subseteq Nat /\ Storages \subseteq Nat
    /\ None \notin Storages /\ Base \in Storages
    /\ FreeClients # {} => Least(FreeClients) \in FreeClients
    /\ FreeStorages # {} => Least(FreeStorages) \in FreeStorages
<1>1. /\ FreeClients \subseteq Clients /\ FreeStorages \subseteq Storages
      /\ None \notin Clients /\ Clients \subseteq Nat /\ Storages \subseteq Nat
      /\ None \notin Storages /\ Base \in Storages
  BY RegistryAssumption DEF FreeClients, FreeStorages, Clients, Storages, None, Base
<1>2. IsFiniteSet(Clients)
  BY RegistryAssumption, FS_Interval DEF Clients
<1>3. IsFiniteSet(FreeClients)
  BY <1>1, <1>2, FS_Subset
<1> QED BY <1>1, <1>3, LeastOf

LEMMA OpenedFills ==
    ASSUME NEW st, NEW s, NEW cfg, NEW new, NEW cl, Filled(st, s, cfg, new, cl),
           NEW c \in Clients
    PROVE  /\ Filled(st, s, cfg, new, Opened(cl, c))
           /\ \A d \in Clients : Alike(cl, d, Opened(cl, c))
<1>1. Opened(cl, c) \in Heap /\ \A d \in Clients : Alike(cl, d, Opened(cl, c))
  BY DEF Filled, Heap, Opened, Client, Alike
<1>2. FreeClients \subseteq Clients
  BY FreeOnes
<1> DEFINE o == Opened(cl, c)
<1> HIDE DEF o
<1>3. ASSUME NEW a \in Aliases
      PROVE  \/ new[s][a] = st[s][a]
             \/ /\ st[s][a] = None /\ cfg[a] # None
                /\ new[s][a] \in FreeClients
                /\ o[new[s][a]].alias = a /\ o[new[s][a]].built = cfg[a]
                /\ o[new[s][a]].parent = None /\ ~o[new[s][a]].final
  <2>1. CASE new[s][a] = st[s][a]
    BY <2>1
  <2>2. CASE new[s][a] # st[s][a]
    <3>1. /\ st[s][a] = None /\ cfg[a] # None
          /\ new[s][a] \in FreeClients
          /\ cl[new[s][a]].alias = a /\ cl[new[s][a]].built = cfg[a]
          /\ cl[new[s][a]].parent = None /\ ~cl[new[s][a]].final
      BY <2>2 DEF Filled
    <3>2. Alike(cl, new[s][a], o)
      BY <1>1, <1>2, <3>1 DEF o
    <3> QED BY <3>1, <3>2 DEF Alike
  <2> QED BY <2>1, <2>2
<1>4. /\ new \in [Storages -> Dictionary] /\ o \in Heap
      /\ \A r \in Storages \ {s} : new[r] = st[r]
  BY <1>1 DEF Filled, o
<1>5. ASSUME NEW d \in Clients \ FreeClients
      PROVE  Alike(clients, d, o)
  <2>1. Alike(clients, d, cl)
    BY DEF Filled
  <2>2. Alike(cl, d, o)
    BY <1>1 DEF o
  <2> QED BY <2>1, <2>2 DEF Alike
<1>6. Filled(st, s, cfg, new, o)
  BY <1>3, <1>4, <1>5, Zenon DEF Filled
<1> QED BY <1>1, <1>6 DEF o

LEMMA GotFills ==
    ASSUME TypeOK, NEW t \in Tasks, context[t] # None, NEW a \in Aliases, CanGet(t, a)
    PROVE  /\ Filled(storages, context[t], config, Got(t, a).storages, Got(t, a).clients)
           /\ Got(t, a).id \in Clients
           /\ Got(t, a).id = Got(t, a).storages[context[t]][a]
           /\ \A b \in Aliases \ {a} : Got(t, a).storages[context[t]][b] = storages[context[t]][b]
<1>1. context[t] \in Storages
  BY DEF TypeOK
<1>2. CASE Storage(t)[a] # None
  BY <1>1, <1>2 DEF Got, Filled, Storage, TypeOK, Dictionary, Heap, Alike
<1>3. CASE Storage(t)[a] = None
  <2> DEFINE c  == Least(FreeClients)
             cl == [clients EXCEPT ![c] = [Unused EXCEPT !.alias = a, !.built = config[a]]]
             st == [storages EXCEPT ![context[t]][a] = c]
  <2>1. c \in FreeClients /\ c \in Clients
    BY <1>3, FreeOnes DEF CanGet
  <2>2. Got(t, a) = [id |-> c, clients |-> cl, storages |-> st]
    BY <1>3 DEF Got
  <2>3. config[a] \in Versions \cup {None} /\ config[a] # None
    BY <1>3 DEF CanGet, Configured, TypeOK
  <2> HIDE DEF c
  <2>4. /\ cl \in Heap /\ \A d \in Clients \ {c} : cl[d] = clients[d]
        /\ cl[c].alias = a /\ cl[c].built = config[a] /\ cl[c].parent = None /\ ~cl[c].final
    BY <2>1, <2>3, RegistryAssumption DEF TypeOK, Heap, Unused, Client
  <2>5. /\ st \in [Storages -> Dictionary] /\ \A r \in Storages \ {context[t]} : st[r] = storages[r]
        /\ st[context[t]][a] = c
        /\ \A b \in Aliases \ {a} : st[context[t]][b] = storages[context[t]][b]
    BY <1>1, <2>1 DEF TypeOK, Dictionary
  <2> HIDE DEF st, cl
  <2>6. Filled(storages, context[t], config, st, cl)
    BY <1>3, <2>1, <2>3, <2>4, <2>5 DEF Filled, Alike, Storage
  <2> QED BY <2>1, <2>2, <2>5, <2>6
<1> QED BY <1>2, <1>3

\* init() and close_all() make a client for every alias of the configuration.
LEMMA MakeFills ==
    ASSUME TypeOK, NEW st \in [Storages -> Dictionary], NEW s \in Storages,
           NEW cfg \in Configs, CanMake(st, s, cfg)
    PROVE  /\ Filled(st, s, cfg, Make(st, s, cfg).storages, Make(st, s, cfg).clients)
           /\ \A a \in Aliases : cfg[a] # None => Make(st, s, cfg).storages[s][a] # None
<1> DEFINE new  == Missing(st, s, cfg)
           pick == CHOOSE f \in [new -> FreeClients] : IsInjective(f)
           of(c) == CHOOSE name \in new : pick[name] = c
           st2  == [st EXCEPT ![s] = [a \in Aliases |-> IF a \in new THEN pick[a] ELSE @[a]]]
           cl2  == [c \in Clients |->
                      IF c \in Range(pick)
                      THEN [Unused EXCEPT !.alias = of(c), !.built = cfg[of(c)]]
                      ELSE clients[c]]
<1>1. new \subseteq Aliases /\ IsFiniteSet(new)
  <2>1. new \subseteq Aliases
    BY DEF Missing
  <2> QED BY <2>1, RegistryAssumption, FS_Subset
<1>2. pick \in [new -> FreeClients] /\ IsInjective(pick)
  <2>1. \E f \in [new -> FreeClients] : IsInjective(f)
    BY <1>1, FreeOnes, InjectionExists, Zenon DEF CanMake
  <2> QED BY <2>1
<1>3. Make(st, s, cfg) = [storages |-> st2, clients |-> cl2]
  BY DEF Make
<1>4. \A a \in Aliases : a \in new <=> cfg[a] # None /\ st[s][a] = None
  BY DEF Missing
<1> HIDE DEF new, pick
<1>5. Range(pick) \subseteq FreeClients /\ \A a \in new : pick[a] \in Range(pick)
  BY <1>2 DEF Range
<1>6. \A a \in new : of(pick[a]) = a
  BY <1>2 DEF IsInjective
<1>7. \A c \in Range(pick) : of(c) \in new
  BY <1>2 DEF Range
<1> HIDE DEF of
<1>8. \A c \in Range(pick) :
        /\ cl2[c] \in Client /\ cl2[c].alias = of(c) /\ cl2[c].built = cfg[of(c)]
        /\ cl2[c].parent = None /\ ~cl2[c].final
  <2> TAKE c \in Range(pick)
  <2>1. cl2[c] = [Unused EXCEPT !.alias = of(c), !.built = cfg[of(c)]]
    BY <1>5, FreeOnes
  <2>2. of(c) \in Aliases /\ cfg[of(c)] \in Versions \cup {None}
    BY <1>1, <1>7 DEF Configs
  <2> HIDE DEF cl2
  <2> QED BY <2>1, <2>2, RegistryAssumption DEF Unused, Client
<1>9. \A c \in Clients \ Range(pick) : cl2[c] = clients[c]
  OBVIOUS
<1>10. cl2 \in Heap
  <2>1. \A c \in Clients : cl2[c] \in Client
    BY <1>8, <1>9 DEF TypeOK
  <2> QED BY <2>1 DEF Heap
<1>11. /\ st2 \in [Storages -> Dictionary] /\ \A r \in Storages \ {s} : st2[r] = st[r]
       /\ \A a \in new : st2[s][a] = pick[a]
       /\ \A a \in Aliases \ new : st2[s][a] = st[s][a]
  BY <1>1, <1>2, FreeOnes DEF Dictionary
<1> HIDE DEF st2, cl2
<1>12. Filled(st, s, cfg, st2, cl2)
  <2>1. ASSUME NEW a \in Aliases
        PROVE  \/ st2[s][a] = st[s][a]
               \/ /\ st[s][a] = None /\ cfg[a] # None
                  /\ st2[s][a] \in FreeClients
                  /\ cl2[st2[s][a]].alias = a /\ cl2[st2[s][a]].built = cfg[a]
                  /\ cl2[st2[s][a]].parent = None /\ ~cl2[st2[s][a]].final
    <3>1. CASE a \in new
      <4>1. st2[s][a] = pick[a] /\ pick[a] \in Range(pick) /\ of(pick[a]) = a
        BY <1>5, <1>6, <1>11, <3>1
      <4> QED BY <1>4, <1>5, <1>8, <3>1, <4>1
    <3>2. CASE a \notin new
      BY <1>11, <3>2
    <3> QED BY <3>1, <3>2
  <2>2. \A c \in Clients \ FreeClients : Alike(clients, c, cl2)
    BY <1>5, <1>9 DEF Alike
  <2> QED BY <1>10, <1>11, <2>1, <2>2 DEF Filled
<1>13. \A a \in Aliases : cfg[a] # None => st2[s][a] # None
  <2> TAKE a \in Aliases
  <2>1. CASE a \in new
    BY <1>2, <1>11, <2>1, FreeOnes
  <2>2. CASE a \notin new
    BY <1>4, <1>11, <2>2
  <2> QED BY <2>1, <2>2
<1> QED BY <1>3, <1>12, <1>13

-----------------------------------------------------------------------------
(* Types *)

Pcs == {Idle} \cup [at : {"locking"}, wrapper : Clients]
         \cup [at : {"closing"}, for : {"discard", "init", "drop"}, left : SUBSET Clients]

\* Only a task that has a dictionary opens blocks, or is suspended in a call.
Types ==
    /\ TypeOK
    /\ frames \in [Tasks -> Seq(Frame)]
    /\ pc \in [Tasks -> Pcs]
    /\ \A t \in Tasks : frames[t] # <<>> \/ pc[t] # Idle => context[t] # None
    /\ \A t \in Tasks : pc[t].at = "locking" => Len(frames[t]) < MaxDepth

LEMMA PcKinds ==
    ASSUME Types, NEW t \in Tasks
    PROVE  \/ pc[t] = Idle /\ pc[t].at = "idle"
           \/ pc[t].at = "locking" /\ pc[t].wrapper \in Clients
                /\ pc[t] = [at |-> "locking", wrapper |-> pc[t].wrapper]
           \/ pc[t].at = "closing" /\ pc[t].left \in SUBSET Clients
                /\ pc[t] = [at |-> "closing", for |-> pc[t].for, left |-> pc[t].left]
                /\ pc[t].for \in {"discard", "init", "drop"}
<1>1. pc[t] \in Pcs
  BY DEF Types
<1> QED BY <1>1 DEF Pcs, Idle

\* The steps that make clients in the dictionary of task t, all but init().
LEMMA UseFills ==
    ASSUME Types, NEW t \in Tasks, NEW a \in Aliases, Use(t, a)
    PROVE  /\ Filled(storages, context[t], config, storages', clients')
           /\ context[t] # None /\ pc[t] = Idle
<1>1. context[t] # None /\ pc[t] = Idle /\ CanGet(t, a)
  BY DEF Use, Ready
<1>2. Filled(storages, context[t], config, Got(t, a).storages, Got(t, a).clients)
      /\ Got(t, a).id \in Clients
  BY <1>1, GotFills DEF Types
<1>3. storages' = Got(t, a).storages /\ clients' = Opened(Got(t, a).clients, Got(t, a).id)
  BY DEF Use
<1> QED BY <1>1, <1>2, <1>3, OpenedFills

LEMMA AwaitFills ==
    ASSUME Types, NEW t \in Tasks, NEW r \in Aliases, Await(t, r)
    PROVE  /\ Filled(storages, context[t], config, storages', clients')
           /\ context[t] # None /\ pc[t] = Idle /\ query' \in Clients
<1>1. context[t] # None /\ pc[t] = Idle /\ context[t] \in Storages
  BY DEF Await, Ready, Types, TypeOK
<1>2. CASE query # None /\ clients' = Opened(clients, query) /\ UNCHANGED <<storages, query>>
  <2>1. query \in Clients
    BY <1>2 DEF Types, TypeOK
  <2>2. Filled(storages, context[t], config, storages, clients)
    BY DEF Filled, Alike, Types, TypeOK, Dictionary, Heap
  <2> QED BY <1>1, <1>2, <2>1, <2>2, OpenedFills
<1>3. CASE /\ query = None /\ CanGet(t, Route(r))
           /\ query'    = Got(t, Route(r)).id
           /\ storages' = Got(t, Route(r)).storages
           /\ clients'  = Opened(Got(t, Route(r)).clients, Got(t, Route(r)).id)
  <2>1. Route(r) \in Aliases
    BY RegistryAssumption DEF Route
  <2>2. Filled(storages, context[t], config, Got(t, Route(r)).storages, Got(t, Route(r)).clients)
        /\ Got(t, Route(r)).id \in Clients
    BY <1>1, <1>3, <2>1, GotFills DEF Types
  <2> QED BY <1>1, <1>3, <2>2, OpenedFills
<1> QED BY <1>2, <1>3 DEF Await

\* A new wrapper is in no dictionary.
LEMMA EnterFills ==
    ASSUME Types, NEW t \in Tasks, NEW a \in Aliases, Enter(t, a)
    PROVE  /\ Filled(storages, context[t], config, storages', clients')
           /\ context[t] # None /\ pc[t] = Idle /\ Len(frames[t]) < MaxDepth
           /\ \E w \in FreeClients :
                /\ pc' = [pc EXCEPT ![t] = [at |-> "locking", wrapper |-> w]]
                /\ clients'[w].alias = a /\ clients'[w].parent # None /\ ~clients'[w].final
                /\ clients'[w].parent = storages'[context[t]][a]
                /\ \A b \in Aliases : storages'[context[t]][b] # w
                /\ storages'[context[t]][a] \in Clients
                /\ clients'[storages'[context[t]][a]].parent = None
<1>1. /\ context[t] # None /\ pc[t] = Idle /\ CanGet(t, a) /\ Len(frames[t]) < MaxDepth
      /\ context[t] \in Storages
  BY DEF Enter, Ready, Types, TypeOK
<1> DEFINE g == Got(t, a)
           cl == Opened(g.clients, g.id)
           free == FreeClients \ {g.id}
           w == Least(free)
           new == [Unused EXCEPT !.alias = a, !.parent = g.id, !.conn = cl[g.id].conn]
<1>2. /\ Filled(storages, context[t], config, g.storages, g.clients)
      /\ g.id \in Clients /\ g.id = g.storages[context[t]][a]
      /\ \A b \in Aliases \ {a} : g.storages[context[t]][b] = storages[context[t]][b]
  BY <1>1, GotFills DEF Types
<1>3. /\ cl[g.id].parent = None /\ free # {} /\ clients' = [cl EXCEPT ![w] = new]
      /\ storages' = g.storages
      /\ pc' = [pc EXCEPT ![t] = [at |-> "locking", wrapper |-> w]]
  BY DEF Enter
<1> HIDE DEF g
<1>4. Filled(storages, context[t], config, storages', cl)
  BY <1>2, <1>3, OpenedFills
<1> HIDE DEF cl
<1>5. w \in FreeClients /\ w # g.id /\ w \in Clients
  <2>1. free \subseteq Nat
    BY FreeOnes
  <2>2. w \in free
    BY <1>3, <2>1, LeastOf
  <2> QED BY <2>2, FreeOnes
<1> HIDE DEF w, free
<1>6. /\ new \in Client /\ new.alias = a /\ new.parent = g.id /\ ~new.final
  <2>1. cl[g.id].conn \in {"none", "open", "dead"}
    BY <1>2, <1>4 DEF Filled, Heap, Client
  <2> QED BY <1>2, <2>1 DEF Unused, Client
<1> HIDE DEF new
<1>7. \A b \in Aliases : storages'[context[t]][b] # w
  <2>1. ASSUME NEW b \in Aliases \ {a}
        PROVE  storages[context[t]][b] # w
    <3>1. context[t] \in Live
      BY DEF Live
    <3>2. storages[context[t]][b] \in Referenced
      BY <1>1, <2>1, <3>1 DEF Held, Referenced
    <3> QED BY <1>5, <3>2 DEF FreeClients
  <2> QED BY <1>2, <1>3, <1>5, <2>1
<1>8. /\ clients' \in Heap /\ clients'[w] = new
      /\ \A d \in Clients \ {w} : clients'[d] = cl[d]
  BY <1>3, <1>4, <1>5, <1>6 DEF Filled, Heap
<1>9. Filled(storages, context[t], config, storages', clients')
  BY <1>4, <1>5, <1>7, <1>8, FreeOnes DEF Filled, Alike
<1>10. storages'[context[t]][a] = g.id
  BY <1>2, <1>3
<1>11. clients'[g.id].parent = None /\ g.id # None
  BY <1>2, <1>3, <1>5, <1>8, FreeOnes
<1> QED
  <2>1. /\ clients'[w].alias = a /\ clients'[w].parent # None /\ ~clients'[w].final
        /\ clients'[w].parent = storages'[context[t]][a]
    BY <1>6, <1>8, <1>10, <1>11
  <2> QED BY <1>1, <1>2, <1>3, <1>5, <1>7, <1>9, <1>10, <1>11, <2>1

LEMMA CloseAllFills ==
    ASSUME Types, NEW t \in Tasks, NEW for \in {"discard", "init", "drop"}, CloseAll(t, for)
    PROVE  /\ Filled(storages, context[t], config, storages', clients')
           /\ context[t] # None /\ pc[t] = Idle /\ Quiet
           /\ \E left \in SUBSET Clients :
                /\ pc' = [pc EXCEPT ![t] = [at |-> "closing", for |-> for, left |-> left]]
                /\ left = {storages'[context[t]][a] : a \in Configured}
<1>1. /\ context[t] # None /\ pc[t] = Idle /\ Quiet /\ context[t] \in Storages
      /\ CanMake(storages, context[t], config)
      /\ storages \in [Storages -> Dictionary] /\ config \in Configs
  BY DEF CloseAll, Ready, Types, TypeOK, Dictionary, Configs
<1> DEFINE g == Make(storages, context[t], config)
           left == {g.storages[context[t]][a] : a \in Configured}
<1>2. /\ Filled(storages, context[t], config, g.storages, g.clients)
      /\ \A a \in Aliases : config[a] # None => g.storages[context[t]][a] # None
  BY <1>1, MakeFills DEF Types
<1>3. /\ storages' = g.storages /\ clients' = g.clients
      /\ pc' = [pc EXCEPT ![t] = [at |-> "closing", for |-> for, left |-> left]]
  BY DEF CloseAll
<1> HIDE DEF g
<1>4. left \in SUBSET Clients
  BY <1>1, <1>2 DEF Filled, Configured, Dictionary
<1> QED BY <1>1, <1>2, <1>3, <1>4

\* What the rest of init() fills: after close_all() the configured aliases have gone.
LEMMA DiscardedTypes ==
    ASSUME Types, NEW t \in Tasks, context[t] # None
    PROVE  /\ Discarded(t) \in [Storages -> Dictionary]
           /\ \A s \in Storages, a \in Aliases :
                Discarded(t)[s][a] = IF s = context[t] /\ config[a] # None THEN None
                                     ELSE storages[s][a]
BY DEF Discarded, Configured, Types, TypeOK, Dictionary

LEMMA InitialiseFills ==
    ASSUME Types, NEW t \in Tasks, NEW A \in SUBSET Aliases, NEW v \in Versions,
           NEW ok \in BOOLEAN, Initialise(t, A, v, ok)
    PROVE  /\ Filled(IF inited THEN Discarded(t) ELSE storages, context[t], config',
                     storages', clients')
           /\ context[t] # None /\ config' \in Configs
           /\ inited => pc[t].at = "closing"
           /\ ~inited => pc[t] = Idle /\ Quiet
<1> DEFINE st == IF inited THEN Discarded(t) ELSE storages
<1>1. /\ inited => pc[t].at = "closing"
      /\ ~inited => Ready(t) /\ Quiet
  BY DEF Initialise, InitReady
<1>2. context[t] # None /\ context[t] \in Storages
  <2>1. CASE inited
    BY <1>1, <2>1 DEF Types, TypeOK, Idle
  <2>2. CASE ~inited
    BY <1>1, <2>2 DEF Ready, Types, TypeOK
  <2> QED BY <2>1, <2>2
<1>3. st \in [Storages -> Dictionary]
  BY <1>2, DiscardedTypes DEF Types, TypeOK, Dictionary
<1>4. config' = [a \in Aliases |-> IF a \in A THEN v ELSE config[a]]
  BY DEF Initialise
<1>5. config' \in Configs
  BY <1>4 DEF Configs, Types, TypeOK
<1>6. /\ CanMake(st, context[t], config')
      /\ storages' = Make(st, context[t], config').storages
      /\ clients'  = Make(st, context[t], config').clients
  BY DEF Initialise
<1> HIDE DEF st
<1>7. Filled(st, context[t], config', storages', clients')
  <2> PICK cfg \in Configs : cfg = config'
    BY <1>5
  <2>1. CanMake(st, context[t], cfg)
    BY <1>6
  <2>2. Filled(st, context[t], cfg, Make(st, context[t], cfg).storages,
               Make(st, context[t], cfg).clients)
    BY <1>2, <1>3, <2>1, MakeFills DEF Types
  <2> QED BY <1>6, <2>2
<1> QED BY <1>1, <1>2, <1>5, <1>7 DEF st, Ready

LEMMA ClosedTypes ==
    ASSUME NEW cl \in Heap, NEW c \in Clients
    PROVE  Closed(cl, c) \in Heap /\ \A d \in Clients : Alike(cl, d, Closed(cl, c))
<1>1. ASSUME NEW d \in Clients
      PROVE  Closed(cl, c)[d] \in Client /\ Alike(cl, d, Closed(cl, c))
  BY DEF Closed, Heap, Client, Alike
<1> QED BY <1>1 DEF Closed, Heap

LEMMA TypesInit == Init => Types
<1> SUFFICES ASSUME Init PROVE Types
  OBVIOUS
<1>1. Unused \in Client
  BY RegistryAssumption DEF Unused, Client
<1>2. TypeOK
  <2>1. \A t \in Tasks : frames[t] = <<>> /\ context[t] \in {Base, None}
    BY DEF Init
  <2>2. /\ context \in [Tasks -> Storages \cup {None}]
        /\ storages \in [Storages -> [Aliases -> Clients \cup {None}]]
        /\ clients \in [Clients -> Client] /\ config \in [Aliases -> Versions \cup {None}]
    BY <1>1, FreeOnes DEF Init, Empty
  <2>3. \A t \in Tasks : Len(frames[t]) = 0 /\ DOMAIN frames[t] = {}
    BY <2>1
  <2>4. inited \in BOOLEAN /\ query \in Clients \cup {None}
    BY DEF Init
  <2>5. \A t \in Tasks : Len(frames[t]) <= MaxDepth
    BY <2>3, RegistryAssumption
  <2> QED BY <2>2, <2>3, <2>4, <2>5 DEF TypeOK
<1>3. /\ frames = [t \in Tasks |-> <<>>] /\ pc = [t \in Tasks |-> Idle]
  BY DEF Init
<1>4. frames \in [Tasks -> Seq(Frame)] /\ pc \in [Tasks -> Pcs]
  BY <1>3 DEF Pcs
<1> QED BY <1>2, <1>3, <1>4 DEF Types, Idle

\* What is left to show of a step that fills a dictionary.
LEMMA FilledTypes ==
    ASSUME Types, NEW t \in Tasks, context[t] # None, NEW st, NEW cfg,
           Filled(st, context[t], cfg, storages', clients'),
           config' \in Configs, inited' \in BOOLEAN, query' \in Clients \cup {None},
           UNCHANGED <<context, frames>>,
           NEW p \in Pcs, pc' = pc \/ pc' = [pc EXCEPT ![t] = p],
           p.at = "locking" => Len(frames[t]) < MaxDepth
    PROVE  Types'
<1>1. TypeOK'
  BY DEF Types, TypeOK, Filled, Configs, Dictionary, Heap
<1>2. pc' \in [Tasks -> Pcs] /\ \A u \in Tasks : pc'[u] = pc[u] \/ (u = t /\ pc'[u] = p)
  BY DEF Types
<1> QED BY <1>1, <1>2 DEF Types

LEMMA TypesStep == Types /\ [Next]_vars => Types'
<1> SUFFICES ASSUME Types, [Next]_vars PROVE Types'
  OBVIOUS
<1> USE DEF vars
<1>1. ASSUME NEW t \in Tasks, NEW a \in Aliases, Use(t, a)
      PROVE  Types'
  <2>1. UNCHANGED <<config, inited, context, frames, pc, query>>
    BY <1>1 DEF Use
  <2>2. Filled(storages, context[t], config, storages', clients') /\ context[t] # None
    BY <1>1, UseFills
  <2> QED BY <2>1, <2>2, FilledTypes DEF Types, TypeOK, Configs, Pcs, Idle
<1>2. ASSUME NEW t \in Tasks, NEW a \in Aliases, Await(t, a)
      PROVE  Types'
  <2>1. UNCHANGED <<config, inited, context, frames, pc>>
    BY <1>2 DEF Await
  <2>2. /\ Filled(storages, context[t], config, storages', clients') /\ context[t] # None
        /\ query' \in Clients
    BY <1>2, AwaitFills
  <2> QED BY <2>1, <2>2, FilledTypes DEF Types, TypeOK, Configs, Pcs, Idle
<1>3. ASSUME NEW t \in Tasks, NEW a \in Aliases, Enter(t, a)
      PROVE  Types'
  <2>1. UNCHANGED <<config, inited, context, frames, query>>
    BY <1>3 DEF Enter
  <2>2. /\ Filled(storages, context[t], config, storages', clients') /\ context[t] # None
        /\ Len(frames[t]) < MaxDepth
    BY <1>3, EnterFills
  <2>3. PICK w \in FreeClients : pc' = [pc EXCEPT ![t] = [at |-> "locking", wrapper |-> w]]
    BY <1>3, EnterFills
  <2>4. [at |-> "locking", wrapper |-> w] \in Pcs
    BY <2>3, FreeOnes DEF Pcs
  <2> QED BY <2>1, <2>2, <2>3, <2>4, FilledTypes DEF Types, TypeOK, Configs
<1>4. ASSUME NEW t \in Tasks, NEW for \in {"discard", "init", "drop"}, CloseAll(t, for)
      PROVE  Types'
  <2>1. UNCHANGED <<config, inited, context, frames, query>>
    BY <1>4 DEF CloseAll
  <2>2. Filled(storages, context[t], config, storages', clients') /\ context[t] # None
    BY <1>4, CloseAllFills
  <2>3. PICK left \in SUBSET Clients :
          pc' = [pc EXCEPT ![t] = [at |-> "closing", for |-> for, left |-> left]]
    BY <1>4, CloseAllFills
  <2>4. [at |-> "closing", for |-> for, left |-> left] \in Pcs
    BY <2>3 DEF Pcs
  <2> QED BY <2>1, <2>2, <2>3, <2>4, FilledTypes DEF Types, TypeOK, Configs
<1>5. ASSUME NEW t \in Tasks, NEW A \in SUBSET Aliases, NEW v \in Versions,
             NEW ok \in BOOLEAN, Initialise(t, A, v, ok)
      PROVE  Types'
  <2>1. /\ UNCHANGED <<context, frames, query>> /\ pc' = [pc EXCEPT ![t] = Idle]
        /\ inited' \in BOOLEAN
    BY <1>5 DEF Initialise, Types, TypeOK
  <2>2. /\ Filled(IF inited THEN Discarded(t) ELSE storages, context[t], config',
                  storages', clients')
        /\ context[t] # None /\ config' \in Configs
    BY <1>5, InitialiseFills
  <2>3. Idle \in Pcs
    BY DEF Pcs
  <2> QED BY <2>1, <2>2, <2>3, FilledTypes DEF Types, TypeOK, Idle
<1>6. ASSUME NEW t \in Tasks, Entered(t)
      PROVE  Types'
  <2> DEFINE w == pc[t].wrapper
             s == Least(FreeStorages)
             f == [alias |-> clients[w].alias, wrapper |-> w, token |-> context[t]]
  <2>1. /\ storages' = [storages EXCEPT ![s] = [storages[context[t]] EXCEPT ![clients[w].alias] = w]]
        /\ context' = [context EXCEPT ![t] = s] /\ frames' = [frames EXCEPT ![t] = Append(@, f)]
        /\ pc' = [pc EXCEPT ![t] = Idle] /\ UNCHANGED <<config, inited, clients, query>>
    BY <1>6 DEF Entered, Set
  <2>2. /\ w \in Clients /\ context[t] \in Storages /\ Len(frames[t]) < MaxDepth
        /\ s \in Storages
    <3>1. pc[t].at = "locking" /\ FreeStorages # {}
      BY <1>6 DEF Entered
    <3> QED BY <3>1, PcKinds, FreeOnes DEF Types, TypeOK, Idle, FreeStorages
  <2> HIDE DEF s, w
  <2>3. f \in Frame /\ clients[w].alias \in Aliases
    BY <2>2 DEF Frame, Types, TypeOK, Client
  <2> HIDE DEF f
  <2>4. /\ storages' \in [Storages -> [Aliases -> Clients \cup {None}]]
        /\ context' \in [Tasks -> Storages \cup {None}] /\ context'[t] # None
        /\ \A u \in Tasks \ {t} : context'[u] = context[u]
    BY <2>1, <2>2, <2>3, FreeOnes DEF Types, TypeOK
  <2>5. /\ frames' \in [Tasks -> Seq(Frame)] /\ frames'[t] = Append(frames[t], f)
        /\ \A u \in Tasks \ {t} : frames'[u] = frames[u]
    BY <2>1, <2>3 DEF Types
  <2>6. \A u \in Tasks : Len(frames'[u]) <= MaxDepth
    BY <2>2, <2>3, <2>5, RegistryAssumption DEF Types, TypeOK
  <2>7. TypeOK'
    BY <2>1, <2>4, <2>5, <2>6 DEF Types, TypeOK
  <2>8. /\ pc' \in [Tasks -> Pcs] /\ pc'[t] = Idle
        /\ \A u \in Tasks \ {t} : pc'[u] = pc[u]
    BY <2>1 DEF Types, Pcs
  <2>9. ASSUME NEW u \in Tasks
        PROVE  /\ frames'[u] # <<>> \/ pc'[u] # Idle => context'[u] # None
               /\ pc'[u].at = "locking" => Len(frames'[u]) < MaxDepth
    <3>1. CASE u = t
      BY <2>4, <2>8, <3>1 DEF Idle
    <3>2. CASE u # t
      BY <2>4, <2>5, <2>8, <3>2 DEF Types
    <3> QED BY <3>1, <3>2
  <2> QED BY <2>5, <2>7, <2>8, <2>9 DEF Types
<1>7. ASSUME NEW t \in Tasks, Exit(t)
      PROVE  Types'
  <2> DEFINE f == frames[t][Len(frames[t])]
  <2>1. /\ storages' = [storages EXCEPT ![f.token] =
              [a \in Aliases |-> IF @[a] = None THEN storages[context[t]][a] ELSE @[a]]]
        /\ context' = [context EXCEPT ![t] = f.token]
        /\ clients' = [clients EXCEPT ![f.wrapper].final = TRUE, ![f.wrapper].conn = "none"]
        /\ frames' = [frames EXCEPT ![t] = SubSeq(@, 1, Len(@) - 1)]
        /\ UNCHANGED <<config, inited, pc, query>>
        /\ frames[t] # <<>> /\ context[t] # None /\ pc[t] = Idle
    BY <1>7 DEF Exit, Reset, Ready, Storage
  <2>2. frames[t] \in Seq(Frame) /\ Len(frames[t]) \in Nat \ {0} /\ Len(frames[t]) <= MaxDepth
    <3>1. frames[t] \in Seq(Frame)
      BY DEF Types
    <3>2. frames[t] # <<>> /\ Len(frames[t]) <= MaxDepth
      BY <2>1 DEF Types, TypeOK
    <3> QED BY <3>1, <3>2
  <2>3. f \in Frame
    BY <2>2
  <2> HIDE DEF f
  <2>4. f.token \in Storages /\ f.wrapper \in Clients /\ context[t] \in Storages
    BY <2>1, <2>3 DEF Frame, Types, TypeOK
  <2>5. storages' \in [Storages -> [Aliases -> Clients \cup {None}]]
    BY <2>1, <2>4 DEF Types, TypeOK
  <2>6. /\ context' \in [Tasks -> Storages \cup {None}] /\ context'[t] # None
        /\ \A u \in Tasks \ {t} : context'[u] = context[u]
    BY <2>1, <2>4, FreeOnes DEF Types, TypeOK
  <2>7. clients' \in [Clients -> Client]
    <3>1. clients \in [Clients -> Client]
      BY DEF Types, TypeOK
    <3> DEFINE closed == [clients[f.wrapper] EXCEPT !.final = TRUE, !.conn = "none"]
    <3>2. clients[f.wrapper] \in Client
      BY <2>4, <3>1
    <3>3. closed \in Client
      BY <3>2 DEF Client
    <3>4. clients' = [clients EXCEPT ![f.wrapper] = closed]
      BY <2>1
    <3> HIDE DEF closed
    <3> QED BY <3>1, <3>3, <3>4
  <2>8. SubSeq(frames[t], 1, Len(frames[t]) - 1) \in Seq(Frame)
        /\ Len(SubSeq(frames[t], 1, Len(frames[t]) - 1)) = Len(frames[t]) - 1
    BY <2>2
  <2>9. /\ frames' \in [Tasks -> Seq(Frame)] /\ Len(frames'[t]) = Len(frames[t]) - 1
        /\ \A u \in Tasks \ {t} : frames'[u] = frames[u]
    BY <2>1, <2>8 DEF Types
  <2>10. \A u \in Tasks : Len(frames'[u]) <= MaxDepth
    BY <2>2, <2>9, RegistryAssumption DEF Types, TypeOK
  <2>11. TypeOK'
    BY <2>1, <2>5, <2>6, <2>7, <2>9, <2>10 DEF Types, TypeOK
  <2> QED BY <2>1, <2>6, <2>9, <2>11 DEF Types, Idle
<1>8. ASSUME NEW t \in Tasks, NEW u \in Tasks, Spawn(t, u)
      PROVE  Types'
  <2>1. /\ context' = [context EXCEPT ![u] = context[t]] /\ context[t] # None
        /\ UNCHANGED <<config, inited, storages, clients, frames, pc, query>>
    BY <1>8 DEF Spawn, Ready
  <2> QED BY <2>1 DEF Types, TypeOK
<1>9. ASSUME NEW u \in Tasks, End(u)
      PROVE  Types'
  <2>1. /\ context' = [context EXCEPT ![u] = None] /\ frames[u] = <<>> /\ pc[u] = Idle
        /\ UNCHANGED <<config, inited, storages, clients, frames, pc, query>>
    BY <1>9 DEF End, Ready
  <2> QED BY <2>1 DEF Types, TypeOK
<1>10. ASSUME NEW t \in Tasks, NEW a \in Aliases, Discard(t, a)
       PROVE  Types'
  <2>1. /\ storages' = [storages EXCEPT ![context[t]][a] = None] /\ context[t] # None
        /\ UNCHANGED <<config, inited, context, clients, frames, pc, query>>
    BY <1>10 DEF Discard, Ready
  <2> QED BY <2>1 DEF Types, TypeOK
<1>11. ASSUME NEW t \in Tasks, CloseOne(t)
       PROVE  Types'
  <2>1. PICK c \in pc[t].left :
          clients' = Closed(clients, c) /\ pc' = [pc EXCEPT ![t].left = @ \ {c}]
    BY <1>11 DEF CloseOne
  <2>2. pc[t].at = "closing" /\ UNCHANGED <<config, inited, storages, context, frames, query>>
    BY <1>11 DEF CloseOne
  <2>3. /\ pc[t].left \in SUBSET Clients /\ pc[t].for \in {"discard", "init", "drop"}
        /\ pc[t] = [at |-> "closing", for |-> pc[t].for, left |-> pc[t].left]
        /\ pc[t] # Idle
    <3>1. pc[t].at # "idle" /\ pc[t].at # "locking"
      BY <2>2
    <3>2. pc[t] # Idle
      BY <3>1 DEF Idle
    <3> QED BY <3>1, <3>2, PcKinds
  <2>4. clients' \in [Clients -> Client]
    BY <2>1, <2>3, ClosedTypes DEF Heap, Types, TypeOK
  <2>5. [at |-> "closing", for |-> pc[t].for, left |-> pc[t].left \ {c}] \in Pcs
    BY <2>3 DEF Pcs
  <2>6. pc' = [pc EXCEPT ![t] = [at |-> "closing", for |-> pc[t].for, left |-> pc[t].left \ {c}]]
    <3>1. pc' = [pc EXCEPT ![t] = [pc[t] EXCEPT !.left = pc[t].left \ {c}]]
      BY <2>1 DEF Types
    <3>2. [pc[t] EXCEPT !.left = pc[t].left \ {c}]
            = [at |-> "closing", for |-> pc[t].for, left |-> pc[t].left \ {c}]
      BY <2>3
    <3> QED BY <3>1, <3>2
  <2>7. pc' \in [Tasks -> Pcs] /\ pc'[t].at = "closing" /\ \A u \in Tasks \ {t} : pc'[u] = pc[u]
    BY <2>5, <2>6 DEF Types
  <2> QED BY <2>2, <2>3, <2>4, <2>7 DEF Types, TypeOK
<1>12. ASSUME NEW t \in Tasks, CloseDone(t)
       PROVE  Types'
  <2>1. /\ pc[t].at = "closing" /\ storages' = Discarded(t) /\ pc' = [pc EXCEPT ![t] = Idle]
        /\ UNCHANGED <<config, inited, context, clients, frames, query>>
    BY <1>12 DEF CloseDone
  <2>2. context[t] # None
    BY <2>1 DEF Types, Idle
  <2>3. storages' \in [Storages -> [Aliases -> Clients \cup {None}]]
    BY <2>1, <2>2, DiscardedTypes DEF Dictionary
  <2>4. /\ pc' \in [Tasks -> Pcs] /\ pc'[t] = Idle
        /\ \A u \in Tasks \ {t} : pc'[u] = pc[u]
    BY <2>1 DEF Types, Pcs
  <2> QED BY <2>1, <2>3, <2>4 DEF Types, TypeOK, Idle
<1>13. ASSUME UNCHANGED vars
       PROVE  Types'
  BY <1>13 DEF Types, TypeOK
<1> QED BY <1>1, <1>2, <1>3, <1>4, <1>5, <1>6, <1>7, <1>8, <1>9, <1>10, <1>11, <1>12, <1>13
        DEF Next

\* Every variable keeps its type, in every run: also when clients are closed while
\* blocks are open, when init() fails and when tasks outlive the block they come from.
THEOREM RegistryTypeOK == Spec => []TypeOK
<1>1. Types => TypeOK
  BY DEF Types
<1> QED BY <1>1, TypesInit, TypesStep, PTL DEF Spec

-----------------------------------------------------------------------------
(* Blocks, of an application that is not busy while connections are closed.  *)
(* A block makes a dictionary: the token of the next block, or the context.  *)

Made(t, i) == IF i < Len(frames[t]) THEN frames[t][i + 1].token ELSE context[t]

\* While connections are closed nothing else runs.
ClosingInv ==
    \A t \in Tasks : pc[t].at = "closing" =>
        \A u \in Tasks : frames[u] = <<>> /\ (u # t => pc[u] = Idle)

\* The wrapper of a block is in its dictionary and in those of the blocks inside of it.
HoldsOwn ==
    \A t \in Tasks : \A i \in 1..Len(frames[t]) :
        /\ clients[frames[t][i].wrapper].parent # None
        /\ \A j \in i..Len(frames[t]) :
             storages[Made(t, j)][frames[t][i].alias] = frames[t][i].wrapper

\* A task that waits for a lock has no block on the same alias.
WaitsForAnother ==
    \A t \in Tasks : pc[t].at = "locking" =>
        /\ clients[pc[t].wrapper].parent # None
        /\ \A i \in 1..Len(frames[t]) : frames[t][i].alias # clients[pc[t].wrapper].alias

Blocks == Types /\ ClosingInv /\ HoldsOwn /\ WaitsForAnother

\* What a step may do to entries that blocks rely on: nothing.
Same(c) == /\ clients'[c].alias = clients[c].alias /\ clients'[c].built = clients[c].built
           /\ clients'[c].parent = clients[c].parent
EntriesStay ==
    /\ \A s \in Live \ {None}, a \in Aliases :
         storages[s][a] # None => storages'[s][a] = storages[s][a]
    /\ \A c \in Clients \ FreeClients : Same(c)

LEMMA FrameType ==
    ASSUME Types, NEW t \in Tasks, NEW i \in 1..Len(frames[t])
    PROVE  /\ frames[t] \in Seq(Frame) /\ Len(frames[t]) \in Nat /\ frames[t][i] \in Frame
           /\ frames[t][i].alias \in Aliases /\ frames[t][i].wrapper \in Clients
           /\ frames[t][i].token \in Storages /\ context[t] \in Storages
           /\ frames[t][i].token \in Live
<1>1. frames[t] \in Seq(Frame)
  BY DEF Types
<1>2. frames[t] # <<>> /\ frames[t][i] \in Frame /\ Len(frames[t]) \in Nat /\ i \in DOMAIN frames[t]
  BY <1>1
<1>3. context[t] \in Storages
  BY <1>2 DEF Types, TypeOK
<1>4. frames[t][i].token \in Live
  BY <1>2 DEF Live, Tokens
<1> QED BY <1>1, <1>2, <1>3, <1>4 DEF Frame

LEMMA MadeLive ==
    ASSUME Types, NEW t \in Tasks, NEW i \in 1..Len(frames[t])
    PROVE  Made(t, i) \in Live \ {None} /\ Made(t, i) \in Storages
<1>1. Len(frames[t]) \in Nat /\ context[t] \in Storages
  BY FrameType
<1>2. CASE i < Len(frames[t])
  <2>1. i + 1 \in 1..Len(frames[t])
    BY <1>1, <1>2
  <2> QED BY <1>2, <2>1, FrameType, FreeOnes DEF Made
<1>3. CASE ~(i < Len(frames[t]))
  BY <1>1, <1>3, FreeOnes DEF Made, Live
<1> QED BY <1>2, <1>3

\* The objects that tasks and live dictionaries refer to are not free.
LEMMA HeldStay ==
    ASSUME Types
    PROVE  /\ \A s \in Live \ {None}, a \in Aliases : storages[s][a] \notin FreeClients
           /\ \A t \in Tasks : \A i \in 1..Len(frames[t]) :
                frames[t][i].wrapper \in Clients \ FreeClients
           /\ \A t \in Tasks : pc[t].at = "locking" => pc[t].wrapper \in Clients \ FreeClients
           /\ Live \ {None} \subseteq Storages
<1>1. \A s \in Live \ {None}, a \in Aliases : storages[s][a] \in Referenced
  BY DEF Referenced, Held
<1>2. ASSUME NEW t \in Tasks, NEW i \in 1..Len(frames[t])
      PROVE  frames[t][i].wrapper \in Clients \ FreeClients
  <2>1. i \in DOMAIN frames[t]
    BY FrameType
  <2>2. frames[t][i].wrapper \in Referenced
    BY <2>1 DEF Referenced, Held
  <2> QED BY <2>2, FrameType DEF FreeClients
<1>3. ASSUME NEW t \in Tasks, pc[t].at = "locking"
      PROVE  pc[t].wrapper \in Clients \ FreeClients
  <2>1. pc[t].wrapper \in Referenced
    BY <1>3 DEF Referenced, Held, Waiting
  <2>2. pc[t].wrapper \in Clients
    BY <1>3, PcKinds
  <2> QED BY <2>1, <2>2 DEF FreeClients
<1>4. Live \ {None} \subseteq Storages
  <2>1. ASSUME NEW t \in Tasks, NEW s \in Tokens(t)
        PROVE  s \in Storages
    <3>1. PICK i \in DOMAIN frames[t] : s = frames[t][i].token
      BY DEF Tokens
    <3>2. i \in 1..Len(frames[t])
      BY DEF Types
    <3> QED BY <3>1, <3>2, FrameType
  <2>2. \A t \in Tasks : context[t] \in Storages \cup {None}
    BY DEF Types, TypeOK
  <2> QED BY <2>1, <2>2, FreeOnes DEF Live
<1> QED BY <1>1, <1>2, <1>3, <1>4 DEF FreeClients

LEMMA FilledStays ==
    ASSUME Types, NEW s, NEW cfg, Filled(storages, s, cfg, storages', clients')
    PROVE  EntriesStay
<1>1. ASSUME NEW r \in Live \ {None}, NEW a \in Aliases, storages[r][a] # None
      PROVE  storages'[r][a] = storages[r][a]
  <2>1. r \in Storages
    BY HeldStay
  <2> QED BY <1>1, <2>1 DEF Filled
<1>2. \A c \in Clients \ FreeClients : Same(c)
  BY DEF Filled, Alike, Same
<1> QED BY <1>1, <1>2 DEF EntriesStay

\* Steps that leave the blocks alone, and what blocks rely on.
LEMMA BlocksStay ==
    ASSUME Types, HoldsOwn, UNCHANGED frames, EntriesStay,
           \A t \in Tasks : frames[t] # <<>> => context'[t] = context[t]
    PROVE  HoldsOwn'
<1>1. ASSUME NEW t \in Tasks, NEW i \in 1..Len(frames[t])
      PROVE  /\ clients'[frames[t][i].wrapper].parent # None
             /\ \A j \in i..Len(frames[t]) :
                  storages'[Made(t, j)'][frames[t][i].alias] = frames[t][i].wrapper
  <2>1. clients'[frames[t][i].wrapper].parent # None
    BY HeldStay DEF EntriesStay, Same, HoldsOwn
  <2>2. frames[t] # <<>> /\ frames[t][i].alias \in Aliases /\ frames[t][i].wrapper # None
        /\ Len(frames[t]) \in Nat
    BY FrameType, FreeOnes
  <2>3. ASSUME NEW j \in i..Len(frames[t])
        PROVE  storages'[Made(t, j)'][frames[t][i].alias] = frames[t][i].wrapper
    <3>1. Made(t, j)' = Made(t, j) /\ j \in 1..Len(frames[t])
      BY <2>2 DEF Made
    <3>2. storages[Made(t, j)][frames[t][i].alias] = frames[t][i].wrapper
      BY DEF HoldsOwn
    <3>3. Made(t, j) \in Live \ {None}
      BY <3>1, MadeLive
    <3> QED BY <2>2, <3>1, <3>2, <3>3 DEF EntriesStay
  <2> QED BY <2>1, <2>3
<1> QED BY <1>1 DEF HoldsOwn

LEMMA WaitersStay ==
    ASSUME Types, WaitsForAnother, UNCHANGED frames, EntriesStay, NEW t \in Tasks,
           pc'[t] = pc[t], pc[t].at = "locking"
    PROVE  /\ clients'[pc'[t].wrapper].parent # None
           /\ \A i \in 1..Len(frames'[t]) : frames'[t][i].alias # clients'[pc'[t].wrapper].alias
BY HeldStay DEF EntriesStay, Same, WaitsForAnother

\* When every task is idle or closing, and no block is open, nothing has to be shown.
LEMMA NoBlocks ==
    ASSUME \A t \in Tasks : frames'[t] = <<>> /\ pc'[t].at # "locking"
    PROVE  HoldsOwn' /\ WaitsForAnother'
<1>1. \A t \in Tasks : Len(frames'[t]) = 0 /\ 1..Len(frames'[t]) = {}
  OBVIOUS
<1> QED BY <1>1 DEF HoldsOwn, WaitsForAnother

\* While a task is ready, or between the two halves of __aenter__(), none is closing.
LEMMA NoneClosing ==
    ASSUME "busy" \notin Features, Blocks, NEW t \in Tasks, Ready(t) \/ pc[t].at = "locking"
    PROVE  \A u \in Tasks : pc[u].at # "closing"
<1>1. CASE Ready(t)
  BY <1>1 DEF Ready
<1>2. CASE pc[t].at = "locking"
  BY <1>2 DEF Blocks, ClosingInv, Idle
<1> QED BY <1>1, <1>2

LEMMA QuietHas ==
    ASSUME "busy" \notin Features, Quiet
    PROVE  \A u \in Tasks : frames[u] = <<>> /\ pc[u] = Idle
BY DEF Quiet

\* What Entered(t) does: block n + 1 of the task has wrapper w and the new dictionary s.
LEMMA EnteredDoes ==
    ASSUME Types, NEW t \in Tasks, Entered(t), NEW w, w = pc[t].wrapper,
           NEW al, al = clients[w].alias, NEW s, s = Least(FreeStorages),
           NEW n, n = Len(frames[t]),
           NEW f, f = [alias |-> al, wrapper |-> w, token |-> context[t]]
    PROVE  /\ pc[t].at = "locking" /\ clients' = clients
           /\ w \in Clients /\ context[t] \in Storages /\ context[t] \in Live \ {None}
           /\ al \in Aliases /\ s \in Storages /\ s \notin Live /\ n \in Nat
           /\ storages'[s][al] = w
           /\ \A a \in Aliases \ {al} : storages'[s][a] = storages[context[t]][a]
           /\ \A r \in Storages \ {s} : storages'[r] = storages[r]
           /\ \A u \in Tasks \ {t} : pc'[u] = pc[u] /\ context'[u] = context[u]
           /\ pc'[t] = Idle /\ context'[t] = s
           /\ \A u \in Tasks : \A i \in 1..Len(frames[u]) :
                i \in 1..Len(frames'[u]) /\ frames'[u][i] = frames[u][i] /\ Made(u, i)' = Made(u, i)
           /\ n + 1 \in 1..Len(frames'[t]) /\ frames'[t][n + 1] = f
           /\ \A i : i = n + 1 => Made(t, i)' = s
           /\ \A u \in Tasks : \A i \in 1..Len(frames'[u]) :
                i \in 1..Len(frames[u]) \/ (u = t /\ i = n + 1)
           /\ Live' \subseteq Live \cup {s}
<1>1. /\ storages' = [storages EXCEPT ![s] = [storages[context[t]] EXCEPT ![al] = w]]
      /\ context' = [context EXCEPT ![t] = s] /\ frames' = [frames EXCEPT ![t] = Append(@, f)]
      /\ pc' = [pc EXCEPT ![t] = Idle] /\ clients' = clients
      /\ pc[t].at = "locking" /\ FreeStorages # {}
  BY DEF Entered, Set
<1>2. /\ w \in Clients /\ context[t] \in Storages /\ s \in Storages /\ s \notin Live
      /\ frames[t] \in Seq(Frame) /\ n \in Nat /\ al \in Aliases /\ context[t] \in Live \ {None}
  <2>1. context[t] \in Storages \ {None}
    BY <1>1, FreeOnes DEF Types, TypeOK, Idle
  <2>2. w \in Clients
    BY <1>1, PcKinds
  <2>3. al \in Aliases
    BY <2>2 DEF Types, TypeOK, Client
  <2>4. s \in Storages /\ s \notin Live
    BY <1>1, FreeOnes DEF FreeStorages
  <2>5. frames[t] \in Seq(Frame) /\ n \in Nat
    BY DEF Types
  <2>6. context[t] \in Live
    BY DEF Live
  <2> QED BY <2>1, <2>2, <2>3, <2>4, <2>5, <2>6
<1>3. /\ storages'[s] = [storages[context[t]] EXCEPT ![al] = w]
      /\ \A r \in Storages \ {s} : storages'[r] = storages[r]
      /\ storages[context[t]] \in [Aliases -> Clients \cup {None}]
      /\ context'[t] = s /\ \A u \in Tasks \ {t} : context'[u] = context[u]
      /\ \A u \in Tasks \ {t} : frames'[u] = frames[u] /\ pc'[u] = pc[u]
      /\ frames'[t] = Append(frames[t], f) /\ pc'[t] = Idle
  BY <1>1, <1>2 DEF Types, TypeOK
<1>4. /\ Len(frames'[t]) = n + 1 /\ frames'[t][n + 1] = f
      /\ \A i \in 1..n : frames'[t][i] = frames[t][i]
  BY <1>2, <1>3
<1>5. storages'[s][al] = w /\ \A a \in Aliases \ {al} : storages'[s][a] = storages[context[t]][a]
  BY <1>2, <1>3
<1>6. ASSUME NEW u \in Tasks, NEW i \in 1..Len(frames[u])
      PROVE  i \in 1..Len(frames'[u]) /\ frames'[u][i] = frames[u][i] /\ Made(u, i)' = Made(u, i)
  <2>1. \A k \in 1..n : Made(t, k)' = Made(t, k) /\ k \in 1..Len(frames'[t])
    BY <1>2, <1>3, <1>4 DEF Made
  <2>2. CASE u = t
    BY <1>4, <2>1, <2>2
  <2>3. CASE u # t
    BY <1>3, <2>3 DEF Made
  <2> QED BY <2>2, <2>3
<1>7. \A i : i = n + 1 => Made(t, i)' = s
  BY <1>2, <1>3, <1>4 DEF Made
<1>8. ASSUME NEW u \in Tasks, NEW i \in 1..Len(frames'[u])
      PROVE  i \in 1..Len(frames[u]) \/ (u = t /\ i = n + 1)
  BY <1>2, <1>3, <1>4
<1>9. Live' \subseteq Live \cup {s}
  <2>1. ASSUME NEW u \in Tasks, NEW r \in Tokens(u)'
        PROVE  r \in Live
    <3>1. PICK i \in DOMAIN frames'[u] : r = frames'[u][i].token
      BY DEF Tokens
    <3>2. i \in 1..Len(frames'[u])
      <4>1. f \in Frame
        BY <1>2, FreeOnes DEF Frame
      <4>2. CASE u = t
        <5>1. frames'[t] \in Seq(Frame)
          BY <1>2, <1>3, <4>1
        <5> QED BY <4>2, <5>1, <3>1
      <4>3. CASE u # t
        <5>1. frames'[u] \in Seq(Frame)
          BY <1>3, <4>3 DEF Types
        <5> QED BY <5>1, <3>1
      <4> QED BY <4>2, <4>3
    <3>3. CASE i \in 1..Len(frames[u])
      BY <1>6, <3>1, <3>3, FrameType
    <3>4. CASE u = t /\ i = n + 1
      BY <1>2, <1>4, <3>1, <3>4
    <3> QED BY <1>8, <3>2, <3>3, <3>4
  <2>2. \A u \in Tasks : context'[u] \in Live \cup {s}
    BY <1>3 DEF Live
  <2>3. Base \in Live
    BY DEF Live
  <2>4. Live' = {Base} \cup {context'[u] : u \in Tasks} \cup UNION {Tokens(u)' : u \in Tasks}
    BY DEF Live
  <2> QED BY <2>1, <2>2, <2>3, <2>4
<1>10. n + 1 \in 1..Len(frames'[t])
  BY <1>2, <1>4
<1> QED BY <1>1, <1>2, <1>3, <1>4, <1>5, <1>6, <1>7, <1>8, <1>9, <1>10

LEMMA BlocksEntered ==
    ASSUME "busy" \notin Features, Blocks, NEW t \in Tasks, Entered(t)
    PROVE  ClosingInv' /\ HoldsOwn' /\ WaitsForAnother'
<1> SUFFICES ASSUME NEW w, w = pc[t].wrapper, NEW al, al = clients[w].alias,
                    NEW s, s = Least(FreeStorages), NEW n, n = Len(frames[t]),
                    NEW f, f = [alias |-> al, wrapper |-> w, token |-> context[t]]
             PROVE  ClosingInv' /\ HoldsOwn' /\ WaitsForAnother'
  OBVIOUS
<1>0. Types
  BY DEF Blocks
<1>1. /\ pc[t].at = "locking" /\ clients' = clients /\ w \in Clients /\ n \in Nat
      /\ storages'[s][al] = w
      /\ \A a \in Aliases \ {al} : storages'[s][a] = storages[context[t]][a]
      /\ \A r \in Storages \ {s} : storages'[r] = storages[r]
      /\ \A u \in Tasks \ {t} : pc'[u] = pc[u]
      /\ pc'[t] = Idle /\ s \notin Live
  BY <1>0, EnteredDoes
<1>2. /\ \A u \in Tasks : \A i \in 1..Len(frames[u]) :
           frames'[u][i] = frames[u][i] /\ Made(u, i)' = Made(u, i)
      /\ frames'[t][n + 1] = f
      /\ \A i : i = n + 1 => Made(t, i)' = s
      /\ \A u \in Tasks : \A i \in 1..Len(frames'[u]) :
           i \in 1..Len(frames[u]) \/ (u = t /\ i = n + 1)
  BY <1>0, EnteredDoes
<1>3. /\ clients[w].parent # None
      /\ \A i \in 1..n : frames[t][i].alias # al
  BY <1>1 DEF Blocks, WaitsForAnother
<1>4. \A u \in Tasks : pc'[u].at # "closing"
  BY <1>1, NoneClosing DEF Idle
<1>5. ClosingInv'
  BY <1>4 DEF ClosingInv
<1>6. WaitsForAnother'
  <2> SUFFICES ASSUME NEW u \in Tasks, pc'[u].at = "locking", NEW i \in 1..Len(frames'[u])
               PROVE  /\ clients'[pc'[u].wrapper].parent # None
                      /\ frames'[u][i].alias # clients'[pc'[u].wrapper].alias
    <3>1. \A u \in Tasks : pc'[u].at = "locking" => clients'[pc'[u].wrapper].parent # None
      BY <1>1 DEF Idle, Blocks, WaitsForAnother
    <3> QED BY <3>1 DEF WaitsForAnother
  <2>1. u # t
    BY <1>1 DEF Idle
  <2>2. i \in 1..Len(frames[u]) /\ frames'[u][i] = frames[u][i]
    BY <1>2, <2>1
  <2> QED BY <1>1, <2>1, <2>2 DEF Blocks, WaitsForAnother
\* An entry of a dictionary that block j of task u made, now.
<1>7. ASSUME NEW u \in Tasks, NEW i \in 1..Len(frames[u]), NEW j \in i..Len(frames[u])
      PROVE  storages'[Made(u, j)][frames[u][i].alias] = frames[u][i].wrapper
  <2>1. j \in 1..Len(frames[u])
    BY <1>0, FrameType
  <2>2. Made(u, j) \in Storages \ {s}
    BY <1>0, <1>1, <2>1, MadeLive
  <2> QED BY <1>1, <2>2 DEF Blocks, HoldsOwn
<1>8. ASSUME NEW i \in 1..n
      PROVE  storages'[s][frames[t][i].alias] = frames[t][i].wrapper
  <2>1. n \in i..n /\ Made(t, n) = context[t]
    BY <1>1 DEF Made
  <2>2. storages[context[t]][frames[t][i].alias] = frames[t][i].wrapper
    BY <2>1 DEF Blocks, HoldsOwn
  <2>3. frames[t][i].alias \in Aliases \ {al}
    BY <1>0, <1>3, FrameType
  <2> QED BY <1>1, <2>2, <2>3
<1>9. HoldsOwn'
  <2> SUFFICES ASSUME NEW u \in Tasks, NEW i \in 1..Len(frames'[u]), NEW j \in i..Len(frames'[u])
               PROVE  /\ clients'[frames'[u][i].wrapper].parent # None
                      /\ storages'[Made(u, j)'][frames'[u][i].alias] = frames'[u][i].wrapper
    <3>1. \A u \in Tasks : \A i \in 1..Len(frames'[u]) : i \in i..Len(frames'[u])
      BY <1>2
    <3> QED BY <3>1 DEF HoldsOwn
  <2>1. j \in 1..Len(frames'[u])
    OBVIOUS
  <2>2. CASE i \in 1..Len(frames[u])
    <3>1. frames'[u][i] = frames[u][i] /\ clients[frames[u][i].wrapper].parent # None
      BY <1>2, <2>2 DEF Blocks, HoldsOwn
    <3>2. CASE j \in 1..Len(frames[u])
      BY <1>1, <1>2, <1>7, <2>2, <3>1, <3>2
    <3>3. CASE u = t /\ j = n + 1
      BY <1>1, <1>2, <1>8, <2>2, <3>1, <3>3
    <3> QED BY <1>2, <2>1, <3>2, <3>3
  <2>3. CASE u = t /\ i = n + 1
    <3>1. j = n + 1
      BY <1>1, <1>2, <2>1, <2>3
    <3>2. Made(u, j)' = s /\ frames'[u][i].alias = al /\ frames'[u][i].wrapper = w
      BY <1>2, <2>3, <3>1
    <3> QED BY <1>1, <1>3, <3>2
  <2> QED BY <1>2, <2>2, <2>3
<1> QED BY <1>5, <1>6, <1>9

\* What Exit(t) does: the last block of the task, with dictionary context[t], is gone.
LEMMA ExitDoes ==
    ASSUME Types, NEW t \in Tasks, Exit(t), NEW n, n = Len(frames[t]),
           NEW f, f = frames[t][n]
    PROVE  /\ n \in 1..n /\ n \in Nat /\ Ready(t) /\ pc' = pc /\ Made(t, n) = context[t]
           /\ "outlive" \in Features \/ ~Shared(t)
           /\ f.token \in Storages /\ f.wrapper \in Clients /\ f.alias \in Aliases
           /\ \A a \in Aliases :
                storages'[f.token][a] = IF storages[f.token][a] = None
                                        THEN storages[context[t]][a] ELSE storages[f.token][a]
           /\ \A r \in Storages \ {f.token} : storages'[r] = storages[r]
           /\ \A c \in Clients : Same(c)
           /\ \A c \in Clients \ {f.wrapper} : clients'[c].final = clients[c].final
           /\ \A u \in Tasks \ {t} : context'[u] = context[u]
           /\ context'[t] = f.token
           /\ \A u \in Tasks : \A i \in 1..Len(frames'[u]) :
                /\ i \in 1..Len(frames[u]) /\ frames'[u][i] = frames[u][i]
                /\ Made(u, i)' = Made(u, i) /\ (u # t \/ i # n)
           /\ \A u \in Tasks : \A i \in 1..Len(frames[u]) :
                i \in 1..Len(frames'[u]) \/ (u = t /\ i = n)
           /\ EntriesStay
<1>1. /\ storages' = [storages EXCEPT ![f.token] =
              [a \in Aliases |-> IF @[a] = None THEN storages[context[t]][a] ELSE @[a]]]
      /\ context' = [context EXCEPT ![t] = f.token]
      /\ clients' = [clients EXCEPT ![f.wrapper].final = TRUE, ![f.wrapper].conn = "none"]
      /\ frames' = [frames EXCEPT ![t] = SubSeq(@, 1, Len(@) - 1)]
      /\ pc' = pc /\ frames[t] # <<>> /\ Ready(t)
      /\ "outlive" \in Features \/ ~Shared(t)
  BY DEF Exit, Reset, Storage
<1>2. frames[t] \in Seq(Frame) /\ n \in Nat \ {0} /\ n \in 1..n
  BY <1>1 DEF Types
<1>3. /\ f.token \in Storages /\ f.wrapper \in Clients /\ f.alias \in Aliases
      /\ Made(t, n) = context[t]
  BY <1>2, FrameType DEF Made
<1>4. \A c \in Clients : Same(c) /\ (c # f.wrapper => clients'[c].final = clients[c].final)
  <2>1. \A c \in Clients \ {f.wrapper} : clients'[c] = clients[c]
    BY <1>1, <1>3 DEF Types, TypeOK
  <2>2. Same(f.wrapper)
    <3> DEFINE c == clients[f.wrapper]
               closed == [c EXCEPT !.final = TRUE, !.conn = "none"]
    <3>1. clients \in [Clients -> Client]
      BY DEF Types, TypeOK
    <3>2. c \in Client
      BY <1>3, <3>1
    <3>3. clients' = [clients EXCEPT ![f.wrapper] = closed]
      BY <1>1
    <3>4. closed.alias = c.alias /\ closed.built = c.built /\ closed.parent = c.parent
      BY <3>2 DEF Client
    <3> HIDE DEF closed
    <3>5. clients'[f.wrapper] = closed
      BY <1>3, <3>1, <3>3
    <3> QED BY <3>4, <3>5 DEF Same
  <2> QED BY <2>1, <2>2 DEF Same
<1>5. /\ \A a \in Aliases :
           storages'[f.token][a] = IF storages[f.token][a] = None
                                   THEN storages[context[t]][a] ELSE storages[f.token][a]
      /\ \A r \in Storages \ {f.token} : storages'[r] = storages[r]
  BY <1>1, <1>3 DEF Types, TypeOK
<1>6. EntriesStay
  <2>1. \A s \in Live \ {None}, a \in Aliases :
          storages[s][a] # None => storages'[s][a] = storages[s][a]
    BY <1>5, HeldStay
  <2> QED BY <1>4, <2>1 DEF EntriesStay
<1>7. /\ frames'[t] = SubSeq(frames[t], 1, n - 1) /\ context'[t] = f.token
      /\ \A u \in Tasks \ {t} : context'[u] = context[u] /\ frames'[u] = frames[u]
  BY <1>1, <1>3 DEF Types, TypeOK
<1>8. Len(frames'[t]) = n - 1 /\ \A i \in 1..(n - 1) : frames'[t][i] = frames[t][i]
  BY <1>2, <1>7
<1>9. \A i \in 1..(n - 1) : Made(t, i)' = Made(t, i)
  <2> TAKE i \in 1..(n - 1)
  <2> DEFINE before == Made(t, i)
             after == Made(t, i)'
  <2>0. /\ before = IF i < Len(frames[t]) THEN frames[t][i + 1].token ELSE context[t]
        /\ after = IF i < Len(frames'[t]) THEN frames'[t][i + 1].token ELSE context'[t]
    BY DEF Made
  <2> HIDE DEF before, after
  <2>1. CASE i < n - 1
    <3>1. i < Len(frames[t]) /\ i < Len(frames'[t]) /\ i + 1 \in 1..(n - 1)
      BY <1>2, <1>8, <2>1
    <3>2. frames'[t][i + 1] = frames[t][i + 1]
      BY <1>8, <3>1
    <3> QED BY <2>0, <3>1, <3>2 DEF before, after
  <2>2. CASE i = n - 1
    <3>1. i < Len(frames[t]) /\ ~(i < Len(frames'[t])) /\ i + 1 = n
      BY <1>2, <1>8, <2>2
    <3> QED BY <1>7, <2>0, <3>1 DEF before, after
  <2> QED BY <1>2, <2>1, <2>2
<1>10. ASSUME NEW u \in Tasks, NEW i \in 1..Len(frames'[u])
       PROVE  /\ i \in 1..Len(frames[u]) /\ frames'[u][i] = frames[u][i]
              /\ Made(u, i)' = Made(u, i) /\ (u # t \/ i # n)
  <2>1. CASE u = t
    BY <1>2, <1>8, <1>9, <2>1
  <2>2. CASE u # t
    BY <1>7, <2>2 DEF Made
  <2> QED BY <2>1, <2>2
<1>11. ASSUME NEW u \in Tasks, NEW i \in 1..Len(frames[u])
       PROVE  i \in 1..Len(frames'[u]) \/ (u = t /\ i = n)
  BY <1>2, <1>7, <1>8
<1> QED BY <1>1, <1>2, <1>3, <1>4, <1>5, <1>6, <1>7, <1>10, <1>11

LEMMA BlocksExit ==
    ASSUME "busy" \notin Features, Blocks, NEW t \in Tasks, Exit(t)
    PROVE  ClosingInv' /\ HoldsOwn' /\ WaitsForAnother'
<1> SUFFICES ASSUME NEW n, n = Len(frames[t]), NEW f, f = frames[t][n]
             PROVE  ClosingInv' /\ HoldsOwn' /\ WaitsForAnother'
  OBVIOUS
<1>0. Types
  BY DEF Blocks
<1>1. /\ Ready(t) /\ pc' = pc /\ EntriesStay
      /\ \A u \in Tasks : \A i \in 1..Len(frames'[u]) :
           i \in 1..Len(frames[u]) /\ frames'[u][i] = frames[u][i] /\ Made(u, i)' = Made(u, i)
  BY <1>0, ExitDoes
<1>2. ClosingInv'
  BY <1>1, NoneClosing DEF ClosingInv
<1>3. WaitsForAnother'
  <2> SUFFICES ASSUME NEW u \in Tasks, pc[u].at = "locking"
               PROVE  /\ clients'[pc[u].wrapper].parent # None
                      /\ \A i \in 1..Len(frames'[u]) :
                           frames'[u][i].alias # clients'[pc[u].wrapper].alias
    BY <1>1 DEF WaitsForAnother
  <2>1. pc[u].wrapper \in Clients \ FreeClients
    BY <1>0, HeldStay
  <2> DEFINE w == pc[u].wrapper
  <2>2. Same(w)
    BY <1>1, <2>1 DEF EntriesStay
  <2>3. /\ clients[w].parent # None
        /\ \A i \in 1..Len(frames[u]) : frames[u][i].alias # clients[w].alias
    BY DEF Blocks, WaitsForAnother
  <2>4. clients'[w].parent = clients[w].parent /\ clients'[w].alias = clients[w].alias
    BY <2>2 DEF Same
  <2>5. \A i \in 1..Len(frames'[u]) :
            i \in 1..Len(frames[u]) /\ frames'[u][i] = frames[u][i]
    BY <1>1
  <2> HIDE DEF w
  <2>6. clients'[w].parent # None
    BY <2>3, <2>4
  <2>7. \A i \in 1..Len(frames'[u]) : frames'[u][i].alias # clients'[w].alias
    BY <2>3, <2>4, <2>5
  <2> QED BY <2>6, <2>7 DEF w
<1>4. HoldsOwn'
  <2> SUFFICES ASSUME NEW u \in Tasks, NEW i \in 1..Len(frames'[u]), NEW j \in i..Len(frames'[u])
               PROVE  /\ clients'[frames'[u][i].wrapper].parent # None
                      /\ storages'[Made(u, j)'][frames'[u][i].alias] = frames'[u][i].wrapper
    <3>1. \A u \in Tasks : \A i \in 1..Len(frames'[u]) : i \in i..Len(frames'[u])
      BY <1>1
    <3> QED BY <3>1 DEF HoldsOwn
  <2>1. /\ i \in 1..Len(frames[u]) /\ frames'[u][i] = frames[u][i]
        /\ j \in 1..Len(frames[u]) /\ Made(u, j)' = Made(u, j) /\ j \in i..Len(frames[u])
    <3>1. j \in 1..Len(frames'[u])
      OBVIOUS
    <3> QED BY <1>1, <3>1
  <2>2. /\ clients[frames[u][i].wrapper].parent # None
        /\ storages[Made(u, j)][frames[u][i].alias] = frames[u][i].wrapper
    BY <2>1 DEF Blocks, HoldsOwn
  <2>3. /\ Made(u, j) \in Live \ {None} /\ frames[u][i].alias \in Aliases
        /\ frames[u][i].wrapper # None /\ frames[u][i].wrapper \in Clients \ FreeClients
    BY <1>0, <2>1, MadeLive, FrameType, FreeOnes, HeldStay
  <2> QED BY <1>1, <2>1, <2>2, <2>3 DEF EntriesStay, Same
<1> QED BY <1>2, <1>3, <1>4

LEMMA CloseOneDoes ==
    ASSUME Types, NEW t \in Tasks, CloseOne(t)
    PROVE  /\ pc[t].at = "closing" /\ pc'[t].at = "closing"
           /\ \A u \in Tasks \ {t} : pc'[u] = pc[u]
           /\ \A c \in Clients : Alike(clients, c, clients')
           /\ \A c \in Clients : clients'[c].conn = "open" => clients[c].conn = "open"
           /\ \E c \in Clients : pc'[t].left = pc[t].left \ {c} /\ clients'[c].conn = "none"
<1>1. pc[t].at = "closing"
  BY DEF CloseOne
<1>2. PICK c \in pc[t].left :
        clients' = Closed(clients, c) /\ pc' = [pc EXCEPT ![t].left = @ \ {c}]
  BY DEF CloseOne
<1>3. /\ pc[t] = [at |-> "closing", for |-> pc[t].for, left |-> pc[t].left]
      /\ pc[t].left \in SUBSET Clients
  <2>1. pc[t].at # "idle" /\ pc[t].at # "locking"
    BY <1>1
  <2> QED BY <2>1, PcKinds
<1>4. \A u \in Tasks \ {t} : pc'[u] = pc[u]
  BY <1>2 DEF Types
<1>5. pc'[t] = [pc[t] EXCEPT !.left = pc[t].left \ {c}]
  BY <1>2 DEF Types
<1>6. pc'[t].at = "closing" /\ pc'[t].left = pc[t].left \ {c}
  BY <1>3, <1>5
<1>7. \A x \in Clients : Alike(clients, x, clients')
  BY <1>2, <1>3, ClosedTypes DEF Types, TypeOK, Heap
<1>8. /\ c \in Clients /\ clients'[c].conn = "none"
      /\ \A x \in Clients : clients'[x].conn = "open" => clients[x].conn = "open"
  BY <1>2, <1>3 DEF Closed, Types, TypeOK, Client
<1> QED BY <1>1, <1>4, <1>6, <1>7, <1>8

LEMMA BlocksStep ==
    ASSUME "busy" \notin Features
    PROVE  Blocks /\ [Next]_vars => Blocks'
<1> SUFFICES ASSUME Blocks, [Next]_vars PROVE ClosingInv' /\ HoldsOwn' /\ WaitsForAnother'
  BY TypesStep DEF Blocks
<1> USE DEF vars
<1>0. Types
  BY DEF Blocks
<1>1. ASSUME NEW t \in Tasks, EntriesStay, Ready(t), UNCHANGED <<frames, pc>>,
             \A u \in Tasks : frames[u] # <<>> => context'[u] = context[u]
      PROVE  ClosingInv' /\ HoldsOwn' /\ WaitsForAnother'
  <2>1. ClosingInv'
    BY <1>1, NoneClosing DEF ClosingInv
  <2>2. HoldsOwn'
    BY <1>0, <1>1, BlocksStay DEF Blocks
  <2>3. WaitsForAnother'
    <3> SUFFICES ASSUME NEW u \in Tasks, pc'[u].at = "locking"
                 PROVE  /\ clients'[pc'[u].wrapper].parent # None
                        /\ \A i \in 1..Len(frames'[u]) :
                             frames'[u][i].alias # clients'[pc'[u].wrapper].alias
      BY DEF WaitsForAnother
    <3> QED BY <1>0, <1>1, WaitersStay DEF Blocks
  <2> QED BY <2>1, <2>2, <2>3
<1>2. ASSUME NEW t \in Tasks, NEW a \in Aliases, Use(t, a)
      PROVE  ClosingInv' /\ HoldsOwn' /\ WaitsForAnother'
  <2>1. UNCHANGED <<context, frames, pc>> /\ Ready(t)
    BY <1>2 DEF Use
  <2> QED BY <1>0, <1>1, <1>2, <2>1, UseFills, FilledStays
<1>3. ASSUME NEW t \in Tasks, NEW a \in Aliases, Await(t, a)
      PROVE  ClosingInv' /\ HoldsOwn' /\ WaitsForAnother'
  <2>1. UNCHANGED <<context, frames, pc>> /\ Ready(t)
    BY <1>3 DEF Await
  <2> QED BY <1>0, <1>1, <1>3, <2>1, AwaitFills, FilledStays
<1>4. ASSUME NEW t \in Tasks, NEW a \in Aliases, Enter(t, a)
      PROVE  ClosingInv' /\ HoldsOwn' /\ WaitsForAnother'
  <2>1. UNCHANGED <<context, frames>> /\ Ready(t)
    BY <1>4 DEF Enter
  <2>2. EntriesStay
    BY <1>0, <1>4, EnterFills, FilledStays
  <2>3. PICK w \in FreeClients :
          /\ pc' = [pc EXCEPT ![t] = [at |-> "locking", wrapper |-> w]]
          /\ clients'[w].alias = a /\ clients'[w].parent # None
          /\ storages'[context[t]][a] \in Clients
          /\ clients'[storages'[context[t]][a]].parent = None
    BY <1>0, <1>4, EnterFills
  <2>4. /\ \A u \in Tasks \ {t} : pc'[u] = pc[u]
        /\ pc'[t].at = "locking" /\ pc'[t].wrapper = w
    BY <1>0, <2>3 DEF Types
  <2>5. ClosingInv'
    BY <2>1, <2>4, NoneClosing DEF ClosingInv
  <2>6. HoldsOwn'
    BY <1>0, <2>1, <2>2, BlocksStay DEF Blocks
  <2>7. ASSUME NEW i \in 1..Len(frames[t])
        PROVE  frames[t][i].alias # a
    <3>1. /\ frames'[t] = frames[t] /\ i \in 1..Len(frames'[t]) /\ Len(frames[t]) \in i..Len(frames[t])
      BY <1>0, <2>1, FrameType
    <3>2. Made(t, Len(frames[t]))' = context[t]
      BY <1>0, <2>1, <3>1, FrameType DEF Made
    <3>3. /\ clients'[frames[t][i].wrapper].parent # None
          /\ storages'[context[t]][frames[t][i].alias] = frames[t][i].wrapper
      BY <2>1, <2>6, <3>1, <3>2 DEF HoldsOwn
    <3> QED BY <2>3, <3>3
  <2>8. WaitsForAnother'
    <3> SUFFICES ASSUME NEW u \in Tasks, pc'[u].at = "locking"
                 PROVE  /\ clients'[pc'[u].wrapper].parent # None
                        /\ \A i \in 1..Len(frames'[u]) :
                             frames'[u][i].alias # clients'[pc'[u].wrapper].alias
      BY DEF WaitsForAnother
    <3>1. CASE u = t
      BY <2>1, <2>3, <2>4, <2>7, <3>1
    <3>2. CASE u # t
      BY <1>0, <2>1, <2>2, <2>4, <3>2, WaitersStay DEF Blocks
    <3> QED BY <3>1, <3>2
  <2> QED BY <2>5, <2>6, <2>8
<1>5. ASSUME NEW t \in Tasks, NEW u \in Tasks, Spawn(t, u)
      PROVE  ClosingInv' /\ HoldsOwn' /\ WaitsForAnother'
  <2>1. /\ context' = [context EXCEPT ![u] = context[t]] /\ context[u] = None /\ Ready(t)
        /\ UNCHANGED <<storages, clients, frames, pc>>
    BY <1>5 DEF Spawn
  <2>2. \A x \in Tasks : frames[x] # <<>> => context'[x] = context[x]
    BY <1>0, <2>1 DEF Types
  <2>3. EntriesStay
    BY <2>1 DEF EntriesStay, Same
  <2> QED BY <1>1, <2>1, <2>2, <2>3
<1>6. ASSUME NEW u \in Tasks, End(u)
      PROVE  ClosingInv' /\ HoldsOwn' /\ WaitsForAnother'
  <2>1. /\ context' = [context EXCEPT ![u] = None] /\ frames[u] = <<>> /\ Ready(u)
        /\ UNCHANGED <<storages, clients, frames, pc>>
    BY <1>6 DEF End
  <2>2. \A x \in Tasks : frames[x] # <<>> => context'[x] = context[x]
    BY <1>0, <2>1 DEF Types, TypeOK
  <2>3. EntriesStay
    BY <2>1 DEF EntriesStay, Same
  <2> QED BY <1>1, <2>1, <2>2, <2>3
\* The steps that close connections, and those that wait until all are closed.
<1>7. ASSUME NEW t \in Tasks, UNCHANGED frames, \A u \in Tasks : frames[u] = <<>>,
             \A u \in Tasks \ {t} : pc'[u] = Idle,
             pc'[t] = Idle \/ pc'[t].at = "closing"
      PROVE  ClosingInv' /\ HoldsOwn' /\ WaitsForAnother'
  <2>1. \A u \in Tasks : frames'[u] = <<>> /\ pc'[u].at # "locking"
    BY <1>7 DEF Idle
  <2>2. ClosingInv'
    BY <1>7, <2>1 DEF ClosingInv, Idle
  <2> QED BY <2>1, <2>2, NoBlocks
<1>8. ASSUME NEW t \in Tasks, NEW a \in Aliases, Discard(t, a)
      PROVE  ClosingInv' /\ HoldsOwn' /\ WaitsForAnother'
  <2>1. UNCHANGED <<frames, pc>> /\ Quiet
    BY <1>8 DEF Discard
  <2> QED BY <1>7, <2>1, QuietHas
<1>9. ASSUME NEW t \in Tasks, NEW for \in {"discard", "init", "drop"}, CloseAll(t, for)
      PROVE  ClosingInv' /\ HoldsOwn' /\ WaitsForAnother'
  <2>1. UNCHANGED frames
    BY <1>9 DEF CloseAll
  <2>2. PICK left \in SUBSET Clients :
          pc' = [pc EXCEPT ![t] = [at |-> "closing", for |-> for, left |-> left]]
    BY <1>0, <1>9, CloseAllFills
  <2>3. Quiet
    BY <1>0, <1>9, CloseAllFills
  <2>4. pc'[t].at = "closing" /\ \A u \in Tasks \ {t} : pc'[u] = pc[u]
    BY <1>0, <2>2 DEF Types
  <2> QED BY <1>7, <2>1, <2>3, <2>4, QuietHas
<1>10. ASSUME NEW t \in Tasks, CloseOne(t)
       PROVE  ClosingInv' /\ HoldsOwn' /\ WaitsForAnother'
  <2>1. UNCHANGED frames
    BY <1>10 DEF CloseOne
  <2>2. /\ pc[t].at = "closing" /\ pc'[t].at = "closing"
        /\ \A u \in Tasks \ {t} : pc'[u] = pc[u]
    BY <1>0, <1>10, CloseOneDoes
  <2>3. \A u \in Tasks : frames[u] = <<>> /\ (u # t => pc[u] = Idle)
    BY <2>2 DEF Blocks, ClosingInv
  <2> QED BY <1>7, <2>1, <2>2, <2>3
<1>11. ASSUME NEW t \in Tasks, CloseDone(t)
       PROVE  ClosingInv' /\ HoldsOwn' /\ WaitsForAnother'
  <2>1. UNCHANGED frames /\ pc[t].at = "closing" /\ pc' = [pc EXCEPT ![t] = Idle]
    BY <1>11 DEF CloseDone
  <2>2. \A u \in Tasks : frames[u] = <<>> /\ (u # t => pc[u] = Idle)
    BY <2>1 DEF Blocks, ClosingInv
  <2>3. pc'[t] = Idle /\ \A u \in Tasks \ {t} : pc'[u] = pc[u]
    BY <1>0, <2>1 DEF Types
  <2> QED BY <1>7, <2>1, <2>2, <2>3
<1>12. ASSUME NEW t \in Tasks, NEW A \in SUBSET Aliases, NEW v \in Versions,
              NEW ok \in BOOLEAN, Initialise(t, A, v, ok)
       PROVE  ClosingInv' /\ HoldsOwn' /\ WaitsForAnother'
  <2>1. UNCHANGED frames /\ pc' = [pc EXCEPT ![t] = Idle]
    BY <1>12 DEF Initialise
  <2>2. Quiet \/ pc[t].at = "closing"
    BY <1>0, <1>12, InitialiseFills
  <2>3. \A u \in Tasks : frames[u] = <<>> /\ (u # t => pc[u] = Idle)
    BY <2>2, QuietHas DEF Blocks, ClosingInv
  <2>4. pc'[t] = Idle /\ \A u \in Tasks \ {t} : pc'[u] = pc[u]
    BY <1>0, <2>1 DEF Types
  <2> QED BY <1>7, <2>1, <2>3, <2>4
<1>13. ASSUME UNCHANGED vars
       PROVE  ClosingInv' /\ HoldsOwn' /\ WaitsForAnother'
  BY <1>13 DEF Blocks, ClosingInv, HoldsOwn, WaitsForAnother, Made
<1> QED BY <1>2, <1>3, <1>4, <1>5, <1>6, <1>8, <1>9, <1>10, <1>11, <1>12, <1>13,
           BlocksEntered, BlocksExit DEF Next

LEMMA BlocksInit == Init => Blocks
<1> SUFFICES ASSUME Init PROVE Blocks
  OBVIOUS
<1>1. \A t \in Tasks : frames[t] = <<>> /\ pc[t] = Idle
  BY DEF Init
<1>2. \A t \in Tasks : 1..Len(frames[t]) = {}
  BY <1>1
<1> QED BY <1>1, <1>2, TypesInit DEF Blocks, ClosingInv, HoldsOwn, WaitsForAnother, Idle

\* In a block a task gets the wrapper of the block, whichever clients it made and blocks
\* it and other tasks entered and left since; connections are closed outside of blocks.
THEOREM BlocksGetTheirWrappers ==
    ASSUME "busy" \notin Features
    PROVE  Spec => []BlockGetsItsWrapper
<1>1. Blocks => BlockGetsItsWrapper
  <2> SUFFICES ASSUME Blocks, NEW t \in Tasks, NEW i \in DOMAIN frames[t]
               PROVE  Storage(t)[frames[t][i].alias] = frames[t][i].wrapper
    BY DEF BlockGetsItsWrapper
  <2>1. frames[t] \in Seq(Frame)
    BY DEF Blocks, Types
  <2>2. i \in 1..Len(frames[t]) /\ Len(frames[t]) \in i..Len(frames[t])
    BY <2>1
  <2>3. Made(t, Len(frames[t])) = context[t]
    BY <2>1 DEF Made
  <2> QED BY <2>2, <2>3 DEF Blocks, HoldsOwn, Storage
<1> QED BY <1>1, BlocksInit, BlocksStep, PTL DEF Spec

-----------------------------------------------------------------------------
(* Dictionaries and wrappers, when tasks also end before the block that they *)
(* were spawned in.  Each block's dictionary was copied from its token's, so *)
(* the blocks form a tree; reset() is only called at its leaves.             *)

IsWrapper(c) == c # None /\ clients[c].parent # None

\* Every block has a dictionary and a wrapper of its own.
Apart ==
    /\ \A t, u \in Tasks : \A i \in 1..Len(frames[t]), j \in 1..Len(frames[u]) :
         t # u \/ i # j =>
           Made(t, i) # Made(u, j) /\ frames[t][i].wrapper # frames[u][j].wrapper
    /\ \A t \in Tasks : \A j \in 1..Len(frames[t]) :
         /\ Made(t, j) # Base
         /\ \A i \in 1..j : frames[t][i].token # Made(t, j)

\* Nobody has a dictionary but the first one and those of open blocks.
Rooted ==
    \A s \in Live \ {None, Base} :
        \E t \in Tasks : \E i \in 1..Len(frames[t]) : s = Made(t, i)

\* The wrapper of a task that waits for a lock is its own, and in no dictionary yet;
\* the client it was made from is registered.
Waits ==
    \A t \in Tasks : pc[t].at = "locking" =>
        /\ ~clients[pc[t].wrapper].final
        /\ storages[context[t]][clients[pc[t].wrapper].alias] # None
        /\ \A u \in Tasks \ {t} : pc[u].at = "locking" => pc[u].wrapper # pc[t].wrapper
        /\ \A u \in Tasks : \A i \in 1..Len(frames[u]) : frames[u][i].wrapper # pc[t].wrapper
        /\ \A s \in Live \ {None}, a \in Aliases : storages[s][a] # pc[t].wrapper

\* A dictionary has no wrapper that its token does not have, but its block's own.
FromToken ==
    \A t \in Tasks : \A i \in 1..Len(frames[t]) :
        LET f == frames[t][i] IN
        /\ ~clients[f.wrapper].final /\ storages[f.token][f.alias] # None
        /\ \A a \in Aliases \ {f.alias} :
             LET c == storages[Made(t, i)][a] IN IsWrapper(c) => storages[f.token][a] = c

\* The first dictionary has no wrappers; no dictionary in use has one that is final.
InUse ==
    /\ \A a \in Aliases : ~IsWrapper(storages[Base][a])
    /\ \A s \in Live \ {None}, a \in Aliases :
         storages[s][a] # None => ~clients[storages[s][a]].final

\* A wrapper is only in dictionaries below the one of its block: in every set that has
\* this one and with each dictionary those copied from it.
ClosedUnder(X) ==
    \A u \in Tasks : \A j \in 1..Len(frames[u]) : frames[u][j].token \in X => Made(u, j) \in X
Below ==
    \A t \in Tasks : \A i \in 1..Len(frames[t]) : \A s \in Live \ {None}, a \in Aliases :
        storages[s][a] = frames[t][i].wrapper =>
          \A X \in SUBSET Storages : ClosedUnder(X) /\ Made(t, i) \in X => s \in X

Tree == Blocks /\ Apart /\ Rooted /\ Waits /\ FromToken /\ InUse /\ Below

\* What is new in a dictionary is a client.
OnlyClients ==
    /\ \A s \in Live \ {None}, a \in Aliases :
         \/ storages'[s][a] = storages[s][a]
         \/ /\ storages'[s][a] \in FreeClients
            /\ clients'[storages'[s][a]].parent = None /\ ~clients'[storages'[s][a]].final
    /\ \A c \in Clients \ FreeClients : Same(c) /\ clients'[c].final = clients[c].final

LEMMA FilledOnlyClients ==
    ASSUME Types, NEW s, NEW cfg, Filled(storages, s, cfg, storages', clients')
    PROVE  OnlyClients
<1>1. ASSUME NEW r \in Live \ {None}, NEW a \in Aliases
      PROVE  \/ storages'[r][a] = storages[r][a]
             \/ /\ storages'[r][a] \in FreeClients
                /\ clients'[storages'[r][a]].parent = None /\ ~clients'[storages'[r][a]].final
  <2>1. r \in Storages
    BY HeldStay
  <2> QED BY <2>1 DEF Filled
<1>2. \A c \in Clients \ FreeClients : Alike(clients, c, clients')
  BY DEF Filled
<1> QED BY <1>1, <1>2 DEF OnlyClients, Alike, Same

\* Tasks are spawned and end; dictionaries stay.
LEMMA LiveStays ==
    ASSUME Types, UNCHANGED frames, \A t \in Tasks : context'[t] \in Live \cup {None}
    PROVE  Live' \subseteq Live \cup {None}
<1>1. \A t \in Tasks : Tokens(t)' = Tokens(t)
  BY DEF Tokens
<1>2. UNION {Tokens(t)' : t \in Tasks} = UNION {Tokens(t) : t \in Tasks}
  BY <1>1
<1>3. Base \in Live /\ UNION {Tokens(t) : t \in Tasks} \subseteq Live
  BY DEF Live
<1>4. Live' = {Base} \cup {context'[t] : t \in Tasks} \cup UNION {Tokens(t)' : t \in Tasks}
  BY DEF Live
<1> QED BY <1>2, <1>3, <1>4

\* Entries of dictionaries in use, and the wrappers of blocks, after such a step.
LEMMA EntryIn ==
    ASSUME Types, OnlyClients, NEW s \in Live \ {None}, NEW a \in Aliases
    PROVE  /\ storages'[s][a] # None /\ clients'[storages'[s][a]].parent # None =>
                storages'[s][a] = storages[s][a] /\ IsWrapper(storages[s][a])
           /\ storages'[s][a] # storages[s][a] => storages'[s][a] \in FreeClients
           /\ storages[s][a] \in (Clients \cup {None}) \ FreeClients
<1>1. s \in Storages /\ storages[s][a] \notin FreeClients
  BY HeldStay
<1>2. storages[s][a] \in Clients \cup {None}
  BY <1>1 DEF Types, TypeOK
<1> QED BY <1>1, <1>2 DEF OnlyClients, IsWrapper, Same

\* Steps that leave the blocks alone: clients are made, tasks are spawned and end.
Plain ==
    /\ UNCHANGED frames /\ OnlyClients /\ EntriesStay
    /\ \A t \in Tasks : context'[t] \in Live \cup {None}
    /\ \A t \in Tasks : frames[t] # <<>> \/ pc[t].at = "locking" => context'[t] = context[t]

LEMMA PlainMade ==
    ASSUME Types, Plain, NEW t \in Tasks, NEW i \in 1..Len(frames[t])
    PROVE  Made(t, i)' = Made(t, i) /\ frames'[t] = frames[t]
<1>1. frames[t] # <<>>
  BY FrameType
<1> QED BY <1>1 DEF Made, Plain

LEMMA PlainKeeps ==
    ASSUME Tree, Plain
    PROVE  Apart' /\ Rooted' /\ FromToken' /\ InUse' /\ Below'
<1>0. Types /\ OnlyClients /\ EntriesStay /\ frames' = frames
  BY DEF Tree, Blocks, Plain
<1>1. \A t \in Tasks : \A i \in 1..Len(frames[t]) : Made(t, i)' = Made(t, i)
  BY <1>0, PlainMade
<1>2. Live' \ {None} \subseteq Live \ {None}
  BY <1>0, LiveStays DEF Plain
<1>3. Base \in Live \ {None}
  BY FreeOnes DEF Live
<1>4. Apart'
  <2>1. ASSUME NEW t \in Tasks, NEW u \in Tasks, NEW i \in 1..Len(frames[t]),
               NEW j \in 1..Len(frames[u]), t # u \/ i # j
        PROVE  Made(t, i)' # Made(u, j)' /\ frames[t][i].wrapper # frames[u][j].wrapper
    BY <1>1, <2>1 DEF Tree, Apart
  <2>2. ASSUME NEW t \in Tasks, NEW j \in 1..Len(frames[t])
        PROVE  /\ Made(t, j)' # Base
               /\ \A i \in 1..j : frames[t][i].token # Made(t, j)'
    BY <1>1 DEF Tree, Apart
  <2> QED BY <1>0, <2>1, <2>2 DEF Apart
<1>5. Rooted'
  <2> SUFFICES ASSUME NEW s \in Live \ {None}, s # Base
               PROVE  \E t \in Tasks : \E i \in 1..Len(frames[t]) : s = Made(t, i)'
    BY <1>0, <1>2 DEF Rooted
  <2>1. PICK t \in Tasks : \E i \in 1..Len(frames[t]) : s = Made(t, i)
    BY DEF Tree, Rooted
  <2>2. PICK i \in 1..Len(frames[t]) : s = Made(t, i)
    BY <2>1
  <2>3. s = Made(t, i)'
    BY <1>1, <2>2
  <2> QED BY <2>3
<1>6. FromToken'
  <2> SUFFICES ASSUME NEW t \in Tasks, NEW i \in 1..Len(frames[t]), NEW f, f = frames[t][i]
               PROVE  /\ ~clients'[f.wrapper].final /\ storages'[f.token][f.alias] # None
                      /\ \A a \in Aliases \ {f.alias} :
                           storages'[Made(t, i)'][a] # None
                             /\ clients'[storages'[Made(t, i)'][a]].parent # None =>
                           storages'[f.token][a] = storages'[Made(t, i)'][a]
    BY <1>0 DEF FromToken, IsWrapper
  <2>1. /\ Made(t, i) \in Live \ {None} /\ f.token \in Live \ {None} /\ f.alias \in Aliases
        /\ f.wrapper \in Clients \ FreeClients
    BY <1>0, MadeLive, FrameType, FreeOnes, HeldStay
  <2>2. ~clients'[f.wrapper].final /\ storages'[f.token][f.alias] # None
    <3>1. ~clients[f.wrapper].final /\ storages[f.token][f.alias] # None
      BY DEF Tree, FromToken
    <3> QED BY <1>0, <2>1, <3>1 DEF OnlyClients, EntriesStay
  <2>3. ASSUME NEW a \in Aliases \ {f.alias}, storages'[Made(t, i)][a] # None,
               clients'[storages'[Made(t, i)][a]].parent # None
        PROVE  storages'[f.token][a] = storages'[Made(t, i)][a]
    <3>1. /\ storages'[Made(t, i)][a] = storages[Made(t, i)][a]
          /\ IsWrapper(storages[Made(t, i)][a])
      BY <1>0, <2>1, <2>3, EntryIn
    <3>2. storages[f.token][a] = storages[Made(t, i)][a]
      BY <3>1 DEF Tree, FromToken
    <3> QED BY <1>0, <2>1, <2>3, <3>1, <3>2 DEF EntriesStay
  <2> QED BY <1>1, <2>2, <2>3
<1>7. InUse'
  <2>1. ASSUME NEW a \in Aliases
        PROVE  ~(storages'[Base][a] # None /\ clients'[storages'[Base][a]].parent # None)
    <3>1. ~IsWrapper(storages[Base][a])
      BY DEF Tree, InUse
    <3> QED BY <1>0, <1>3, <3>1, EntryIn
  <2>2. ASSUME NEW s \in Live \ {None}, NEW a \in Aliases, storages'[s][a] # None
        PROVE  ~clients'[storages'[s][a]].final
    <3>1. CASE storages'[s][a] = storages[s][a]
      <4>1. storages[s][a] \in Clients \ FreeClients
        BY <1>0, <2>2, <3>1, EntryIn
      <4>2. ~clients[storages[s][a]].final
        BY <2>2, <3>1 DEF Tree, InUse
      <4> QED BY <1>0, <3>1, <4>1, <4>2 DEF OnlyClients
    <3>2. CASE storages'[s][a] # storages[s][a]
      BY <1>0, <3>2 DEF OnlyClients
    <3> QED BY <3>1, <3>2
  <2> QED BY <1>2, <2>1, <2>2 DEF InUse, IsWrapper
<1>8. Below'
  <2> SUFFICES ASSUME NEW t \in Tasks, NEW i \in 1..Len(frames[t]), NEW s \in Live \ {None},
                      NEW a \in Aliases, storages'[s][a] = frames[t][i].wrapper,
                      NEW X \in SUBSET Storages, ClosedUnder(X)', Made(t, i)' \in X
               PROVE  s \in X
    BY <1>0, <1>2 DEF Below
  <2>1. ClosedUnder(X) /\ Made(t, i) \in X
    BY <1>0, <1>1 DEF ClosedUnder
  <2>2. storages[s][a] = frames[t][i].wrapper
    <3>1. frames[t][i].wrapper \notin FreeClients
      BY <1>0, HeldStay
    <3> QED BY <1>0, <3>1, EntryIn
  <2> QED BY <2>1, <2>2 DEF Tree, Below
<1> QED BY <1>4, <1>5, <1>6, <1>7, <1>8

\* What Waits says of task t stays when t goes on waiting.
LEMMA PlainWaits ==
    ASSUME Tree, Plain, NEW t \in Tasks, pc'[t] = pc[t], pc[t].at = "locking",
           \A u \in Tasks : pc'[u].at = "locking" =>
             pc'[u] = pc[u] \/ pc'[u].wrapper \in FreeClients
    PROVE  /\ ~clients'[pc'[t].wrapper].final
           /\ storages'[context'[t]][clients'[pc'[t].wrapper].alias] # None
           /\ \A u \in Tasks \ {t} : pc'[u].at = "locking" => pc'[u].wrapper # pc'[t].wrapper
           /\ \A u \in Tasks : \A i \in 1..Len(frames'[u]) : frames'[u][i].wrapper # pc'[t].wrapper
           /\ \A s \in Live' \ {None}, a \in Aliases : storages'[s][a] # pc'[t].wrapper
<1> DEFINE w == pc[t].wrapper
<1>0. Types /\ OnlyClients /\ EntriesStay /\ frames' = frames /\ context'[t] = context[t]
  BY DEF Tree, Blocks, Plain
<1>1. w \in Clients \ FreeClients /\ clients[w].alias \in Aliases /\ context[t] \in Live \ {None}
  <2>1. w \in Clients \ FreeClients
    BY <1>0, HeldStay
  <2>2. context[t] # None
    BY DEF Tree, Blocks, Types, Idle
  <2> QED BY <1>0, <2>1, <2>2 DEF Types, TypeOK, Client, Live
<1>2. Live' \ {None} \subseteq Live \ {None}
  BY <1>0, LiveStays DEF Plain
<1>3. /\ ~clients[w].final /\ storages[context[t]][clients[w].alias] # None
      /\ \A u \in Tasks \ {t} : pc[u].at = "locking" => pc[u].wrapper # w
      /\ \A u \in Tasks : \A i \in 1..Len(frames[u]) : frames[u][i].wrapper # w
      /\ \A s \in Live \ {None}, a \in Aliases : storages[s][a] # w
  BY DEF Tree, Waits
<1> HIDE DEF w
<1>4. ~clients'[w].final /\ clients'[w].alias = clients[w].alias
  BY <1>0, <1>1, <1>3 DEF OnlyClients, Same
<1>5. storages'[context[t]][clients[w].alias] # None
  BY <1>0, <1>1, <1>3 DEF EntriesStay
<1>6. \A u \in Tasks \ {t} : pc'[u].at = "locking" => pc'[u].wrapper # w
  BY <1>1, <1>3
<1>7. \A s \in Live \ {None}, a \in Aliases : storages'[s][a] # w
  BY <1>0, <1>1, <1>3 DEF OnlyClients
<1> QED BY <1>0, <1>2, <1>3, <1>4, <1>5, <1>6, <1>7 DEF w

\* Steps while no block is open, and no task waits for a lock: all have the first dictionary.
LEMMA RootOnly ==
    ASSUME Rooted, \A u \in Tasks : frames[u] = <<>>
    PROVE  Live \ {None} = {Base}
<1>1. \A u \in Tasks : 1..Len(frames[u]) = {}
  OBVIOUS
<1>2. Base \in Live /\ Base # None
  BY FreeOnes DEF Live
<1> QED BY <1>1, <1>2 DEF Rooted

LEMMA NoTree ==
    ASSUME Tree, \A u \in Tasks : frames[u] = <<>>, UNCHANGED <<frames, context>>,
           \A u \in Tasks : pc'[u].at # "locking",
           \A c \in Clients \ FreeClients : Same(c) /\ clients'[c].final = clients[c].final,
           \A a \in Aliases :
             \/ storages'[Base][a] \in {None, storages[Base][a]}
             \/ /\ storages'[Base][a] \in FreeClients
                /\ clients'[storages'[Base][a]].parent = None
                /\ ~clients'[storages'[Base][a]].final
    PROVE  Apart' /\ Rooted' /\ Waits' /\ FromToken' /\ InUse' /\ Below'
<1>1. \A u \in Tasks : 1..Len(frames'[u]) = {}
  OBVIOUS
<1>2. Apart' /\ Waits' /\ FromToken' /\ Below'
  BY <1>1 DEF Apart, Waits, FromToken, Below
<1>3. Live \ {None} = {Base}
  BY RootOnly DEF Tree
<1>4. Live' = Live
  BY DEF Live, Tokens
<1>5. Rooted'
  BY <1>3, <1>4 DEF Rooted
<1>6. ASSUME NEW a \in Aliases, storages'[Base][a] # None
      PROVE  clients'[storages'[Base][a]].parent = None /\ ~clients'[storages'[Base][a]].final
  <2>1. CASE storages'[Base][a] = storages[Base][a]
    <3>1. ~IsWrapper(storages[Base][a]) /\ ~clients[storages[Base][a]].final
      BY <1>3, <1>6, <2>1 DEF Tree, InUse
    <3>2. storages[Base][a] \in Clients \ FreeClients
      BY <1>3, <1>6, <2>1, HeldStay, FreeOnes DEF Tree, Blocks, Types, TypeOK
    <3> QED BY <1>6, <2>1, <3>1, <3>2 DEF IsWrapper, Same
  <2>2. CASE storages'[Base][a] # storages[Base][a]
    BY <1>6, <2>2
  <2> QED BY <2>1, <2>2
<1>7. InUse'
  BY <1>3, <1>4, <1>6 DEF InUse, IsWrapper
<1> QED BY <1>2, <1>5, <1>7

LEMMA TreeEntered ==
    ASSUME Tree, NEW t \in Tasks, Entered(t)
    PROVE  Apart' /\ Rooted' /\ Waits' /\ FromToken' /\ InUse' /\ Below'
<1> SUFFICES ASSUME NEW w, w = pc[t].wrapper, NEW al, al = clients[w].alias,
                    NEW s, s = Least(FreeStorages), NEW n, n = Len(frames[t]),
                    NEW f, f = [alias |-> al, wrapper |-> w, token |-> context[t]]
             PROVE  Apart' /\ Rooted' /\ Waits' /\ FromToken' /\ InUse' /\ Below'
  OBVIOUS
<1>0. Types
  BY DEF Tree, Blocks
<1>1. /\ pc[t].at = "locking" /\ clients' = clients /\ w \in Clients /\ n \in Nat
      /\ context[t] \in Live \ {None} /\ al \in Aliases /\ s \in Storages /\ s \notin Live
      /\ storages'[s][al] = w
      /\ \A a \in Aliases \ {al} : storages'[s][a] = storages[context[t]][a]
      /\ \A r \in Storages \ {s} : storages'[r] = storages[r]
      /\ \A u \in Tasks \ {t} : pc'[u] = pc[u] /\ context'[u] = context[u]
      /\ pc'[t] = Idle
  BY <1>0, EnteredDoes
<1>2. /\ \A u \in Tasks : \A i \in 1..Len(frames[u]) :
           /\ i \in 1..Len(frames'[u])
           /\ frames'[u][i] = frames[u][i] /\ Made(u, i)' = Made(u, i)
      /\ n + 1 \in 1..Len(frames'[t]) /\ frames'[t][n + 1] = f
      /\ \A i : i = n + 1 => Made(t, i)' = s
      /\ \A u \in Tasks : \A i \in 1..Len(frames'[u]) :
           i \in 1..Len(frames[u]) \/ (u = t /\ i = n + 1)
      /\ Live' \subseteq Live \cup {s}
  BY <1>0, EnteredDoes
<1>3. \A r \in Live \ {None} : r # s /\ r \in Storages /\ storages'[r] = storages[r]
  BY <1>0, <1>1, HeldStay
<1>4. /\ ~clients[w].final /\ storages[context[t]][al] # None
      /\ \A u \in Tasks \ {t} : pc[u].at = "locking" => pc[u].wrapper # w
      /\ \A u \in Tasks : \A i \in 1..Len(frames[u]) : frames[u][i].wrapper # w
      /\ \A r \in Live \ {None}, a \in Aliases : storages[r][a] # w
  BY <1>1 DEF Tree, Waits
<1>5. \A u \in Tasks : \A i \in 1..Len(frames[u]) :
        Made(u, i) \in Live \ {None} /\ frames[u][i].token \in Live \ {None}
  BY <1>0, MadeLive, FrameType, FreeOnes
<1>6. Base \in Live \ {None}
  BY FreeOnes DEF Live
<1>7. f.alias = al /\ f.wrapper = w /\ f.token = context[t]
  OBVIOUS
<1>8. Apart'
  <2>1. ASSUME NEW u \in Tasks, NEW v \in Tasks, NEW i \in 1..Len(frames'[u]),
               NEW j \in 1..Len(frames'[v]), u # v \/ i # j
        PROVE  Made(u, i)' # Made(v, j)' /\ frames'[u][i].wrapper # frames'[v][j].wrapper
    <3>1. CASE i \in 1..Len(frames[u]) /\ j \in 1..Len(frames[v])
      <4>1. Made(u, i) # Made(v, j) /\ frames[u][i].wrapper # frames[v][j].wrapper
        BY <2>1, <3>1 DEF Tree, Apart
      <4>2. /\ Made(u, i)' = Made(u, i) /\ frames'[u][i] = frames[u][i]
            /\ Made(v, j)' = Made(v, j) /\ frames'[v][j] = frames[v][j]
        BY <1>2, <3>1
      <4> QED BY <4>1, <4>2
    <3>2. CASE i \in 1..Len(frames[u]) /\ v = t /\ j = n + 1
      <4>1. Made(v, j)' = s /\ frames'[v][j].wrapper = w
        BY <1>2, <1>7, <3>2
      <4> QED BY <1>2, <1>3, <1>4, <1>5, <3>2, <4>1
    <3>3. CASE u = t /\ i = n + 1 /\ j \in 1..Len(frames[v])
      <4>1. Made(u, i)' = s /\ frames'[u][i].wrapper = w
        BY <1>2, <1>7, <3>3
      <4> QED BY <1>2, <1>3, <1>4, <1>5, <3>3, <4>1
    <3> QED BY <1>2, <2>1, <3>1, <3>2, <3>3
  <2>2. ASSUME NEW u \in Tasks, NEW j \in 1..Len(frames'[u])
        PROVE  Made(u, j)' # Base /\ \A i \in 1..j : frames'[u][i].token # Made(u, j)'
    <3>1. CASE j \in 1..Len(frames[u])
      <4>1. \A i \in 1..j : i \in 1..Len(frames[u])
        BY <1>0, <3>1, FrameType
      <4>2. Made(u, j) # Base /\ \A i \in 1..j : frames[u][i].token # Made(u, j)
        BY <3>1 DEF Tree, Apart
      <4>3. Made(u, j)' = Made(u, j) /\ \A i \in 1..j : frames'[u][i] = frames[u][i]
        BY <1>2, <3>1, <4>1
      <4> QED BY <4>2, <4>3
    <3>2. CASE u = t /\ j = n + 1
      <4>1. Made(u, j)' = s
        BY <1>2, <3>2
      <4>2. ASSUME NEW i \in 1..j
            PROVE  frames'[u][i].token # s
        <5>1. CASE i \in 1..Len(frames[u])
          BY <1>2, <1>3, <1>5, <5>1
        <5>2. CASE i = n + 1
          BY <1>1, <1>2, <1>7, <3>2, <5>2
        <5> QED BY <1>1, <3>2, <5>1, <5>2
      <4> QED BY <1>3, <1>6, <4>1, <4>2
    <3> QED BY <1>2, <3>1, <3>2
  <2> QED BY <2>1, <2>2 DEF Apart
<1>9. Rooted'
  <2> SUFFICES ASSUME NEW r \in Live' \ {None, Base}
               PROVE  \E u \in Tasks : \E i \in 1..Len(frames'[u]) : r = Made(u, i)'
    BY DEF Rooted
  <2>1. CASE r = s
    <3>1. r = Made(t, n + 1)' /\ n + 1 \in 1..Len(frames'[t])
      BY <1>2, <2>1
    <3> QED BY <3>1
  <2>2. CASE r \in Live
    <3>1. PICK u \in Tasks : \E i \in 1..Len(frames[u]) : r = Made(u, i)
      BY <2>2 DEF Tree, Rooted
    <3>2. PICK i \in 1..Len(frames[u]) : r = Made(u, i)
      BY <3>1
    <3>3. r = Made(u, i)' /\ i \in 1..Len(frames'[u])
      BY <1>2, <3>2
    <3> QED BY <3>3
  <2> QED BY <1>2, <2>1, <2>2
<1>10. Waits'
  <2> SUFFICES ASSUME NEW u \in Tasks, pc'[u].at = "locking"
               PROVE  LET x == pc'[u].wrapper IN
                      /\ ~clients'[x].final /\ storages'[context'[u]][clients'[x].alias] # None
                      /\ \A v \in Tasks \ {u} : pc'[v].at = "locking" => pc'[v].wrapper # x
                      /\ \A v \in Tasks : \A i \in 1..Len(frames'[v]) : frames'[v][i].wrapper # x
                      /\ \A r \in Live' \ {None}, a \in Aliases : storages'[r][a] # x
    BY DEF Waits
  <2>1. u # t /\ pc'[u] = pc[u] /\ context'[u] = context[u]
    BY <1>1 DEF Idle
  <2> DEFINE x == pc[u].wrapper
  <2>2. /\ ~clients[x].final /\ storages[context[u]][clients[x].alias] # None
        /\ \A v \in Tasks \ {u} : pc[v].at = "locking" => pc[v].wrapper # x
        /\ \A v \in Tasks : \A i \in 1..Len(frames[v]) : frames[v][i].wrapper # x
        /\ \A r \in Live \ {None}, a \in Aliases : storages[r][a] # x
    BY <2>1 DEF Tree, Waits
  <2>3. context[u] \in Live \ {None}
    BY <2>1 DEF Tree, Blocks, Types, Idle, Live
  <2>4. w # x
    BY <1>1, <2>1, <2>2
  <2> HIDE DEF x
  <2>5. \A v \in Tasks \ {u} : pc'[v].at = "locking" => pc'[v].wrapper # x
    BY <1>1, <2>2 DEF Idle
  <2>6. \A v \in Tasks : \A i \in 1..Len(frames'[v]) : frames'[v][i].wrapper # x
    <3> SUFFICES ASSUME NEW v \in Tasks, NEW i \in 1..Len(frames'[v])
                 PROVE  frames'[v][i].wrapper # x
      OBVIOUS
    <3>1. CASE i \in 1..Len(frames[v])
      <4>1. frames'[v][i] = frames[v][i]
        BY <1>2, <3>1
      <4> QED BY <2>2, <3>1, <4>1
    <3>2. CASE v = t /\ i = n + 1
      <4>1. frames'[v][i] = f
        BY <1>2, <3>2
      <4> QED BY <1>7, <2>4, <4>1
    <3> QED BY <1>2, <3>1, <3>2
  <2>7. ASSUME NEW r \in Live' \ {None}, NEW a \in Aliases
        PROVE  storages'[r][a] # x
    <3>1. CASE r = s
      BY <1>1, <2>2, <2>4, <3>1
    <3>2. CASE r \in Live
      BY <1>3, <2>2, <3>2
    <3> QED BY <1>2, <3>1, <3>2
  <2> QED BY <1>1, <1>3, <2>1, <2>2, <2>3, <2>5, <2>6, <2>7 DEF x
<1>11. FromToken'
  <2> SUFFICES ASSUME NEW u \in Tasks, NEW i \in 1..Len(frames'[u]), NEW g, g = frames'[u][i]
               PROVE  /\ ~clients'[g.wrapper].final /\ storages'[g.token][g.alias] # None
                      /\ \A a \in Aliases \ {g.alias} :
                           storages'[Made(u, i)'][a] # None
                             /\ clients'[storages'[Made(u, i)'][a]].parent # None =>
                           storages'[g.token][a] = storages'[Made(u, i)'][a]
    BY DEF FromToken, IsWrapper
  <2>1. CASE i \in 1..Len(frames[u])
    <3>1. g = frames[u][i] /\ Made(u, i)' = Made(u, i)
      BY <1>2, <2>1
    <3>2. /\ storages'[Made(u, i)] = storages[Made(u, i)] /\ storages'[g.token] = storages[g.token]
      BY <1>3, <1>5, <2>1, <3>1
    <3>3. /\ ~clients[g.wrapper].final /\ storages[g.token][g.alias] # None
          /\ \A a \in Aliases \ {g.alias} :
               storages[Made(u, i)][a] # None
                 /\ clients[storages[Made(u, i)][a]].parent # None =>
               storages[g.token][a] = storages[Made(u, i)][a]
      BY <2>1, <3>1 DEF Tree, FromToken, IsWrapper
    <3>4. clients' = clients
      BY <1>1
    <3> QED BY <3>1, <3>2, <3>3, <3>4
  <2>2. CASE u = t /\ i = n + 1
    <3>1. g = f /\ Made(u, i)' = s
      BY <1>2, <2>2
    <3>2. storages'[context[t]] = storages[context[t]]
      BY <1>1, <1>3
    <3> QED BY <1>1, <1>4, <1>7, <3>1, <3>2
  <2> QED BY <1>2, <2>1, <2>2
<1>12. InUse'
  <2>1. \A a \in Aliases : ~IsWrapper(storages[Base][a]) /\ storages'[Base] = storages[Base]
    BY <1>3, <1>6 DEF Tree, InUse
  <2>2. ASSUME NEW r \in Live' \ {None}, NEW a \in Aliases, storages'[r][a] # None
        PROVE  ~clients[storages'[r][a]].final
    <3>1. CASE r = s
      <4>1. CASE a = al
        BY <1>1, <1>4, <3>1, <4>1
      <4>2. CASE a # al
        BY <1>1, <2>2, <3>1, <4>2 DEF Tree, InUse
      <4> QED BY <4>1, <4>2
    <3>2. CASE r \in Live
      BY <1>3, <2>2, <3>2 DEF Tree, InUse
    <3> QED BY <1>2, <3>1, <3>2
  <2> QED BY <1>1, <2>1, <2>2 DEF InUse, IsWrapper
<1>13. Below'
  <2> SUFFICES ASSUME NEW u \in Tasks, NEW i \in 1..Len(frames'[u]), NEW r \in Live' \ {None},
                      NEW a \in Aliases, storages'[r][a] = frames'[u][i].wrapper,
                      NEW X \in SUBSET Storages, ClosedUnder(X)', Made(u, i)' \in X
               PROVE  r \in X
    BY DEF Below
  <2>1. ClosedUnder(X)
    <3> SUFFICES ASSUME NEW v \in Tasks, NEW j \in 1..Len(frames[v]), frames[v][j].token \in X
                 PROVE  Made(v, j) \in X
      BY DEF ClosedUnder
    <3>1. /\ j \in 1..Len(frames'[v]) /\ frames'[v][j] = frames[v][j]
          /\ Made(v, j)' = Made(v, j)
      BY <1>2
    <3> QED BY <3>1 DEF ClosedUnder
  <2>2. context[t] \in X => s \in X
    <3>1. frames'[t][n + 1].token \in X => Made(t, n + 1)' \in X
      BY <1>2 DEF ClosedUnder
    <3> QED BY <1>2, <1>7, <3>1
  <2>3. CASE u = t /\ i = n + 1
    <3>1. frames'[u][i].wrapper = w /\ Made(u, i)' = s
      BY <1>2, <1>7, <2>3
    <3>2. r = s
      BY <1>2, <1>3, <1>4, <3>1
    <3> QED BY <3>1, <3>2
  <2>4. CASE i \in 1..Len(frames[u])
    <3>1. frames'[u][i] = frames[u][i] /\ Made(u, i) \in X /\ frames[u][i].wrapper # w
      BY <1>2, <1>4, <2>4
    <3>2. CASE r \in Live
      BY <1>3, <2>1, <2>4, <3>1, <3>2 DEF Tree, Below
    <3>3. CASE r = s
      <4>1. storages[context[t]][a] = frames[u][i].wrapper
        BY <1>1, <3>1, <3>3
      <4>2. context[t] \in X
        BY <1>1, <2>1, <2>4, <3>1, <4>1 DEF Tree, Below
      <4> QED BY <2>2, <3>3, <4>2
    <3> QED BY <1>2, <3>2, <3>3
  <2> QED BY <1>2, <2>3, <2>4
<1> QED BY <1>8, <1>9, <1>10, <1>11, <1>12, <1>13

\* When the block is left nobody else has its dictionary, and no block was entered from
\* it: it is gone.
LEMMA ExitLive ==
    ASSUME "outlive" \notin Features, Tree, NEW t \in Tasks, Exit(t)
    PROVE  /\ context[t] \in Live \ {None} /\ context[t] # Base /\ context[t] \in Storages
           /\ \A u \in Tasks : \A j \in 1..Len(frames[u]) : frames[u][j].token # context[t]
           /\ Live' \subseteq (Live \ {context[t]}) \cup {None}
<1> SUFFICES ASSUME NEW n, n = Len(frames[t]), NEW f, f = frames[t][n],
                    NEW d, d = context[t]
             PROVE  /\ d \in Live \ {None} /\ d # Base /\ d \in Storages
                    /\ \A u \in Tasks : \A j \in 1..Len(frames[u]) : frames[u][j].token # d
                    /\ Live' \subseteq (Live \ {d}) \cup {None}
  OBVIOUS
<1>0. Types
  BY DEF Tree, Blocks
<1>1. n \in 1..n /\ n \in 1..Len(frames[t]) /\ Made(t, n) = d /\ ~Shared(t)
  BY <1>0, ExitDoes
<1>2. /\ \A u \in Tasks \ {t} : context'[u] = context[u]
      /\ context'[t] = f.token
      /\ \A u \in Tasks : \A i \in 1..Len(frames'[u]) :
           i \in 1..Len(frames[u]) /\ frames'[u][i] = frames[u][i]
  BY <1>0, ExitDoes
<1>3. d \in Live \ {None} /\ d # Base /\ d \in Storages
  <2>1. Made(t, n) \in Live \ {None} /\ Made(t, n) \in Storages
    BY <1>0, <1>1, MadeLive
  <2>2. Made(t, n) # Base
    BY <1>1 DEF Tree, Apart
  <2> QED BY <1>1, <2>1, <2>2
<1>4. \A u \in Tasks : \A j \in 1..Len(frames[u]) : frames[u][j].token # d
  <2> TAKE u \in Tasks
  <2> TAKE j \in 1..Len(frames[u])
  <2>1. CASE u = t
    <3>1. j \in 1..n
      BY <2>1
    <3> QED BY <1>1, <2>1, <3>1 DEF Tree, Apart
  <2>2. CASE u # t
    <3>1. d \notin Tokens(u)
      BY <1>1, <2>2 DEF Shared
    <3>2. j \in DOMAIN frames[u]
      BY <1>0, FrameType
    <3> QED BY <3>1, <3>2 DEF Tokens
  <2> QED BY <2>1, <2>2
<1>5. Live' \subseteq (Live \ {d}) \cup {None}
  <2>1. ASSUME NEW u \in Tasks, NEW r \in Tokens(u)'
        PROVE  r \in Live \ {d}
    <3>1. PICK i \in DOMAIN frames'[u] : r = frames'[u][i].token
      BY DEF Tokens
    <3>2. i \in 1..Len(frames'[u])
      <4>1. Types'
        BY <1>0, TypesStep DEF Next
      <4>2. frames'[u] \in Seq(Frame')
        BY <4>1 DEF Types
      <4> QED BY <3>1, <4>2
    <3>3. i \in 1..Len(frames[u]) /\ r = frames[u][i].token
      BY <1>2, <3>1, <3>2
    <3> QED BY <1>0, <1>4, <3>3, FrameType
  <2>2. ASSUME NEW u \in Tasks
        PROVE  context'[u] \in (Live \ {d}) \cup {None}
    <3>1. CASE u = t
      <4>1. f.token \in Live
        BY <1>0, <1>1, FrameType
      <4> QED BY <1>1, <1>2, <1>4, <3>1, <4>1
    <3>2. CASE u # t
      <4>1. context[u] # d
        BY <1>1, <3>2 DEF Shared
      <4> QED BY <1>2, <3>2, <4>1 DEF Live
    <3> QED BY <3>1, <3>2
  <2>3. Base \in Live \ {d}
    BY <1>3 DEF Live
  <2>4. Live' = {Base} \cup {context'[u] : u \in Tasks} \cup UNION {Tokens(u)' : u \in Tasks}
    BY DEF Live
  <2> QED BY <2>1, <2>2, <2>3, <2>4
<1> QED BY <1>3, <1>4, <1>5

LEMMA TreeExit ==
    ASSUME "outlive" \notin Features, Tree, NEW t \in Tasks, Exit(t)
    PROVE  Apart' /\ Rooted' /\ Waits' /\ FromToken' /\ InUse' /\ Below'
<1> SUFFICES ASSUME NEW n, n = Len(frames[t]), NEW f, f = frames[t][n],
                    NEW d, d = context[t]
             PROVE  Apart' /\ Rooted' /\ Waits' /\ FromToken' /\ InUse' /\ Below'
  OBVIOUS
<1>0. Types
  BY DEF Tree, Blocks
<1>1. /\ n \in 1..n /\ n \in 1..Len(frames[t]) /\ Ready(t) /\ pc' = pc /\ Made(t, n) = d
      /\ ~Shared(t)
      /\ f.token \in Storages /\ f.wrapper \in Clients /\ f.alias \in Aliases
      /\ \A a \in Aliases :
           storages'[f.token][a] = IF storages[f.token][a] = None
                                   THEN storages[d][a] ELSE storages[f.token][a]
      /\ \A r \in Storages \ {f.token} : storages'[r] = storages[r]
      /\ \A c \in Clients : Same(c)
      /\ \A c \in Clients \ {f.wrapper} : clients'[c].final = clients[c].final
      /\ EntriesStay
  BY <1>0, ExitDoes
<1>2. /\ \A u \in Tasks \ {t} : context'[u] = context[u]
      /\ context'[t] = f.token
      /\ \A u \in Tasks : \A i \in 1..Len(frames'[u]) :
           /\ i \in 1..Len(frames[u]) /\ frames'[u][i] = frames[u][i]
           /\ Made(u, i)' = Made(u, i) /\ (u # t \/ i # n)
      /\ \A u \in Tasks : \A i \in 1..Len(frames[u]) :
           i \in 1..Len(frames'[u]) \/ (u = t /\ i = n)
  BY <1>0, ExitDoes
<1>3. d \in Live \ {None} /\ d # Base /\ d \in Storages
  BY ExitLive
<1>4. \A u \in Tasks : \A j \in 1..Len(frames[u]) : frames[u][j].token # d
  BY ExitLive
<1>5. Live' \subseteq (Live \ {d}) \cup {None}
  BY ExitLive
\* reset() carries no wrapper.
<1>6. ASSUME NEW r \in Live \ {None}, NEW a \in Aliases, storages'[r][a] # storages[r][a]
      PROVE  storages'[r][a] = storages[d][a] /\ ~IsWrapper(storages[d][a])
  <2>1. r \in Storages
    BY <1>0, HeldStay
  <2>2. r = f.token /\ storages[f.token][a] = None /\ storages'[r][a] = storages[d][a]
    BY <1>1, <1>6, <2>1
  <2>3. a # f.alias
    BY <1>1, <2>2 DEF Tree, FromToken
  <2>4. IsWrapper(storages[Made(t, n)][a]) => storages[f.token][a] = storages[Made(t, n)][a]
    BY <1>1, <2>3 DEF Tree, FromToken
  <2> QED BY <1>1, <2>2, <2>4 DEF IsWrapper
<1>7. \A u \in Tasks : \A i \in 1..Len(frames[u]) :
        /\ Made(u, i) \in Live \ {None} /\ frames[u][i].token \in Live \ {None}
        /\ frames[u][i].wrapper \in Clients /\ frames[u][i].alias \in Aliases
        /\ IsWrapper(frames[u][i].wrapper)
  <2> TAKE u \in Tasks
  <2> TAKE i \in 1..Len(frames[u])
  <2>1. clients[frames[u][i].wrapper].parent # None
    BY DEF Tree, Blocks, HoldsOwn
  <2> QED BY <1>0, <2>1, MadeLive, FrameType, FreeOnes DEF IsWrapper
<1>8. \A r \in Live \ {None}, a \in Aliases : storages[r][a] \in Clients \cup {None}
  BY <1>0, HeldStay DEF Types, TypeOK
<1>9. Live' \ {None} \subseteq Live \ {None, d}
  BY <1>5
<1>10. Apart'
  <2>1. ASSUME NEW u \in Tasks, NEW v \in Tasks, NEW i \in 1..Len(frames'[u]),
               NEW j \in 1..Len(frames'[v]), u # v \/ i # j
        PROVE  Made(u, i)' # Made(v, j)' /\ frames'[u][i].wrapper # frames'[v][j].wrapper
    <3>1. /\ i \in 1..Len(frames[u]) /\ Made(u, i)' = Made(u, i) /\ frames'[u][i] = frames[u][i]
          /\ j \in 1..Len(frames[v]) /\ Made(v, j)' = Made(v, j) /\ frames'[v][j] = frames[v][j]
      BY <1>2
    <3>2. Made(u, i) # Made(v, j) /\ frames[u][i].wrapper # frames[v][j].wrapper
      BY <2>1, <3>1 DEF Tree, Apart
    <3> QED BY <3>1, <3>2
  <2>2. ASSUME NEW u \in Tasks, NEW j \in 1..Len(frames'[u])
        PROVE  Made(u, j)' # Base /\ \A i \in 1..j : frames'[u][i].token # Made(u, j)'
    <3>1. /\ j \in 1..Len(frames[u]) /\ Made(u, j)' = Made(u, j)
          /\ \A i \in 1..j : i \in 1..Len(frames'[u])
      BY <1>0, <1>2, FrameType
    <3>2. Made(u, j) # Base /\ \A i \in 1..j : frames[u][i].token # Made(u, j)
      BY <3>1 DEF Tree, Apart
    <3>3. \A i \in 1..j : frames'[u][i] = frames[u][i]
      BY <1>2, <3>1
    <3> QED BY <3>1, <3>2, <3>3
  <2> QED BY <2>1, <2>2 DEF Apart
<1>11. Rooted'
  <2> SUFFICES ASSUME NEW r \in Live' \ {None, Base}
               PROVE  \E u \in Tasks : \E i \in 1..Len(frames'[u]) : r = Made(u, i)'
    BY DEF Rooted
  <2>1. r \in Live \ {None, Base} /\ r # d
    BY <1>9
  <2>2. PICK u \in Tasks : \E i \in 1..Len(frames[u]) : r = Made(u, i)
    BY <2>1 DEF Tree, Rooted
  <2>3. PICK i \in 1..Len(frames[u]) : r = Made(u, i)
    BY <2>2
  <2>4. i \in 1..Len(frames'[u])
    BY <1>1, <1>2, <2>1, <2>3
  <2> QED BY <1>2, <2>3, <2>4
<1>12. Waits'
  <2> SUFFICES ASSUME NEW u \in Tasks, pc[u].at = "locking", NEW x, x = pc[u].wrapper
               PROVE  /\ ~clients'[x].final /\ storages'[context'[u]][clients'[x].alias] # None
                      /\ \A v \in Tasks \ {u} : pc[v].at = "locking" => pc[v].wrapper # x
                      /\ \A v \in Tasks : \A i \in 1..Len(frames'[v]) : frames'[v][i].wrapper # x
                      /\ \A r \in Live' \ {None}, a \in Aliases : storages'[r][a] # x
    BY <1>1 DEF Waits
  <2>1. u # t /\ context'[u] = context[u]
    BY <1>1, <1>2 DEF Ready, Idle
  <2>2. /\ ~clients[x].final /\ storages[context[u]][clients[x].alias] # None
        /\ \A v \in Tasks \ {u} : pc[v].at = "locking" => pc[v].wrapper # x
        /\ \A v \in Tasks : \A i \in 1..Len(frames[v]) : frames[v][i].wrapper # x
        /\ \A r \in Live \ {None}, a \in Aliases : storages[r][a] # x
    BY DEF Tree, Waits
  <2>3. context[u] \in Live \ {None} /\ x \in Clients /\ clients[x].alias \in Aliases
    <3>1. x \in Clients
      BY <1>0, HeldStay
    <3> QED BY <1>0, <3>1 DEF Types, TypeOK, Client, Idle, Live
  <2>4. x # f.wrapper
    BY <1>1, <2>2
  <2>5. ~clients'[x].final /\ clients'[x].alias = clients[x].alias
    BY <1>1, <2>2, <2>3, <2>4 DEF Same
  <2>6. storages'[context[u]][clients[x].alias] # None
    BY <1>1, <2>2, <2>3 DEF EntriesStay
  <2>7. \A v \in Tasks : \A i \in 1..Len(frames'[v]) : frames'[v][i].wrapper # x
    BY <1>2, <2>2
  <2>8. \A r \in Live' \ {None}, a \in Aliases : storages'[r][a] # x
    BY <1>3, <1>6, <1>9, <2>2
  <2> QED BY <2>1, <2>2, <2>5, <2>6, <2>7, <2>8
<1>13. FromToken'
  <2> SUFFICES ASSUME NEW u \in Tasks, NEW i \in 1..Len(frames'[u]), NEW g, g = frames'[u][i]
               PROVE  /\ ~clients'[g.wrapper].final /\ storages'[g.token][g.alias] # None
                      /\ \A a \in Aliases \ {g.alias} :
                           storages'[Made(u, i)'][a] # None
                             /\ clients'[storages'[Made(u, i)'][a]].parent # None =>
                           storages'[g.token][a] = storages'[Made(u, i)'][a]
    BY DEF FromToken, IsWrapper
  <2>1. /\ i \in 1..Len(frames[u]) /\ g = frames[u][i] /\ Made(u, i)' = Made(u, i)
        /\ u # t \/ i # n
    BY <1>2
  <2>2. g.wrapper # f.wrapper
    BY <1>1, <2>1 DEF Tree, Apart
  <2>3. ~clients[g.wrapper].final /\ storages[g.token][g.alias] # None
    BY <2>1 DEF Tree, FromToken
  <2>4. ~clients'[g.wrapper].final /\ storages'[g.token][g.alias] # None
    BY <1>1, <1>7, <2>1, <2>2, <2>3 DEF EntriesStay
  <2>5. ASSUME NEW a \in Aliases \ {g.alias}, storages'[Made(u, i)][a] # None,
               clients'[storages'[Made(u, i)][a]].parent # None
        PROVE  storages'[g.token][a] = storages'[Made(u, i)][a]
    <3>1. Made(u, i) \in Live \ {None} /\ g.token \in Live \ {None}
      BY <1>7, <2>1
    <3>2. storages'[Made(u, i)][a] \in Clients
      BY <1>3, <1>6, <1>8, <2>5, <3>1
    <3>3. IsWrapper(storages'[Made(u, i)][a])
      BY <1>1, <2>5, <3>2 DEF IsWrapper, Same
    <3>4. storages'[Made(u, i)][a] = storages[Made(u, i)][a]
      BY <1>6, <3>1, <3>3
    <3>5. storages[g.token][a] = storages[Made(u, i)][a]
      BY <2>1, <3>3, <3>4 DEF Tree, FromToken
    <3> QED BY <1>1, <2>5, <3>1, <3>4, <3>5 DEF EntriesStay
  <2> QED BY <2>1, <2>4, <2>5
\* The wrapper that ends now is in no dictionary but the one of its block.
<1>14. ASSUME NEW r \in Live \ {None}, NEW a \in Aliases, storages[r][a] = f.wrapper
       PROVE  r = d
  <2>1. ClosedUnder({d})
    BY <1>4 DEF ClosedUnder
  <2>2. {d} \in SUBSET Storages /\ Made(t, n) \in {d}
    BY <1>1, <1>3
  <2>3. r \in {d}
    BY <1>1, <1>14, <2>1, <2>2 DEF Tree, Below
  <2> QED BY <2>3
<1>15. InUse'
  <2>1. ASSUME NEW a \in Aliases
        PROVE  ~(storages'[Base][a] # None /\ clients'[storages'[Base][a]].parent # None)
    <3>1. Base \in Live \ {None}
      BY FreeOnes DEF Live
    <3>2. ~IsWrapper(storages'[Base][a]) /\ storages'[Base][a] \in Clients \cup {None}
      <4>1. CASE storages'[Base][a] = storages[Base][a]
        BY <1>8, <3>1, <4>1 DEF Tree, InUse
      <4>2. CASE storages'[Base][a] # storages[Base][a]
        BY <1>3, <1>6, <1>8, <3>1, <4>2
      <4> QED BY <4>1, <4>2
    <3> QED BY <1>1, <3>2 DEF IsWrapper, Same
  <2>2. ASSUME NEW r \in Live \ {None, d}, NEW a \in Aliases, storages'[r][a] # None
        PROVE  ~clients'[storages'[r][a]].final
    <3> SUFFICES ASSUME NEW c, c = storages'[r][a] PROVE ~clients'[c].final
      OBVIOUS
    <3>1. c \in Clients /\ ~clients[c].final /\ c # f.wrapper
      <4>1. CASE c = storages[r][a]
        <5>1. ~clients[c].final
          BY <2>2, <4>1 DEF Tree, InUse
        <5> QED BY <1>8, <1>14, <2>2, <4>1, <5>1
      <4>2. CASE c # storages[r][a]
        <5>1. c = storages[d][a] /\ ~IsWrapper(c)
          BY <1>6, <4>2
        <5>2. ~clients[c].final
          BY <1>3, <2>2, <5>1 DEF Tree, InUse
        <5>3. IsWrapper(f.wrapper)
          BY <1>1, <1>7
        <5> QED BY <1>3, <1>8, <2>2, <5>1, <5>2, <5>3
      <4> QED BY <4>1, <4>2
    <3> QED BY <1>1, <3>1
  <2> QED BY <1>9, <2>1, <2>2 DEF InUse, IsWrapper
<1>16. Below'
  <2> SUFFICES ASSUME NEW u \in Tasks, NEW i \in 1..Len(frames'[u]), NEW r \in Live' \ {None},
                      NEW a \in Aliases, storages'[r][a] = frames'[u][i].wrapper,
                      NEW X \in SUBSET Storages, ClosedUnder(X)', Made(u, i)' \in X
               PROVE  r \in X
    BY DEF Below
  <2>1. /\ i \in 1..Len(frames[u]) /\ frames'[u][i] = frames[u][i] /\ Made(u, i) \in X
        /\ r \in Live \ {None} /\ r # d
    BY <1>2, <1>9
  <2>2. storages[r][a] = frames[u][i].wrapper
    BY <1>6, <1>7, <2>1
  <2>3. ClosedUnder(X \cup {d})
    <3> SUFFICES ASSUME NEW v \in Tasks, NEW j \in 1..Len(frames[v]), frames[v][j].token \in X
                 PROVE  Made(v, j) \in X \cup {d}
      BY <1>4 DEF ClosedUnder
    <3>1. CASE j \in 1..Len(frames'[v])
      <4>1. frames'[v][j].token \in X /\ Made(v, j)' = Made(v, j)
        BY <1>2, <3>1
      <4> QED BY <3>1, <4>1 DEF ClosedUnder
    <3>2. CASE v = t /\ j = n
      BY <1>1, <3>2
    <3> QED BY <1>2, <3>1, <3>2
  <2>4. X \cup {d} \in SUBSET Storages /\ Made(u, i) \in X \cup {d}
    BY <1>3, <2>1
  <2>5. r \in X \cup {d}
    BY <2>1, <2>2, <2>3, <2>4 DEF Tree, Below
  <2> QED BY <2>1, <2>5
<1> QED BY <1>10, <1>11, <1>12, <1>13, <1>15, <1>16

LEMMA FilledPlain ==
    ASSUME Types, NEW s, NEW cfg, Filled(storages, s, cfg, storages', clients'),
           UNCHANGED <<context, frames>>
    PROVE  Plain
<1>1. \A t \in Tasks : context'[t] \in Live
  BY DEF Live
<1> QED BY <1>1, FilledOnlyClients, FilledStays DEF Plain

\* A step of tasks that have no block to close, with what it does to the first dictionary.
LEMMA RootFilled ==
    ASSUME Types, NEW t \in Tasks, context[t] # None, Live \ {None} = {Base},
           NEW st, \A a \in Aliases : st[Base][a] \in {None, storages[Base][a]}, NEW cfg,
           Filled(st, context[t], cfg, storages', clients')
    PROVE  /\ context[t] = Base
           /\ \A c \in Clients \ FreeClients : Same(c) /\ clients'[c].final = clients[c].final
           /\ \A a \in Aliases :
                \/ storages'[Base][a] \in {None, storages[Base][a]}
                \/ /\ storages'[Base][a] \in FreeClients
                   /\ clients'[storages'[Base][a]].parent = None
                   /\ ~clients'[storages'[Base][a]].final
<1>1. context[t] = Base
  BY DEF Live
<1> QED BY <1>1 DEF Filled, Alike, Same

LEMMA TreeStep ==
    ASSUME "busy" \notin Features, "outlive" \notin Features
    PROVE  Tree /\ [Next]_vars => Tree'
<1> SUFFICES ASSUME Tree, [Next]_vars
             PROVE  Apart' /\ Rooted' /\ Waits' /\ FromToken' /\ InUse' /\ Below'
  BY BlocksStep DEF Tree
<1> USE DEF vars
<1>0. Blocks /\ Types
  BY DEF Tree, Blocks
<1>1. ASSUME Plain, UNCHANGED pc
      PROVE  Apart' /\ Rooted' /\ Waits' /\ FromToken' /\ InUse' /\ Below'
  <2>1. Waits'
    <3> SUFFICES ASSUME NEW u \in Tasks, pc'[u].at = "locking"
                 PROVE  LET x == pc'[u].wrapper IN
                        /\ ~clients'[x].final /\ storages'[context'[u]][clients'[x].alias] # None
                        /\ \A v \in Tasks \ {u} : pc'[v].at = "locking" => pc'[v].wrapper # x
                        /\ \A v \in Tasks : \A i \in 1..Len(frames'[v]) : frames'[v][i].wrapper # x
                        /\ \A r \in Live' \ {None}, a \in Aliases : storages'[r][a] # x
      BY DEF Waits
    <3> QED BY <1>1, PlainWaits
  <2> QED BY <1>1, <2>1, PlainKeeps
<1>2. ASSUME NEW t \in Tasks, NEW a \in Aliases, Use(t, a)
      PROVE  Apart' /\ Rooted' /\ Waits' /\ FromToken' /\ InUse' /\ Below'
  <2>1. UNCHANGED <<context, frames, pc>>
    BY <1>2 DEF Use
  <2> QED BY <1>0, <1>1, <1>2, <2>1, UseFills, FilledPlain
<1>3. ASSUME NEW t \in Tasks, NEW a \in Aliases, Await(t, a)
      PROVE  Apart' /\ Rooted' /\ Waits' /\ FromToken' /\ InUse' /\ Below'
  <2>1. UNCHANGED <<context, frames, pc>>
    BY <1>3 DEF Await
  <2> QED BY <1>0, <1>1, <1>3, <2>1, AwaitFills, FilledPlain
<1>4. ASSUME NEW t \in Tasks, NEW a \in Aliases, Enter(t, a)
      PROVE  Apart' /\ Rooted' /\ Waits' /\ FromToken' /\ InUse' /\ Below'
  <2>1. UNCHANGED <<context, frames>>
    BY <1>4 DEF Enter
  <2>2. Plain
    BY <1>0, <1>4, <2>1, EnterFills, FilledPlain
  <2>3. PICK w \in FreeClients :
          /\ pc' = [pc EXCEPT ![t] = [at |-> "locking", wrapper |-> w]]
          /\ clients'[w].alias = a /\ ~clients'[w].final
          /\ \A b \in Aliases : storages'[context[t]][b] # w
          /\ storages'[context[t]][a] \in Clients
    BY <1>0, <1>4, EnterFills
  <2>4. pc[t] = Idle /\ Filled(storages, context[t], config, storages', clients')
    BY <1>0, <1>4, EnterFills
  <2>5. /\ \A u \in Tasks \ {t} : pc'[u] = pc[u]
        /\ pc'[t].at = "locking" /\ pc'[t].wrapper = w
    BY <1>0, <2>3 DEF Types
  <2>6. Waits'
    <3> SUFFICES ASSUME NEW u \in Tasks, pc'[u].at = "locking"
                 PROVE  LET x == pc'[u].wrapper IN
                        /\ ~clients'[x].final /\ storages'[context'[u]][clients'[x].alias] # None
                        /\ \A v \in Tasks \ {u} : pc'[v].at = "locking" => pc'[v].wrapper # x
                        /\ \A v \in Tasks : \A i \in 1..Len(frames'[v]) : frames'[v][i].wrapper # x
                        /\ \A r \in Live' \ {None}, b \in Aliases : storages'[r][b] # x
      BY DEF Waits
    <3>1. CASE u # t
      <4>1. \A v \in Tasks : pc'[v].at = "locking" =>
              pc'[v] = pc[v] \/ pc'[v].wrapper \in FreeClients
        BY <2>5
      <4>2. pc'[u] = pc[u] /\ pc[u].at = "locking"
        BY <2>5, <3>1
      <4> QED BY <2>2, <4>1, <4>2, PlainWaits
    <3>2. CASE u = t
      <4>1. storages'[context'[t]][clients'[w].alias] # None
        BY <2>1, <2>3, FreeOnes
      <4>2. \A v \in Tasks \ {t} : pc'[v].at = "locking" => pc'[v].wrapper # w
        BY <1>0, <2>5, HeldStay
      <4>3. \A v \in Tasks : \A i \in 1..Len(frames'[v]) : frames'[v][i].wrapper # w
        BY <1>0, <2>1, HeldStay
      <4>4. ASSUME NEW r \in Live' \ {None}, NEW b \in Aliases
            PROVE  storages'[r][b] # w
        <5>1. r \in Live \ {None}
          BY <1>0, <2>2, LiveStays DEF Plain
        <5>2. storages[r][b] # w /\ r \in Storages
          BY <1>0, <5>1, HeldStay
        <5> QED BY <2>3, <2>4, <5>2 DEF Filled
      <4> QED BY <2>3, <2>5, <3>2, <4>1, <4>2, <4>3, <4>4
    <3> QED BY <3>1, <3>2
  <2> QED BY <2>2, <2>6, PlainKeeps
<1>5. ASSUME NEW t \in Tasks, NEW u \in Tasks, Spawn(t, u)
      PROVE  Apart' /\ Rooted' /\ Waits' /\ FromToken' /\ InUse' /\ Below'
  <2>1. /\ context' = [context EXCEPT ![u] = context[t]] /\ context[u] = None
        /\ UNCHANGED <<storages, clients, frames, pc>>
    BY <1>5 DEF Spawn
  <2>2. /\ \A x \in Tasks : context'[x] \in Live
        /\ \A x \in Tasks \ {u} : context'[x] = context[x]
    BY <1>0, <2>1 DEF Types, TypeOK, Live
  <2>3. frames[u] = <<>> /\ pc[u].at # "locking"
    BY <1>0, <2>1 DEF Types, Idle
  <2>4. Plain
    BY <2>1, <2>2, <2>3 DEF Plain, OnlyClients, EntriesStay, Same
  <2> QED BY <1>1, <2>1, <2>4
<1>6. ASSUME NEW u \in Tasks, End(u)
      PROVE  Apart' /\ Rooted' /\ Waits' /\ FromToken' /\ InUse' /\ Below'
  <2>1. /\ context' = [context EXCEPT ![u] = None] /\ frames[u] = <<>> /\ pc[u] = Idle
        /\ UNCHANGED <<storages, clients, frames, pc>>
    BY <1>6 DEF End, Ready
  <2>2. /\ \A x \in Tasks : context'[x] \in Live \cup {None}
        /\ \A x \in Tasks \ {u} : context'[x] = context[x]
    BY <1>0, <2>1 DEF Types, TypeOK, Live
  <2>3. frames[u] = <<>> /\ pc[u].at # "locking"
    BY <2>1 DEF Idle
  <2>4. Plain
    BY <2>1, <2>2, <2>3 DEF Plain, OnlyClients, EntriesStay, Same
  <2> QED BY <1>1, <2>1, <2>4
<1>7. ASSUME NEW t \in Tasks, Entered(t)
      PROVE  Apart' /\ Rooted' /\ Waits' /\ FromToken' /\ InUse' /\ Below'
  BY <1>7, TreeEntered
<1>8. ASSUME NEW t \in Tasks, Exit(t)
      PROVE  Apart' /\ Rooted' /\ Waits' /\ FromToken' /\ InUse' /\ Below'
  BY <1>8, TreeExit
<1>9. ASSUME NEW t \in Tasks, NEW a \in Aliases, Discard(t, a)
      PROVE  Apart' /\ Rooted' /\ Waits' /\ FromToken' /\ InUse' /\ Below'
  <2>1. /\ UNCHANGED <<frames, context, pc, clients>> /\ Quiet /\ context[t] # None
        /\ storages' = [storages EXCEPT ![context[t]][a] = None]
    BY <1>9 DEF Discard, Ready
  <2>2. \A u \in Tasks : frames[u] = <<>> /\ pc[u].at # "locking"
    BY <2>1, QuietHas DEF Idle
  <2>3. \A b \in Aliases : storages'[Base][b] \in {None, storages[Base][b]}
    BY <1>0, <2>1, FreeOnes DEF Types, TypeOK
  <2>4. UNCHANGED <<frames, context>> /\ \A u \in Tasks : pc'[u].at # "locking"
    BY <2>1, <2>2
  <2>5. \A c \in Clients \ FreeClients : Same(c) /\ clients'[c].final = clients[c].final
    BY <2>1 DEF Same
  <2> QED BY <2>2, <2>3, <2>4, <2>5, NoTree
<1>10. ASSUME NEW t \in Tasks, NEW for \in {"discard", "init", "drop"}, CloseAll(t, for)
       PROVE  Apart' /\ Rooted' /\ Waits' /\ FromToken' /\ InUse' /\ Below'
  <2>1. UNCHANGED <<frames, context>>
    BY <1>10 DEF CloseAll
  <2>2. PICK left \in SUBSET Clients :
          pc' = [pc EXCEPT ![t] = [at |-> "closing", for |-> for, left |-> left]]
    BY <1>0, <1>10, CloseAllFills
  <2>3. Quiet /\ context[t] # None /\ Filled(storages, context[t], config, storages', clients')
    BY <1>0, <1>10, CloseAllFills
  <2>4. \A u \in Tasks : frames[u] = <<>> /\ pc'[u].at # "locking"
    <3>1. pc'[t].at = "closing" /\ \A u \in Tasks \ {t} : pc'[u] = pc[u]
      BY <1>0, <2>2 DEF Types
    <3> QED BY <2>3, <3>1, QuietHas DEF Idle
  <2>5. Live \ {None} = {Base}
    BY <2>4, RootOnly DEF Tree
  <2>6. \A b \in Aliases : storages[Base][b] \in {None, storages[Base][b]}
    OBVIOUS
  <2> QED BY <1>0, <2>1, <2>3, <2>4, <2>5, <2>6, RootFilled, NoTree
<1>11. ASSUME NEW t \in Tasks, CloseOne(t)
       PROVE  Apart' /\ Rooted' /\ Waits' /\ FromToken' /\ InUse' /\ Below'
  <2>1. UNCHANGED <<frames, context, storages>>
    BY <1>11 DEF CloseOne
  <2>2. /\ pc[t].at = "closing" /\ pc'[t].at = "closing"
        /\ \A u \in Tasks \ {t} : pc'[u] = pc[u]
        /\ \A c \in Clients : Alike(clients, c, clients')
    BY <1>0, <1>11, CloseOneDoes
  <2>3. \A u \in Tasks : frames[u] = <<>> /\ pc'[u].at # "locking"
    BY <1>0, <2>2 DEF Blocks, ClosingInv, Idle
  <2>4. \A c \in Clients : Same(c) /\ clients'[c].final = clients[c].final
    BY <2>2 DEF Alike, Same
  <2>5. \A b \in Aliases : storages'[Base][b] \in {None, storages[Base][b]}
    BY <2>1
  <2> QED BY <2>1, <2>3, <2>4, <2>5, NoTree
<1>12. ASSUME NEW t \in Tasks, CloseDone(t)
       PROVE  Apart' /\ Rooted' /\ Waits' /\ FromToken' /\ InUse' /\ Below'
  <2>1. /\ UNCHANGED <<frames, context, clients>> /\ pc[t].at = "closing"
        /\ pc' = [pc EXCEPT ![t] = Idle] /\ storages' = Discarded(t)
    BY <1>12 DEF CloseDone
  <2>2. \A u \in Tasks : frames[u] = <<>> /\ pc'[u].at # "locking"
    <3>1. pc'[t] = Idle /\ \A u \in Tasks \ {t} : pc'[u] = pc[u]
      BY <1>0, <2>1 DEF Types
    <3> QED BY <1>0, <2>1, <3>1 DEF Blocks, ClosingInv, Idle
  <2>3. context[t] # None
    BY <1>0, <2>1 DEF Types, Idle
  <2>4. \A b \in Aliases : storages'[Base][b] \in {None, storages[Base][b]}
    BY <1>0, <2>1, <2>3, DiscardedTypes, FreeOnes
  <2>5. \A c \in Clients : Same(c) /\ clients'[c].final = clients[c].final
    BY <2>1 DEF Same
  <2> QED BY <2>1, <2>2, <2>4, <2>5, NoTree
<1>13. ASSUME NEW t \in Tasks, NEW A \in SUBSET Aliases, NEW v \in Versions,
              NEW ok \in BOOLEAN, Initialise(t, A, v, ok)
       PROVE  Apart' /\ Rooted' /\ Waits' /\ FromToken' /\ InUse' /\ Below'
  <2> DEFINE st == IF inited THEN Discarded(t) ELSE storages
  <2>1. UNCHANGED <<frames, context>> /\ pc' = [pc EXCEPT ![t] = Idle]
    BY <1>13 DEF Initialise
  <2>2. /\ Filled(st, context[t], config', storages', clients') /\ context[t] # None
        /\ Quiet \/ pc[t].at = "closing"
    BY <1>0, <1>13, InitialiseFills
  <2>3. \A u \in Tasks : frames[u] = <<>> /\ pc'[u].at # "locking"
    <3>1. pc'[t] = Idle /\ \A u \in Tasks \ {t} : pc'[u] = pc[u]
      BY <1>0, <2>1 DEF Types
    <3> QED BY <1>0, <2>2, <3>1, QuietHas DEF Blocks, ClosingInv, Idle
  <2>4. \A b \in Aliases : st[Base][b] \in {None, storages[Base][b]}
    BY <1>0, <2>2, DiscardedTypes, FreeOnes
  <2>5. Live \ {None} = {Base}
    BY <2>3, RootOnly DEF Tree
  <2> HIDE DEF st
  <2> PICK cfg : cfg = config'
    OBVIOUS
  <2>6. Filled(st, context[t], cfg, storages', clients')
    BY <2>2
  <2> QED BY <1>0, <2>1, <2>2, <2>3, <2>4, <2>5, <2>6, RootFilled, NoTree
<1>14. ASSUME UNCHANGED vars
       PROVE  Apart' /\ Rooted' /\ Waits' /\ FromToken' /\ InUse' /\ Below'
  <2>1. UNCHANGED <<storages, context, clients, frames, pc>>
    BY <1>14
  <2>2. \A u \in Tasks : context'[u] \in Live
    BY <2>1 DEF Live
  <2>3. Plain
    BY <2>1, <2>2 DEF Plain, OnlyClients, EntriesStay, Same
  <2> QED BY <1>1, <2>1, <2>3
<1> QED BY <1>2, <1>3, <1>4, <1>5, <1>6, <1>7, <1>8, <1>9, <1>10, <1>11, <1>12, <1>13, <1>14
        DEF Next

LEMMA TreeInit == Init => Tree
<1> SUFFICES ASSUME Init PROVE Tree
  OBVIOUS
<1>1. /\ \A t \in Tasks : frames[t] = <<>> /\ pc[t] = Idle /\ context[t] \in {None, Base}
      /\ \A s \in Storages, a \in Aliases : storages[s][a] = None
  BY DEF Init, Empty
<1>2. \A t \in Tasks : 1..Len(frames[t]) = {} /\ DOMAIN frames[t] = {}
  BY <1>1
<1>3. Apart /\ Waits /\ FromToken /\ Below
  BY <1>1, <1>2 DEF Apart, Waits, FromToken, Below, Idle
<1>4. Live \subseteq {None, Base}
  BY <1>1, <1>2 DEF Live, Tokens
<1>5. Rooted /\ InUse
  BY <1>1, <1>4, FreeOnes DEF Rooted, InUse, IsWrapper
<1> QED BY <1>3, <1>5, BlocksInit DEF Tree

\* connections.get() never gives a task the wrapper of a block that has ended: reset()
\* carries clients out of a block's dictionary, wrappers never; tasks spawned inside of a
\* block end before it, and connections are closed outside of blocks.
THEOREM EndedWrappersForgotten ==
    ASSUME "busy" \notin Features, "outlive" \notin Features
    PROVE  Spec => []NoEndedWrapper
<1>1. Tree => NoEndedWrapper
  <2> SUFFICES ASSUME Tree, NEW t \in Tasks, context[t] # None, NEW a \in Aliases,
                      Storage(t)[a] # None
               PROVE  ~clients[Storage(t)[a]].final
    BY DEF NoEndedWrapper
  <2>1. context[t] \in Live \ {None}
    BY DEF Live
  <2> QED BY <2>1 DEF Tree, InUse, Storage
<1> QED BY <1>1, TreeInit, TreeStep, PTL DEF Spec

-----------------------------------------------------------------------------
(* Configurations, when init() does not fail.                              *)

\* The clients in use were made from the settings in force.
Settled ==
    /\ ~inited => \A a \in Aliases : config[a] = None
    /\ \A s \in Live \ {None}, a \in Aliases :
         LET c == storages[s][a] IN
         c # None /\ clients[c].parent = None => clients[c].built = config[a] /\ config[a] # None

\* An entry of a dictionary is nothing, was in a dictionary under this alias, or is new:
\* a wrapper or a client of the alias, made from its settings.
Sourced ==
    /\ \A s \in Live' \ {None}, a \in Aliases :
         LET c == storages'[s][a] IN
         \/ c = None
         \/ \E r \in Live \ {None} : c = storages[r][a]
         \/ /\ clients'[c].alias = a
            /\ clients'[c].parent # None \/ (clients'[c].built = config'[a] /\ config'[a] # None)
    /\ \A c \in Clients \ FreeClients : Same(c)

LEMMA SourcedFilled ==
    ASSUME Types, NEW s, NEW st, NEW cfg, cfg = config',
           \A r \in Live \ {None}, a \in Aliases : st[r][a] \in {None, storages[r][a]},
           Filled(st, s, cfg, storages', clients'), UNCHANGED <<context, frames>>
    PROVE  Sourced
<1>1. Live' = Live
  BY DEF Live, Tokens
<1>2. ASSUME NEW r \in Live' \ {None}, NEW a \in Aliases
      PROVE  \/ storages'[r][a] \in {None, storages[r][a]}
             \/ /\ clients'[storages'[r][a]].alias = a
                /\ clients'[storages'[r][a]].built = config'[a] /\ config'[a] # None
  <2>1. r \in Live \ {None} /\ r \in Storages
    BY <1>1, HeldStay
  <2> QED BY <2>1 DEF Filled
<1>3. \A c \in Clients \ FreeClients : Same(c)
  BY DEF Filled, Alike, Same
<1> QED BY <1>1, <1>2, <1>3 DEF Sourced

LEMMA SourcedStep ==
    ASSUME "busy" \notin Features, "outlive" \notin Features
    PROVE  Tree /\ [Next]_vars => Sourced
<1> SUFFICES ASSUME Tree, [Next]_vars PROVE Sourced
  OBVIOUS
<1> USE DEF vars
<1>0. Types
  BY DEF Tree, Blocks
\* The steps that make clients.
<1>1. ASSUME NEW t \in Tasks, Filled(storages, context[t], config, storages', clients'),
             UNCHANGED <<config, context, frames>>
      PROVE  Sourced
  BY <1>0, <1>1, SourcedFilled
<1>2. ASSUME NEW t \in Tasks, NEW a \in Aliases, Use(t, a)
      PROVE  Sourced
  BY <1>0, <1>1, <1>2, UseFills DEF Use
<1>3. ASSUME NEW t \in Tasks, NEW a \in Aliases, Await(t, a)
      PROVE  Sourced
  <2>1. UNCHANGED <<config, context, frames>>
    BY <1>3 DEF Await
  <2> QED BY <1>0, <1>1, <1>3, <2>1, AwaitFills
<1>4. ASSUME NEW t \in Tasks, NEW a \in Aliases, Enter(t, a)
      PROVE  Sourced
  <2>1. UNCHANGED <<config, context, frames>>
    BY <1>4 DEF Enter
  <2> QED BY <1>0, <1>1, <1>4, <2>1, EnterFills
<1>5. ASSUME NEW t \in Tasks, NEW for \in {"discard", "init", "drop"}, CloseAll(t, for)
      PROVE  Sourced
  <2>1. UNCHANGED <<config, context, frames>>
    BY <1>5 DEF CloseAll
  <2> QED BY <1>0, <1>1, <1>5, <2>1, CloseAllFills
<1>6. ASSUME NEW t \in Tasks, NEW A \in SUBSET Aliases, NEW v \in Versions,
             NEW ok \in BOOLEAN, Initialise(t, A, v, ok)
      PROVE  Sourced
  <2> DEFINE st == IF inited THEN Discarded(t) ELSE storages
  <2>1. UNCHANGED <<frames, context>>
    BY <1>6 DEF Initialise
  <2>2. Filled(st, context[t], config', storages', clients') /\ context[t] # None
    BY <1>0, <1>6, InitialiseFills
  <2>3. \A r \in Live \ {None}, a \in Aliases : st[r][a] \in {None, storages[r][a]}
    BY <1>0, <2>2, DiscardedTypes, HeldStay
  <2> HIDE DEF st
  <2> PICK cfg : cfg = config'
    OBVIOUS
  <2>4. Filled(st, context[t], cfg, storages', clients')
    BY <2>2
  <2> QED BY <1>0, <2>1, <2>3, <2>4, SourcedFilled
<1>7. ASSUME NEW t \in Tasks, Entered(t)
      PROVE  Sourced
  <2> SUFFICES ASSUME NEW w, w = pc[t].wrapper, NEW al, al = clients[w].alias,
                      NEW s, s = Least(FreeStorages), NEW n, n = Len(frames[t]),
                      NEW f, f = [alias |-> al, wrapper |-> w, token |-> context[t]]
               PROVE  Sourced
    OBVIOUS
  <2>1. /\ pc[t].at = "locking" /\ clients' = clients /\ context[t] \in Live \ {None}
        /\ s \notin Live /\ storages'[s][al] = w
        /\ \A a \in Aliases \ {al} : storages'[s][a] = storages[context[t]][a]
        /\ \A r \in Storages \ {s} : storages'[r] = storages[r]
        /\ Live' \subseteq Live \cup {s}
    BY <1>0, <1>7, EnteredDoes
  <2>2. clients[w].parent # None
    BY <2>1 DEF Tree, Blocks, WaitsForAnother
  <2>3. ASSUME NEW r \in Live' \ {None}, NEW a \in Aliases
        PROVE  \/ clients'[storages'[r][a]].alias = a /\ clients'[storages'[r][a]].parent # None
               \/ \E q \in Live \ {None} : storages'[r][a] = storages[q][a]
    <3>1. CASE r = s
      BY <2>1, <2>2, <3>1
    <3>2. CASE r \in Live
      <4>1. r \in Storages \ {s}
        BY <1>0, <2>1, <3>2, HeldStay
      <4> QED BY <2>1, <3>2, <4>1
    <3> QED BY <2>1, <3>1, <3>2
  <2> QED BY <2>1, <2>3 DEF Sourced, Same
<1>8. ASSUME NEW t \in Tasks, Exit(t)
      PROVE  Sourced
  <2> SUFFICES ASSUME NEW n, n = Len(frames[t]), NEW f, f = frames[t][n]
               PROVE  Sourced
    OBVIOUS
  <2>1. /\ \A a \in Aliases :
             storages'[f.token][a] \in {storages[f.token][a], storages[context[t]][a]}
        /\ \A r \in Storages \ {f.token} : storages'[r] = storages[r]
        /\ \A c \in Clients : Same(c)
    BY <1>0, <1>8, ExitDoes
  <2>2. Live' \ {None} \subseteq Live \ {None} /\ context[t] \in Live \ {None}
    BY <1>8, ExitLive
  <2>3. ASSUME NEW r \in Live' \ {None}, NEW a \in Aliases
        PROVE  \E q \in Live \ {None} : storages'[r][a] = storages[q][a]
    <3>1. r \in Live \ {None} /\ r \in Storages
      BY <1>0, <2>2, HeldStay
    <3> QED BY <2>1, <2>2, <3>1
  <2> QED BY <2>1, <2>3 DEF Sourced
\* The steps that leave dictionaries as they are, or drop entries.
<1>9. ASSUME Live' \ {None} \subseteq Live \ {None}, \A c \in Clients : Same(c),
             \A s \in Storages, a \in Aliases : storages'[s][a] \in {None, storages[s][a]}
      PROVE  Sourced
  <2>1. \A s \in Live' \ {None}, a \in Aliases :
          storages'[s][a] = None \/ \E r \in Live \ {None} : storages'[s][a] = storages[r][a]
    BY <1>0, <1>9, HeldStay
  <2> QED BY <1>9, <2>1 DEF Sourced
<1>10. ASSUME NEW t \in Tasks, NEW u \in Tasks, Spawn(t, u)
       PROVE  Sourced
  <2>1. /\ context' = [context EXCEPT ![u] = context[t]]
        /\ UNCHANGED <<storages, clients, frames>>
    BY <1>10 DEF Spawn
  <2>2. \A x \in Tasks : context'[x] \in Live \cup {None}
    BY <1>0, <2>1 DEF Types, TypeOK, Live
  <2>3. Live' \subseteq Live \cup {None}
    BY <1>0, <2>1, <2>2, LiveStays
  <2> QED BY <1>9, <2>1, <2>3 DEF Same
<1>11. ASSUME NEW u \in Tasks, End(u)
       PROVE  Sourced
  <2>1. /\ context' = [context EXCEPT ![u] = None]
        /\ UNCHANGED <<storages, clients, frames>>
    BY <1>11 DEF End
  <2>2. \A x \in Tasks : context'[x] \in Live \cup {None}
    BY <1>0, <2>1 DEF Types, TypeOK, Live
  <2>3. Live' \subseteq Live \cup {None}
    BY <1>0, <2>1, <2>2, LiveStays
  <2> QED BY <1>9, <2>1, <2>3 DEF Same
<1>12. ASSUME NEW t \in Tasks, NEW a \in Aliases, Discard(t, a)
       PROVE  Sourced
  <2>1. /\ UNCHANGED <<context, clients, frames>>
        /\ storages' = [storages EXCEPT ![context[t]][a] = None]
    BY <1>12 DEF Discard
  <2>2. Live' = Live
    BY <2>1 DEF Live, Tokens
  <2>3. \A s \in Storages, b \in Aliases : storages'[s][b] \in {None, storages[s][b]}
    BY <1>0, <2>1 DEF Types, TypeOK
  <2> QED BY <1>9, <2>1, <2>2, <2>3 DEF Same
<1>13. ASSUME NEW t \in Tasks, CloseOne(t)
       PROVE  Sourced
  <2>1. UNCHANGED <<storages, context, frames>>
    BY <1>13 DEF CloseOne
  <2>2. Live' = Live
    BY <2>1 DEF Live, Tokens
  <2>3. \A c \in Clients : Same(c)
    BY <1>0, <1>13, CloseOneDoes DEF Alike, Same
  <2> QED BY <1>9, <2>1, <2>2, <2>3
<1>14. ASSUME NEW t \in Tasks, CloseDone(t)
       PROVE  Sourced
  <2>1. /\ UNCHANGED <<context, clients, frames>> /\ pc[t].at = "closing"
        /\ storages' = Discarded(t)
    BY <1>14 DEF CloseDone
  <2>2. Live' = Live
    BY <2>1 DEF Live, Tokens
  <2>3. context[t] # None
    BY <1>0, <2>1 DEF Types, Idle
  <2>4. \A s \in Storages, b \in Aliases : storages'[s][b] \in {None, storages[s][b]}
    BY <1>0, <2>1, <2>3, DiscardedTypes
  <2> QED BY <1>9, <2>1, <2>2, <2>4 DEF Same
<1>15. ASSUME UNCHANGED vars
       PROVE  Sourced
  <2>1. Live' = Live
    BY <1>15 DEF Live, Tokens
  <2> QED BY <1>9, <1>15, <2>1 DEF Same
<1> QED BY <1>2, <1>3, <1>4, <1>5, <1>6, <1>7, <1>8, <1>10, <1>11, <1>12, <1>13, <1>14, <1>15
        DEF Next

LEMMA SettledInitialise ==
    ASSUME "busy" \notin Features, "fail" \notin Features, Tree, Settled,
           NEW t \in Tasks, NEW A \in SUBSET Aliases, NEW v \in Versions,
           NEW ok \in BOOLEAN, Initialise(t, A, v, ok)
    PROVE  Settled'
<1> DEFINE st == IF inited THEN Discarded(t) ELSE storages
<1>0. Blocks /\ Types
  BY DEF Tree, Blocks
<1>1. UNCHANGED <<frames, context>> /\ inited'
  BY DEF Initialise
<1>2. /\ Filled(st, context[t], config', storages', clients') /\ context[t] # None
      /\ Quiet \/ pc[t].at = "closing"
  BY <1>0, InitialiseFills
<1>3. \A u \in Tasks : frames[u] = <<>>
  BY <1>0, <1>2, QuietHas DEF Blocks, ClosingInv
<1>4. Live \ {None} = {Base} /\ Live' = Live
  <2>1. Live' = Live
    BY <1>1 DEF Live, Tokens
  <2>2. Rooted
    BY DEF Tree
  <2> QED BY <1>3, <2>1, <2>2, RootOnly
<1>5. context[t] = Base
  BY <1>2, <1>4 DEF Live
<1>6. ASSUME NEW a \in Aliases
      PROVE  st[Base][a] = None
  <2>1. storages[Base][a] # None => config[a] # None
    BY <1>4 DEF Tree, InUse, IsWrapper, Settled
  <2>2. CASE inited
    BY <1>0, <1>2, <1>5, <2>1, <2>2, DiscardedTypes, FreeOnes
  <2>3. CASE ~inited
    BY <2>1, <2>3 DEF Settled
  <2> QED BY <2>2, <2>3
<1> HIDE DEF st
<1>7. ASSUME NEW a \in Aliases, storages'[Base][a] # None
      PROVE  clients'[storages'[Base][a]].built = config'[a] /\ config'[a] # None
  BY <1>2, <1>5, <1>6, <1>7 DEF Filled
<1> QED BY <1>1, <1>4, <1>7 DEF Settled

LEMMA SettledStep ==
    ASSUME "busy" \notin Features, "outlive" \notin Features, "fail" \notin Features
    PROVE  Tree /\ Settled /\ [Next]_vars => Settled'
<1> SUFFICES ASSUME Tree, Settled, [Next]_vars PROVE Settled'
  OBVIOUS
<1> USE DEF vars
<1>0. Types /\ Sourced
  BY SourcedStep DEF Tree, Blocks
<1>1. CASE UNCHANGED <<config, inited>>
  <2>1. ASSUME NEW s \in Live' \ {None}, NEW a \in Aliases, storages'[s][a] # None,
               clients'[storages'[s][a]].parent = None
        PROVE  clients'[storages'[s][a]].built = config[a] /\ config[a] # None
    <3>1. CASE \E r \in Live \ {None} : storages'[s][a] = storages[r][a]
      <4>1. PICK r \in Live \ {None} : storages'[s][a] = storages[r][a]
        BY <3>1
      <4>2. storages[r][a] \in Clients \ FreeClients
        BY <1>0, <2>1, <4>1, HeldStay DEF Types, TypeOK
      <4> QED BY <1>0, <2>1, <4>1, <4>2 DEF Sourced, Settled, Same
    <3> QED BY <1>0, <1>1, <2>1, <3>1 DEF Sourced
  <2> QED BY <1>1, <2>1 DEF Settled
<1>2. ASSUME NEW t \in Tasks, NEW A \in SUBSET Aliases, NEW v \in Versions,
             NEW ok \in BOOLEAN, Initialise(t, A, v, ok)
      PROVE  Settled'
  BY <1>2, SettledInitialise
<1>3. ASSUME NEW t \in Tasks, NEW a \in Aliases, Use(t, a) \/ Enter(t, a) \/ Discard(t, a)
      PROVE  UNCHANGED <<config, inited>>
  BY <1>3 DEF Use, Enter, Discard
<1>4. ASSUME NEW t \in Tasks, NEW a \in Aliases, Await(t, a)
      PROVE  UNCHANGED <<config, inited>>
  BY <1>4 DEF Await
<1>5. ASSUME NEW t \in Tasks, \/ Entered(t) \/ Exit(t) \/ End(t) \/ CloseOne(t) \/ CloseDone(t)
      PROVE  UNCHANGED <<config, inited>>
  BY <1>5 DEF Entered, Exit, End, CloseOne, CloseDone
<1>6. ASSUME NEW t \in Tasks, NEW u \in Tasks, Spawn(t, u)
      PROVE  UNCHANGED <<config, inited>>
  BY <1>6 DEF Spawn
<1>7. ASSUME NEW t \in Tasks, NEW for \in {"discard", "init", "drop"}, CloseAll(t, for)
      PROVE  UNCHANGED <<config, inited>>
  BY <1>7 DEF CloseAll
<1> QED BY <1>1, <1>2, <1>3, <1>4, <1>5, <1>6, <1>7 DEF Next

\* The clients that tasks get were made from the settings in force, when aliases were
\* added, changed or left out by another init() too, if that one does not fail.
THEOREM ClientsFollowConfig ==
    ASSUME "busy" \notin Features, "outlive" \notin Features, "fail" \notin Features
    PROVE  Spec => []ClientsMatchConfig
<1>1. Init => Settled
  BY FreeOnes DEF Init, Settled, Empty, Live, Tokens
<1>2. Tree /\ Settled => ClientsMatchConfig
  BY DEF Settled, ClientsMatchConfig, Live, Storage
<1> QED BY <1>1, <1>2, TreeInit, TreeStep, SettledStep, PTL DEF Spec

-----------------------------------------------------------------------------
(* Which clients are forgotten.                                            *)

\* Dictionaries have clients under their own alias.
Named ==
    \A s \in Live \ {None}, a \in Aliases :
        storages[s][a] # None => clients[storages[s][a]].alias = a

\* A wrapper is of the alias of the client that it was made from.
Kin ==
    \A t \in Tasks :
        /\ \A i \in 1..Len(frames[t]) :
             clients[clients[frames[t][i].wrapper].parent].alias = frames[t][i].alias
        /\ pc[t].at = "locking" =>
             clients[clients[pc[t].wrapper].parent].alias = clients[pc[t].wrapper].alias

\* close_all() has registered clients left to close; the other ones are closed.
LeftOpen ==
    \A t \in Tasks : pc[t].at = "closing" =>
        /\ pc[t].left \subseteq {storages[context[t]][a] : a \in Aliases}
        /\ \A a \in Configured :
             LET c == storages[context[t]][a] IN
             c \in Clients \ pc[t].left => clients[c].conn # "open"

Registered == Named /\ Kin /\ LeftOpen

LEMMA NamedStep ==
    ASSUME Types, Named, Sourced
    PROVE  Named'
<1>1. ASSUME NEW s \in Live' \ {None}, NEW a \in Aliases, storages'[s][a] # None
      PROVE  clients'[storages'[s][a]].alias = a
  <2>1. CASE \E r \in Live \ {None} : storages'[s][a] = storages[r][a]
    <3>1. PICK r \in Live \ {None} : storages'[s][a] = storages[r][a]
      BY <2>1
    <3>2. storages[r][a] \in Clients \ FreeClients
      BY <1>1, <3>1, HeldStay DEF Types, TypeOK
    <3> QED BY <1>1, <3>1, <3>2 DEF Sourced, Named, Same
  <2> QED BY <1>1, <2>1 DEF Sourced
<1> QED BY <1>1 DEF Named

\* The wrapper of a block, and of a task that waits for a lock, after a step.
LEMMA KinStays ==
    ASSUME Blocks, Kin, \A c \in Clients \ FreeClients : Same(c), NEW t \in Tasks
    PROVE  /\ \A i \in 1..Len(frames[t]) :
                clients'[clients'[frames[t][i].wrapper].parent].alias = frames[t][i].alias
           /\ pc[t].at = "locking" =>
                /\ clients'[pc[t].wrapper].alias = clients[pc[t].wrapper].alias
                /\ clients'[clients'[pc[t].wrapper].parent].alias = clients[pc[t].wrapper].alias
<1>0. Types
  BY DEF Blocks
<1>1. ASSUME NEW w \in Held \ {None}, w \in Clients, clients[w].parent # None
      PROVE  /\ clients'[w].alias = clients[w].alias
             /\ clients'[clients'[w].parent].alias = clients[clients[w].parent].alias
  <2>1. w \in Referenced /\ clients[w].parent \in Referenced
    BY <1>1 DEF Referenced
  <2>2. clients[w].parent \in Clients
    BY <1>0, <1>1 DEF Types, TypeOK, Client
  <2>3. Same(w) /\ Same(clients[w].parent)
    BY <1>1, <2>1, <2>2 DEF FreeClients
  <2> QED BY <2>3 DEF Same
<1>2. ASSUME NEW i \in 1..Len(frames[t])
      PROVE  clients'[clients'[frames[t][i].wrapper].parent].alias = frames[t][i].alias
  <2>1. i \in DOMAIN frames[t] /\ frames[t][i].wrapper \in Clients
    BY <1>0, FrameType
  <2>2. frames[t][i].wrapper \in Held \ {None}
    BY <2>1, FreeOnes DEF Held
  <2>3. clients[frames[t][i].wrapper].parent # None
    BY DEF Blocks, HoldsOwn
  <2> QED BY <1>1, <2>1, <2>2, <2>3 DEF Kin
<1>3. ASSUME pc[t].at = "locking"
      PROVE  /\ clients'[pc[t].wrapper].alias = clients[pc[t].wrapper].alias
             /\ clients'[clients'[pc[t].wrapper].parent].alias = clients[pc[t].wrapper].alias
  <2>1. pc[t].wrapper \in Clients
    BY <1>0, <1>3, PcKinds
  <2>2. pc[t].wrapper \in Held \ {None}
    BY <1>3, <2>1, FreeOnes DEF Held, Waiting
  <2>3. clients[pc[t].wrapper].parent # None
    BY <1>3 DEF Blocks, WaitsForAnother
  <2> QED BY <1>1, <1>3, <2>1, <2>2, <2>3 DEF Kin
<1> QED BY <1>2, <1>3

\* Which steps let a task wait for a lock, or close connections.
LEMMA PcMoves ==
    ASSUME Types, [Next]_vars, NEW u \in Tasks
    PROVE  \/ pc'[u] = pc[u] \/ pc'[u] = Idle
           \/ \E a \in Aliases : Enter(u, a)
           \/ \E for \in {"discard", "init", "drop"} : CloseAll(u, for)
           \/ CloseOne(u)
<1> USE DEF Types, vars
<1>1. ASSUME NEW t \in Tasks, NEW a \in Aliases, Use(t, a) \/ Discard(t, a)
      PROVE  UNCHANGED pc
  BY <1>1 DEF Use, Discard
<1>2. ASSUME NEW t \in Tasks, NEW a \in Aliases, Await(t, a)
      PROVE  UNCHANGED pc
  BY <1>2 DEF Await
<1>3. ASSUME NEW t \in Tasks, NEW a \in Aliases, Enter(t, a)
      PROVE  t = u \/ pc'[u] = pc[u]
  BY <1>3 DEF Enter
<1>4. ASSUME NEW t \in Tasks, Entered(t) \/ CloseDone(t)
      PROVE  pc'[u] = pc[u] \/ pc'[u] = Idle
  BY <1>4 DEF Entered, CloseDone
<1>5. ASSUME NEW t \in Tasks, Exit(t) \/ End(t)
      PROVE  UNCHANGED pc
  BY <1>5 DEF Exit, End
<1>6. ASSUME NEW t \in Tasks, CloseOne(t)
      PROVE  t = u \/ pc'[u] = pc[u]
  BY <1>6 DEF CloseOne
<1>7. ASSUME NEW t \in Tasks, NEW x \in Tasks, Spawn(t, x)
      PROVE  UNCHANGED pc
  BY <1>7 DEF Spawn
<1>8. ASSUME NEW t \in Tasks, NEW for \in {"discard", "init", "drop"}, CloseAll(t, for)
      PROVE  t = u \/ pc'[u] = pc[u]
  BY <1>8 DEF CloseAll
<1>9. ASSUME NEW t \in Tasks, NEW A \in SUBSET Aliases, NEW v \in Versions,
             NEW ok \in BOOLEAN, Initialise(t, A, v, ok)
      PROVE  pc'[u] = pc[u] \/ pc'[u] = Idle
  BY <1>9 DEF Initialise
<1> QED BY <1>1, <1>2, <1>3, <1>4, <1>5, <1>6, <1>7, <1>8, <1>9 DEF Next

LEMMA FramesMove ==
    ASSUME [Next]_vars
    PROVE  UNCHANGED frames \/ \E t \in Tasks : Entered(t) \/ Exit(t)
<1> USE DEF vars
<1>1. ASSUME NEW t \in Tasks, NEW a \in Aliases, Use(t, a) \/ Discard(t, a) \/ Await(t, a)
      PROVE  UNCHANGED frames
  BY <1>1 DEF Use, Discard, Await
<1>2. ASSUME NEW t \in Tasks, NEW a \in Aliases, Enter(t, a)
      PROVE  UNCHANGED frames
  BY <1>2 DEF Enter
<1>3. ASSUME NEW t \in Tasks, End(t) \/ CloseOne(t) \/ CloseDone(t)
      PROVE  UNCHANGED frames
  BY <1>3 DEF End, CloseOne, CloseDone
<1>4. ASSUME NEW t \in Tasks, NEW x \in Tasks, Spawn(t, x)
      PROVE  UNCHANGED frames
  BY <1>4 DEF Spawn
<1>5. ASSUME NEW t \in Tasks, NEW for \in {"discard", "init", "drop"}, CloseAll(t, for)
      PROVE  UNCHANGED frames
  BY <1>5 DEF CloseAll
<1>6. ASSUME NEW t \in Tasks, NEW A \in SUBSET Aliases, NEW v \in Versions,
             NEW ok \in BOOLEAN, Initialise(t, A, v, ok)
      PROVE  UNCHANGED frames
  BY <1>6 DEF Initialise
<1> QED BY <1>1, <1>2, <1>3, <1>4, <1>5, <1>6 DEF Next

LEMMA KinStep ==
    ASSUME Blocks, Kin, Named', \A c \in Clients \ FreeClients : Same(c), [Next]_vars
    PROVE  Kin'
<1>0. Types
  BY DEF Blocks
<1>1. ASSUME NEW u \in Tasks, pc'[u].at = "locking"
      PROVE  clients'[clients'[pc'[u].wrapper].parent].alias = clients'[pc'[u].wrapper].alias
  <2>1. CASE pc'[u] = pc[u]
    BY <1>1, <2>1, KinStays
  <2>2. ASSUME NEW a \in Aliases, Enter(u, a)
        PROVE  clients'[clients'[pc'[u].wrapper].parent].alias = clients'[pc'[u].wrapper].alias
    <3>1. PICK w \in FreeClients :
            /\ pc' = [pc EXCEPT ![u] = [at |-> "locking", wrapper |-> w]]
            /\ clients'[w].alias = a
            /\ clients'[w].parent = storages'[context[u]][a]
            /\ storages'[context[u]][a] \in Clients
      BY <1>0, <2>2, EnterFills
    <3>2. pc'[u].wrapper = w
      BY <1>0, <3>1 DEF Types
    <3>3. context[u] \in Live' \ {None}
      <4>1. context[u] # None
        BY <1>0, <2>2, EnterFills
      <4>2. context' = context
        BY <2>2 DEF Enter
      <4> QED BY <4>1, <4>2 DEF Live
    <3>4. clients'[storages'[context[u]][a]].alias = a
      BY <3>1, <3>3, FreeOnes DEF Named
    <3> QED BY <3>1, <3>2, <3>4
  <2>3. ASSUME NEW for \in {"discard", "init", "drop"}, CloseAll(u, for)
        PROVE  FALSE
    <3>1. PICK left : pc' = [pc EXCEPT ![u] = [at |-> "closing", for |-> for, left |-> left]]
      BY <1>0, <2>3, CloseAllFills
    <3>2. pc'[u].at = "closing"
      BY <1>0, <3>1 DEF Types
    <3> QED BY <1>1, <3>2
  <2> QED BY <1>0, <1>1, <2>1, <2>2, <2>3, PcMoves, CloseOneDoes DEF Idle
<1>2. ASSUME NEW u \in Tasks, NEW i \in 1..Len(frames'[u])
      PROVE  clients'[clients'[frames'[u][i].wrapper].parent].alias = frames'[u][i].alias
  <2>1. CASE i \in 1..Len(frames[u]) /\ frames'[u][i] = frames[u][i]
    BY <2>1, KinStays
  <2>2. CASE UNCHANGED frames
    BY <2>1, <2>2
  <2>3. ASSUME NEW t \in Tasks, Entered(t)
        PROVE  clients'[clients'[frames'[u][i].wrapper].parent].alias = frames'[u][i].alias
    <3> SUFFICES ASSUME NEW w, w = pc[t].wrapper, NEW al, al = clients[w].alias,
                        NEW s, s = Least(FreeStorages), NEW n, n = Len(frames[t]),
                        NEW f, f = [alias |-> al, wrapper |-> w, token |-> context[t]]
                 PROVE  clients'[clients'[frames'[u][i].wrapper].parent].alias = frames'[u][i].alias
      OBVIOUS
    <3>1. /\ pc[t].at = "locking" /\ clients' = clients
          /\ frames'[t][n + 1] = f
          /\ \A j \in 1..Len(frames[u]) : frames'[u][j] = frames[u][j]
          /\ i \in 1..Len(frames[u]) \/ (u = t /\ i = n + 1)
      BY <1>0, <2>3, EnteredDoes
    <3>2. CASE u = t /\ i = n + 1
      BY <3>1, <3>2 DEF Kin
    <3> QED BY <2>1, <3>1, <3>2
  <2>4. ASSUME NEW t \in Tasks, Exit(t)
        PROVE  i \in 1..Len(frames[u]) /\ frames'[u][i] = frames[u][i]
    <3> SUFFICES ASSUME NEW n, n = Len(frames[t]), NEW f, f = frames[t][n]
                 PROVE  i \in 1..Len(frames[u]) /\ frames'[u][i] = frames[u][i]
      OBVIOUS
    <3> QED BY <1>0, <2>4, ExitDoes
  <2> QED BY <2>1, <2>2, <2>3, <2>4, FramesMove
<1> QED BY <1>1, <1>2 DEF Kin

\* While a task closes connections, nothing else happens.
LEMMA ClosingSteps ==
    ASSUME "busy" \notin Features, Blocks, [Next]_vars, NEW t \in Tasks,
           pc[t].at = "closing", pc'[t].at = "closing"
    PROVE  CloseOne(t) \/ UNCHANGED vars
<1>0. Types
  BY DEF Blocks
<1>1. ASSUME NEW u \in Tasks
      PROVE  ~Ready(u) /\ pc[u].at # "locking" /\ (u # t => pc[u].at # "closing")
  BY <1>1 DEF Ready, Blocks, ClosingInv, Idle
<1>2. ASSUME NEW u \in Tasks, NEW a \in Aliases
      PROVE  ~Use(u, a) /\ ~Enter(u, a) /\ ~Discard(u, a) /\ ~Await(u, a)
  BY <1>1 DEF Use, Enter, Discard, Await
<1>3. ASSUME NEW u \in Tasks
      PROVE  ~Entered(u) /\ ~Exit(u) /\ ~End(u)
  BY <1>1 DEF Entered, Exit, End
<1>4. ASSUME NEW u \in Tasks, NEW x \in Tasks
      PROVE  ~Spawn(u, x)
  BY <1>1 DEF Spawn
<1>5. ASSUME NEW u \in Tasks, NEW for \in {"discard", "init", "drop"}
      PROVE  ~CloseAll(u, for)
  BY <1>1 DEF CloseAll
<1>6. ASSUME NEW u \in Tasks
      PROVE  ~CloseDone(u) /\ (CloseOne(u) => u = t)
  BY <1>0, <1>1 DEF CloseDone, CloseOne, Types, Idle
<1>7. ASSUME NEW u \in Tasks, NEW A \in SUBSET Aliases, NEW v \in Versions, NEW ok \in BOOLEAN
      PROVE  ~Initialise(u, A, v, ok)
  BY <1>0, <1>1 DEF Initialise, InitReady, Types, Idle
<1> QED BY <1>2, <1>3, <1>4, <1>5, <1>6, <1>7 DEF Next

LEMMA LeftOpenStep ==
    ASSUME "busy" \notin Features, Blocks, LeftOpen, [Next]_vars
    PROVE  LeftOpen'
<1>0. Types
  BY DEF Blocks
<1> SUFFICES ASSUME NEW t \in Tasks, pc'[t].at = "closing"
             PROVE  /\ pc'[t].left \subseteq {storages'[context'[t]][a] : a \in Aliases}
                    /\ \A a \in Aliases : config'[a] # None =>
                         LET c == storages'[context'[t]][a] IN
                         c \in Clients \ pc'[t].left => clients'[c].conn # "open"
  BY DEF LeftOpen, Configured
<1>1. ASSUME CloseOne(t)
      PROVE  /\ pc'[t].left \subseteq {storages'[context'[t]][a] : a \in Aliases}
             /\ \A a \in Aliases : config'[a] # None =>
                  LET c == storages'[context'[t]][a] IN
                  c \in Clients \ pc'[t].left => clients'[c].conn # "open"
  <2>1. UNCHANGED <<config, storages, context>>
    BY <1>1 DEF CloseOne
  <2>2. PICK c \in Clients : pc'[t].left = pc[t].left \ {c} /\ clients'[c].conn = "none"
    BY <1>0, <1>1, CloseOneDoes
  <2>3. /\ pc[t].at = "closing"
        /\ \A d \in Clients : clients'[d].conn = "open" => clients[d].conn = "open"
    BY <1>0, <1>1, CloseOneDoes
  <2>4. /\ pc[t].left \subseteq {storages[context[t]][a] : a \in Aliases}
        /\ \A a \in Aliases : config[a] # None =>
             LET d == storages[context[t]][a] IN
             d \in Clients \ pc[t].left => clients[d].conn # "open"
    BY <2>3 DEF LeftOpen, Configured
  <2> QED BY <2>1, <2>2, <2>3, <2>4
<1>2. CASE UNCHANGED vars
  BY <1>2 DEF vars, LeftOpen, Configured
<1>3. ASSUME NEW for \in {"discard", "init", "drop"}, CloseAll(t, for)
      PROVE  /\ pc'[t].left \subseteq {storages'[context'[t]][a] : a \in Aliases}
             /\ \A a \in Aliases : config'[a] # None =>
                  LET c == storages'[context'[t]][a] IN
                  c \in Clients \ pc'[t].left => clients'[c].conn # "open"
  <2>1. UNCHANGED <<config, context>>
    BY <1>3 DEF CloseAll
  <2>2. PICK left \in SUBSET Clients :
          /\ pc' = [pc EXCEPT ![t] = [at |-> "closing", for |-> for, left |-> left]]
          /\ left = {storages'[context[t]][a] : a \in Configured}
    BY <1>0, <1>3, CloseAllFills
  <2>3. pc'[t].left = left
    BY <1>0, <2>2 DEF Types
  <2> QED BY <2>1, <2>2, <2>3 DEF Configured
<1>4. CASE pc[t].at = "closing"
  BY <1>1, <1>2, <1>4, ClosingSteps
<1>5. CASE pc[t].at # "closing"
  <2>1. ASSUME NEW a \in Aliases, Enter(t, a)
        PROVE  FALSE
    <3>1. PICK w : pc' = [pc EXCEPT ![t] = [at |-> "locking", wrapper |-> w]]
      BY <1>0, <2>1, EnterFills
    <3>2. pc'[t].at = "locking"
      BY <1>0, <3>1 DEF Types
    <3> QED BY <3>2
  <2> QED BY <1>0, <1>1, <1>3, <1>5, <2>1, PcMoves DEF Idle
<1> QED BY <1>4, <1>5

-----------------------------------------------------------------------------
(* What a step forgets.                                                    *)

\* Whatever is held is one of these.
LEMMA HeldIs ==
    ASSUME Types, NEW x \in Held \ {None}
    PROVE  /\ x \in Clients
           /\ \/ x = query
              \/ \E s \in Live \ {None} : \E a \in Aliases : x = storages[s][a]
              \/ \E t \in Tasks : \E i \in 1..Len(frames[t]) : x = frames[t][i].wrapper
              \/ \E t \in Tasks : pc[t].at = "locking" /\ x = pc[t].wrapper
              \/ \E t \in Tasks : pc[t].at = "closing" /\ x \in pc[t].left
<1>1. \/ x = query
      \/ \E s \in Live \ {None} : \E a \in Aliases : x = storages[s][a]
      \/ \E t \in Tasks : \E i \in DOMAIN frames[t] : x = frames[t][i].wrapper
      \/ \E t \in Tasks : x \in Waiting(t) \cup Closing(t)
  BY DEF Held
<1>2. \A t \in Tasks : DOMAIN frames[t] = 1..Len(frames[t])
  BY DEF Types
<1>3. \/ x = query
      \/ \E s \in Live \ {None} : \E a \in Aliases : x = storages[s][a]
      \/ \E t \in Tasks : \E i \in 1..Len(frames[t]) : x = frames[t][i].wrapper
      \/ \E t \in Tasks : pc[t].at = "locking" /\ x = pc[t].wrapper
      \/ \E t \in Tasks : pc[t].at = "closing" /\ x \in pc[t].left
  BY <1>1, <1>2 DEF Waiting, Closing
<1>4. CASE \E s \in Live \ {None} : \E a \in Aliases : x = storages[s][a]
  BY <1>4, HeldStay DEF Types, TypeOK
<1>5. CASE \E t \in Tasks : pc[t].at = "closing" /\ x \in pc[t].left
  BY <1>5, PcKinds
<1>6. CASE x = query
  BY <1>6 DEF Types, TypeOK
<1> QED BY <1>3, <1>4, <1>5, <1>6, HeldStay

\* What is in a dictionary that is in use after the step, is held.
LEMMA HeldNext ==
    ASSUME Types'
    PROVE  /\ query' \in Held'
           /\ \A s \in Live' \ {None} : \A a \in Aliases : storages'[s][a] \in Held'
           /\ \A t \in Tasks : \A i \in 1..Len(frames'[t]) : frames'[t][i].wrapper \in Held'
           /\ \A t \in Tasks : pc'[t].at = "locking" => pc'[t].wrapper \in Held'
           /\ \A t \in Tasks : pc'[t].at = "closing" => pc'[t].left \subseteq Held'
<1>1. \A t \in Tasks : DOMAIN frames'[t] = 1..Len(frames'[t])
  BY DEF Types
<1> QED BY <1>1 DEF Held, Waiting, Closing

\* A client is forgotten when something that was held, the client or a wrapper that was
\* made from it, is not any more.
LEMMA ForgottenWith ==
    ASSUME Types, \A c \in Clients \ FreeClients : Same(c),
           NEW c \in Clients, c \in Referenced, c \notin Referenced'
    PROVE  \E x \in Held \ {None} :
              x \notin Held' /\ (x = c \/ clients[x].parent = c)
<1>1. PICK x \in Held \ {None} : x = c \/ clients[x].parent = c
  BY FreeOnes DEF Referenced
<1>2. x \in Clients \ FreeClients
  BY HeldIs DEF FreeClients, Referenced
<1>3. clients'[x].parent = clients[x].parent
  BY <1>2 DEF Same
<1>4. x \notin Held'
  BY <1>1, <1>3 DEF Referenced
<1> QED BY <1>1, <1>4

\* Steps that forget nothing.
LEMMA NothingForgotten ==
    ASSUME Types, Types', EntriesStay, Live \ {None} \subseteq Live',
           query' = query \/ query = None,
           \A t \in Tasks : \A i \in 1..Len(frames[t]) : frames[t][i].wrapper \in Held',
           \A t \in Tasks : pc[t].at = "locking" => pc[t].wrapper \in Held',
           \A t \in Tasks : pc[t].at = "closing" => pc[t].left \subseteq Held'
    PROVE  Held \ {None} \subseteq Held'
<1> SUFFICES ASSUME NEW x \in Held \ {None} PROVE x \in Held'
  OBVIOUS
<1>1. CASE \E s \in Live \ {None} : \E a \in Aliases : x = storages[s][a]
  <2>1. PICK s \in Live \ {None}, a \in Aliases : x = storages[s][a]
    BY <1>1
  <2>2. storages'[s][a] = x /\ s \in Live' \ {None}
    BY <2>1 DEF EntriesStay
  <2> QED BY <2>2, HeldNext
<1>2. CASE x = query
  BY <1>2, HeldNext
<1> QED BY <1>1, <1>2, HeldIs

\* Exit() goes back to a dictionary that has what the block's had, or another client.
LEMMA ExitKeeps ==
    ASSUME "outlive" \notin Features, Tree, Types', Named, Kin, NEW t \in Tasks, Exit(t),
           NEW c \in Clients, c \notin Held', NEW x \in Held \ {None}, x \notin Held',
           x = c \/ clients[x].parent = c
    PROVE  context'[t] # None /\ storages'[context'[t]][clients[c].alias] \notin {None, c}
<1> SUFFICES ASSUME NEW n, n = Len(frames[t]), NEW f, f = frames[t][n]
             PROVE  context'[t] # None /\ storages'[context'[t]][clients[c].alias] \notin {None, c}
  OBVIOUS
<1>0. Types /\ Blocks
  BY DEF Tree, Blocks
<1>1. /\ n \in 1..n /\ n \in Nat /\ pc' = pc /\ Made(t, n) = context[t]
      /\ f.token \in Storages /\ f.wrapper \in Clients /\ f.alias \in Aliases
      /\ \A a \in Aliases :
           storages'[f.token][a] = IF storages[f.token][a] = None
                                   THEN storages[context[t]][a] ELSE storages[f.token][a]
      /\ \A u \in Tasks \ {t} : context'[u] = context[u]
      /\ context'[t] = f.token /\ EntriesStay
  BY <1>0, ExitDoes
<1>2. \A u \in Tasks : \A i \in 1..Len(frames[u]) :
        (i \in 1..Len(frames'[u]) /\ frames'[u][i] = frames[u][i]) \/ (u = t /\ i = n)
  BY <1>0, ExitDoes
<1>3. f.token \in Live' \ {None} /\ query' = query
  BY <1>1, FreeOnes DEF Live, Exit
<1>4. n \in 1..Len(frames[t]) /\ f.token \in Live \ {None}
  <2>1. n \in 1..Len(frames[t])
    BY <1>1
  <2> QED BY <1>0, <1>3, <2>1, FrameType
\* The block's dictionary is the only one that goes.
<1>5. ASSUME NEW s \in Live \ {None}, s # context[t]
      PROVE  s \in Live' \ {None}
  <2>1. CASE s = Base \/ \E u \in Tasks \ {t} : s = context[u]
    BY <1>1, <2>1 DEF Live
  <2>2. ASSUME NEW u \in Tasks, s \in Tokens(u)
        PROVE  s \in Live'
    <3>1. PICK i \in 1..Len(frames[u]) : s = frames[u][i].token
      BY <1>0, <2>2 DEF Tokens, Types
    <3>2. CASE u = t /\ i = n
      BY <1>3, <3>1, <3>2
    <3>3. CASE i \in 1..Len(frames'[u]) /\ frames'[u][i] = frames[u][i]
      <4>1. i \in DOMAIN frames'[u]
        BY <3>3 DEF Types
      <4> QED BY <3>1, <3>3, <4>1 DEF Live, Tokens
    <3> QED BY <1>2, <3>2, <3>3
  <2> QED BY <1>5, <2>1, <2>2 DEF Live
<1>6. PICK a \in Aliases : x = storages[context[t]][a]
  <2>1. CASE \E s \in Live \ {None} : \E a \in Aliases : x = storages[s][a]
    <3>1. PICK s \in Live \ {None}, a \in Aliases : x = storages[s][a]
      BY <2>1
    <3>2. storages'[s][a] = x
      BY <1>1, <3>1 DEF EntriesStay
    <3> QED BY <1>5, <3>1, <3>2, HeldNext
  <2>2. CASE \E u \in Tasks : \E i \in 1..Len(frames[u]) : x = frames[u][i].wrapper
    <3>0. PICK u \in Tasks : \E i \in 1..Len(frames[u]) : x = frames[u][i].wrapper
      BY <2>2
    <3>1. PICK i \in 1..Len(frames[u]) : x = frames[u][i].wrapper
      BY <3>0
    <3>2. u = t /\ i = n
      BY <1>2, <3>1, HeldNext
    <3>3. storages[Made(t, n)][f.alias] = f.wrapper
      BY <1>0, <1>1, <1>4 DEF Blocks, HoldsOwn
    <3> QED BY <1>1, <3>1, <3>2, <3>3
  <2> QED BY <1>0, <1>1, <1>3, <2>1, <2>2, HeldIs, HeldNext
<1>7. storages[f.token][a] \notin {None, x}
  <2>1. storages'[f.token][a] # x
    BY <1>3, HeldNext
  <2> QED BY <1>1, <1>6, <2>1
\* The token has another client of the alias, or the one that the block's wrapper is of.
<1>8. clients[c].alias = a
  <2>1. context[t] \in Live \ {None}
    BY <1>0, <1>1, <1>4, MadeLive
  <2>2. clients[x].alias = a
    BY <1>6, <2>1 DEF Named
  <2>3. CASE clients[x].parent = c
    <3>1. IsWrapper(x)
      BY <2>3, FreeOnes DEF IsWrapper
    <3>2. a = f.alias
      <4>1. \A b \in Aliases \ {f.alias} :
                IsWrapper(storages[context[t]][b]) =>
                    storages[f.token][b] = storages[context[t]][b]
        BY <1>1, <1>4 DEF Tree, FromToken
      <4>2. a # f.alias => storages[f.token][a] = x
        BY <1>6, <3>1, <4>1
      <4> QED BY <1>7, <4>2
    <3>3. x = f.wrapper
      <4>1. storages[Made(t, n)][f.alias] = f.wrapper
        BY <1>0, <1>1, <1>4 DEF Blocks, HoldsOwn
      <4> QED BY <1>1, <1>6, <3>2, <4>1
    <3> QED BY <1>4, <2>3, <3>2, <3>3 DEF Kin
  <2> QED BY <2>2, <2>3
<1>9. storages'[f.token][a] = storages[f.token][a]
  BY <1>1, <1>7
<1>10. storages'[f.token][a] # c
  BY <1>3, HeldNext
<1> QED BY <1>1, <1>3, <1>7, <1>8, <1>9, <1>10

\* Steps while no block is open, that drop closed clients.
LEMMA DroppedClosed ==
    ASSUME Tree, Types', \A u \in Tasks : frames[u] = <<>>, UNCHANGED <<context, frames, query>>,
           \A u \in Tasks : pc[u].at # "locking" /\ (pc[u].at = "closing" => pc[u].left = {}),
           \A a \in Aliases :
             LET c == storages[Base][a] IN
             c \in Clients /\ storages'[Base][a] # c => clients[c].conn # "open",
           NEW c \in Clients, clients[c].conn = "open",
           NEW x \in Held \ {None}, x \notin Held', x = c \/ clients[x].parent = c
    PROVE  FALSE
<1>0. Types
  BY DEF Tree, Blocks
<1>1. Live \ {None} = {Base} /\ Live' = Live
  BY RootOnly DEF Tree, Live, Tokens
<1>2. PICK a \in Aliases : x = storages[Base][a]
  <2>1. x # query
    BY <1>0, HeldNext
  <2>2. \A u \in Tasks : 1..Len(frames[u]) = {}
    OBVIOUS
  <2> QED BY <1>0, <1>1, <2>1, <2>2, HeldIs
<1>3. storages'[Base][a] # x
  BY <1>1, <1>2, HeldNext
<1>4. x \in Clients /\ clients[x].conn # "open"
  BY <1>0, <1>2, <1>3, HeldIs
<1>5. IsWrapper(x)
  BY <1>4, FreeOnes DEF IsWrapper
<1> QED BY <1>2, <1>5 DEF Tree, InUse

\* The client is forgotten for another one.
Replaced(c) ==
    \E t \in Tasks : context'[t] # None /\ Storage(t)'[clients[c].alias] \notin {None, c}

LEMMA ForgottenFor ==
    ASSUME "busy" \notin Features, "outlive" \notin Features, Tree, Tree', Registered,
           [Next]_vars, NEW c \in Clients, clients[c].conn = "open", clients'[c] = clients[c],
           c \in Referenced, c \notin Referenced'
    PROVE  Replaced(c)
<1> USE DEF vars
<1>0. /\ Types /\ Types' /\ Blocks /\ Sourced /\ Named /\ Kin /\ LeftOpen
      /\ \A d \in Clients \ FreeClients : Same(d)
  BY SourcedStep DEF Tree, Blocks, Registered, Sourced
<1>x. PICK x \in Held \ {None} : x \notin Held' /\ (x = c \/ clients[x].parent = c)
  BY <1>0, ForgottenWith
<1>c. c \notin Held'
  BY DEF Referenced
\* The steps that leave the blocks alone, and all dictionaries.
<1>1. ASSUME EntriesStay, UNCHANGED frames, Live \ {None} \subseteq Live',
             query' = query \/ query = None,
             \A t \in Tasks : pc'[t] = pc[t] \/ pc[t] = Idle
      PROVE  FALSE
  <2>1. \A t \in Tasks : \A i \in 1..Len(frames[t]) : frames[t][i].wrapper \in Held'
    BY <1>0, <1>1, HeldNext
  <2>2. \A t \in Tasks : pc[t].at # "idle" => pc'[t] = pc[t]
    BY <1>1 DEF Idle
  <2>3. \A t \in Tasks : /\ pc[t].at = "locking" => pc[t].wrapper \in Held'
                         /\ pc[t].at = "closing" => pc[t].left \subseteq Held'
    BY <1>0, <2>2, HeldNext
  <2> QED BY <1>0, <1>1, <1>x, <2>1, <2>3, NothingForgotten
<1>2. ASSUME NEW t \in Tasks, Filled(storages, context[t], config, storages', clients'),
             UNCHANGED <<context, frames>>, query' = query \/ query = None,
             \A u \in Tasks : pc'[u] = pc[u] \/ pc[u] = Idle
      PROVE  FALSE
  <2>1. EntriesStay
    BY <1>0, <1>2, FilledStays
  <2>2. Live' = Live
    BY <1>2 DEF Live, Tokens
  <2> QED BY <1>1, <1>2, <2>1, <2>2
<1>3. ASSUME NEW t \in Tasks, NEW a \in Aliases, Use(t, a)
      PROVE  FALSE
  <2>1. UNCHANGED <<context, frames, query, pc>>
    BY <1>3 DEF Use
  <2> QED BY <1>0, <1>2, <1>3, <2>1, UseFills
<1>4. ASSUME NEW t \in Tasks, NEW a \in Aliases, Await(t, a)
      PROVE  FALSE
  <2>1. UNCHANGED <<context, frames, pc>> /\ (query' = query \/ query = None)
    BY <1>4 DEF Await
  <2> QED BY <1>0, <1>2, <1>4, <2>1, AwaitFills
<1>5. ASSUME NEW t \in Tasks, NEW a \in Aliases, Enter(t, a)
      PROVE  FALSE
  <2>1. UNCHANGED <<context, frames, query>>
    BY <1>5 DEF Enter
  <2>2. pc[t] = Idle /\ Filled(storages, context[t], config, storages', clients')
    BY <1>0, <1>5, EnterFills
  <2>3. \A u \in Tasks \ {t} : pc'[u] = pc[u]
    BY <1>0, <1>5 DEF Enter, Types
  <2> QED BY <1>2, <2>1, <2>2, <2>3
<1>6. ASSUME NEW t \in Tasks, NEW for \in {"discard", "init", "drop"}, CloseAll(t, for)
      PROVE  FALSE
  <2>1. UNCHANGED <<context, frames, query>>
    BY <1>6 DEF CloseAll
  <2>2. pc[t] = Idle /\ Filled(storages, context[t], config, storages', clients')
    BY <1>0, <1>6, CloseAllFills
  <2>3. \A u \in Tasks \ {t} : pc'[u] = pc[u]
    BY <1>0, <1>6 DEF CloseAll, Types
  <2> QED BY <1>2, <2>1, <2>2, <2>3
<1>7. ASSUME NEW t \in Tasks, NEW u \in Tasks, Spawn(t, u)
      PROVE  FALSE
  <2>1. /\ context[u] = None /\ context' = [context EXCEPT ![u] = context[t]]
        /\ UNCHANGED <<storages, clients, frames, pc, query>>
    BY <1>7 DEF Spawn
  <2>2. Live \ {None} \subseteq Live'
    BY <1>0, <2>1 DEF Live, Tokens, Types, TypeOK
  <2> QED BY <1>0, <1>1, <2>1, <2>2 DEF EntriesStay
<1>8. ASSUME NEW u \in Tasks, End(u)
      PROVE  FALSE
  <2>1. /\ frames[u] = <<>> /\ context' = [context EXCEPT ![u] = None]
        /\ UNCHANGED <<storages, clients, frames, pc, query>>
    BY <1>8 DEF End
  <2>2. ASSUME NEW s \in Live \ {None, Base}
        PROVE  s \in Live'
    <3>1. PICK t \in Tasks : \E i \in 1..Len(frames[t]) : s = Made(t, i)
      BY DEF Tree, Rooted
    <3>2. PICK i \in 1..Len(frames[t]) : s = Made(t, i)
      BY <3>1
    <3>3. t # u /\ frames[t] \in Seq(Frame)
      BY <1>0, <2>1 DEF Types
    <3>4. context'[t] = context[t]
      BY <1>0, <2>1, <3>3 DEF Types, TypeOK
    <3>5. i < Len(frames[t]) => i + 1 \in DOMAIN frames'[t] /\ frames'[t] = frames[t]
      BY <2>1, <3>3
    <3> QED BY <3>2, <3>4, <3>5 DEF Made, Live, Tokens
  <2>3. Live \ {None} \subseteq Live'
    BY <2>2 DEF Live
  <2> QED BY <1>0, <1>1, <2>1, <2>3 DEF EntriesStay
<1>9. ASSUME UNCHANGED vars
      PROVE  FALSE
  <2>1. Live' = Live
    BY <1>9 DEF Live, Tokens
  <2> QED BY <1>0, <1>1, <1>9, <2>1 DEF EntriesStay
\* A block is entered, or left.
<1>10. ASSUME NEW t \in Tasks, Entered(t)
       PROVE  FALSE
  <2> SUFFICES ASSUME NEW w, w = pc[t].wrapper, NEW al, al = clients[w].alias,
                      NEW s, s = Least(FreeStorages), NEW n, n = Len(frames[t]),
                      NEW f, f = [alias |-> al, wrapper |-> w, token |-> context[t]]
               PROVE  FALSE
    OBVIOUS
  <2>1. /\ pc[t].at = "locking" /\ clients' = clients
        /\ s \in Storages /\ s \notin Live
        /\ \A r \in Storages \ {s} : storages'[r] = storages[r]
        /\ \A u \in Tasks \ {t} : pc'[u] = pc[u] /\ context'[u] = context[u]
        /\ \A u \in Tasks : \A i \in 1..Len(frames[u]) :
             i \in 1..Len(frames'[u]) /\ frames'[u][i] = frames[u][i]
        /\ n + 1 \in 1..Len(frames'[t]) /\ frames'[t][n + 1] = f
    BY <1>0, <1>10, EnteredDoes
  <2>2. query' = query
    BY <1>10 DEF Entered
  <2>3. EntriesStay
    BY <1>0, <2>1, HeldStay DEF EntriesStay, Same
  <2>4. \A u \in Tasks : DOMAIN frames[u] = 1..Len(frames[u]) /\ DOMAIN frames'[u] = 1..Len(frames'[u])
    BY <1>0 DEF Types
  <2>5. ASSUME NEW u \in Tasks, NEW r \in Tokens(u)
        PROVE  r \in Live'
    <3>1. PICK i \in 1..Len(frames[u]) : r = frames[u][i].token
      BY <2>4 DEF Tokens
    <3>2. i \in DOMAIN frames'[u] /\ r = frames'[u][i].token
      BY <2>1, <2>4, <3>1
    <3> QED BY <3>2 DEF Tokens, Live
  <2>6. context[t] \in Live'
    BY <2>1, <2>4 DEF Tokens, Live
  <2>7. Live \ {None} \subseteq Live'
    BY <2>1, <2>5, <2>6 DEF Live
  <2>8. \A u \in Tasks : \A i \in 1..Len(frames[u]) : frames[u][i].wrapper \in Held'
    BY <1>0, <2>1, HeldNext
  <2>9. \A u \in Tasks : pc[u].at = "locking" => pc[u].wrapper \in Held'
    BY <1>0, <2>1, HeldNext
  <2>10. \A u \in Tasks : pc[u].at # "closing"
    BY <1>0, <2>1, NoneClosing
  <2> QED BY <1>0, <1>x, <2>2, <2>3, <2>7, <2>8, <2>9, <2>10, NothingForgotten
<1>11. ASSUME NEW t \in Tasks, Exit(t)
       PROVE  Replaced(c)
  BY <1>0, <1>x, <1>c, <1>11, ExitKeeps DEF Replaced, Storage
\* Connections are closed, and their clients dropped.
<1>12. ASSUME NEW t \in Tasks, CloseOne(t)
       PROVE  FALSE
  <2>1. UNCHANGED <<storages, context, frames, query>>
    BY <1>12 DEF CloseOne
  <2>2. /\ pc[t].at = "closing" /\ \A u \in Tasks \ {t} : pc'[u] = pc[u]
        /\ \A d \in Clients : Alike(clients, d, clients')
    BY <1>0, <1>12, CloseOneDoes
  <2>3. Live' = Live /\ context[t] \in Live' \ {None}
    BY <1>0, <2>1, <2>2 DEF Live, Tokens, Types, Idle
  <2>4. pc[t].left \subseteq Held'
    BY <1>0, <2>1, <2>2, <2>3, HeldNext DEF LeftOpen
  <2>5. EntriesStay
    BY <2>1, <2>2 DEF EntriesStay, Alike, Same
  <2>6. \A u \in Tasks : /\ pc[u].at = "locking" => pc[u].wrapper \in Held'
                         /\ pc[u].at = "closing" => pc[u].left \subseteq Held'
    BY <1>0, <2>2, <2>4, HeldNext
  <2>7. \A u \in Tasks : \A i \in 1..Len(frames[u]) : frames[u][i].wrapper \in Held'
    BY <1>0, <2>1, HeldNext
  <2> QED BY <1>0, <1>x, <2>1, <2>3, <2>5, <2>6, <2>7, NothingForgotten
<1>13. ASSUME NEW t \in Tasks, NEW a \in Aliases, Discard(t, a)
       PROVE  FALSE
  <2>1. /\ UNCHANGED <<context, frames, query>> /\ Quiet
        /\ context[t] # None /\ clients[storages[context[t]][a]].conn = "none"
        /\ storages' = [storages EXCEPT ![context[t]][a] = None]
    BY <1>13 DEF Discard, Ready, Storage
  <2>2. \A u \in Tasks : frames[u] = <<>> /\ pc[u] = Idle
    BY <2>1, QuietHas
  <2>3. context[t] = Base
    BY <2>1, <2>2, RootOnly DEF Tree, Live
  <2>4. \A b \in Aliases \ {a} : storages'[Base][b] = storages[Base][b]
    BY <1>0, <2>1, <2>3, FreeOnes DEF Types, TypeOK
  <2> QED BY <1>0, <1>x, <2>1, <2>2, <2>3, <2>4, DroppedClosed DEF Idle
<1>14. ASSUME NEW t \in Tasks, pc[t].at = "closing", pc[t].left = {},
              UNCHANGED <<context, frames, query>>,
              \A a \in Aliases :
                config[a] = None /\ storages[context[t]][a] # None =>
                  storages'[context[t]][a] = storages[context[t]][a]
       PROVE  FALSE
  <2>1. \A u \in Tasks : frames[u] = <<>> /\ (u # t => pc[u] = Idle)
    BY <1>0, <1>14 DEF Blocks, ClosingInv
  <2>2. context[t] = Base
    <3>1. context[t] # None /\ frames[t] = <<>>
      BY <1>0, <1>14, <2>1 DEF Types, Idle
    <3>2. Live \ {None} = {Base}
      BY <2>1, RootOnly DEF Tree
    <3> QED BY <3>1, <3>2 DEF Live
  <2>3. ASSUME NEW a \in Aliases, storages[Base][a] \in Clients,
               storages'[Base][a] # storages[Base][a]
        PROVE  clients[storages[Base][a]].conn # "open"
    <3>1. config[a] # None
      BY <1>14, <2>2, <2>3, FreeOnes
    <3> QED BY <1>0, <1>14, <2>2, <2>3, <3>1 DEF LeftOpen, Configured
  <2> QED BY <1>0, <1>14, <1>x, <2>1, <2>3, DroppedClosed DEF Idle
<1>15. ASSUME NEW t \in Tasks, CloseDone(t)
       PROVE  FALSE
  <2>1. /\ pc[t].at = "closing" /\ pc[t].left = {} /\ storages' = Discarded(t)
        /\ UNCHANGED <<context, frames, query>>
    BY <1>15 DEF CloseDone
  <2>2. context[t] \in Storages
    BY <1>0, <2>1 DEF Types, TypeOK, Idle
  <2>3. \A a \in Aliases : config[a] = None =>
          storages'[context[t]][a] = storages[context[t]][a]
    BY <1>0, <2>1, <2>2, DiscardedTypes, FreeOnes
  <2> QED BY <1>14, <2>1, <2>3
<1>16. ASSUME NEW t \in Tasks, NEW A \in SUBSET Aliases, NEW v \in Versions,
              NEW ok \in BOOLEAN, Initialise(t, A, v, ok)
       PROVE  FALSE
  <2> DEFINE st == IF inited THEN Discarded(t) ELSE storages
  <2>1. UNCHANGED <<frames, context, query>> /\ pc' = [pc EXCEPT ![t] = Idle]
    BY <1>16 DEF Initialise
  <2>2. /\ Filled(st, context[t], config', storages', clients')
        /\ context[t] \in Storages
        /\ ~inited => pc[t] = Idle /\ Quiet
    BY <1>0, <1>16, InitialiseFills DEF Types, TypeOK
  <2>3. CASE ~inited
    <3>1. Filled(storages, context[t], config', storages', clients')
      BY <2>2, <2>3
    <3>2. EntriesStay
      BY <1>0, <3>1, FilledStays
    <3>3. Live' = Live
      BY <2>1 DEF Live, Tokens
    <3>4. \A u \in Tasks : pc[u] = Idle
      BY <2>2, <2>3, QuietHas
    <3> QED BY <1>1, <2>1, <3>2, <3>3, <3>4
  <2>4. CASE inited
    <3>1. pc[t].at = "closing" /\ pc[t].left = {}
      BY <1>16, <2>4 DEF Initialise, InitReady
    <3>2. \A a \in Aliases : config[a] = None =>
            st[context[t]][a] = storages[context[t]][a]
      <4>1. st = Discarded(t) /\ context[t] # None
        BY <2>2, <2>4, FreeOnes
      <4>2. \A a \in Aliases :
              Discarded(t)[context[t]][a] = IF config[a] # None THEN None
                                            ELSE storages[context[t]][a]
        BY <1>0, <2>2, <4>1, DiscardedTypes
      <4> QED BY <4>1, <4>2
    <3> HIDE DEF st
    <3>3. \A a \in Aliases : st[context[t]][a] # None =>
            storages'[context[t]][a] = st[context[t]][a]
      BY <2>2 DEF Filled
    <3> QED BY <1>14, <2>1, <3>1, <3>2, <3>3
  <2> QED BY <2>3, <2>4
<1> QED BY <1>3, <1>4, <1>5, <1>6, <1>7, <1>8, <1>9, <1>10, <1>11, <1>12, <1>13, <1>15, <1>16
        DEF Next

\* A client with an open connection is forgotten only for another client of its alias:
\* reset() brings what a block opened first to the dictionary outside of it, unless that
\* has another client by then, and clients are dropped when they are closed.
THEOREM OpenClientsKept ==
    ASSUME "busy" \notin Features, "outlive" \notin Features
    PROVE  Spec => LostOnlyToAnother
<1>1. Init => Registered
  <2> SUFFICES ASSUME Init PROVE Registered
    OBVIOUS
  <2>1. /\ \A t \in Tasks : frames[t] = <<>> /\ pc[t] = Idle
        /\ \A s \in Storages, a \in Aliases : storages[s][a] = None
    BY DEF Init, Empty
  <2>2. \A t \in Tasks : 1..Len(frames[t]) = {}
    BY <2>1
  <2>3. Types
    BY TypesInit
  <2> QED BY <2>1, <2>2, <2>3, HeldStay DEF Registered, Named, Kin, LeftOpen, Idle
<1>2. Tree /\ Registered /\ [Next]_vars => Registered'
  <2> SUFFICES ASSUME Tree, Registered, [Next]_vars PROVE Registered'
    OBVIOUS
  <2>1. Types /\ Blocks /\ Sourced
    BY SourcedStep DEF Tree, Blocks
  <2>2. Named'
    BY <2>1, NamedStep DEF Registered
  <2>3. Kin'
    BY <2>1, <2>2, KinStep DEF Registered, Sourced
  <2>4. LeftOpen'
    BY <2>1, LeftOpenStep DEF Registered
  <2> QED BY <2>2, <2>3, <2>4 DEF Registered
<1>3. Tree /\ Tree' /\ Registered /\ [Next]_vars =>
        [\A c \in Clients :
          clients[c].conn = "open" /\ clients'[c] = clients[c]
            /\ c \in Referenced /\ c \notin Referenced' =>
          \E t \in Tasks : context'[t] # None /\ Storage(t)'[clients[c].alias] \notin {None, c}]_vars
  BY ForgottenFor DEF Replaced
<1> QED BY <1>1, <1>2, <1>3, TreeInit, TreeStep, PTL DEF Spec, LostOnlyToAnother

=============================================================================
