------------------------- MODULE AnswerTurnsProofs --------------------------
(***************************************************************************)
(* Proofs about AnswerTurns for any number of clients, requests, route     *)
(* generations, chains and turns.  A fencing token is the number of turns  *)
(* a chain has seen, so no two clients hold the same one; what a client    *)
(* appends is checked against the turn, the product it read and, if the    *)
(* request names one, the route, in the transaction that appends, and that *)
(* is all the invariant needs.                                             *)
(***************************************************************************)
EXTENDS AnswerTurns, FiniteSetTheorems, SequenceTheorems, TLAPS

\* The chains that exist are the first ones, and only they have products or
\* turns.
Numbered == \E n \in Nat : {c \in Chains : chain[c].status # "absent"} = 1..n

AbsentIsEmpty == \A c \in Chains : chain[c].status = "absent" => chain[c] = NoChain

\* A route that has a generation has its chain.
RouteHasChain == route.gen # Nobody => route.chain \in Chains

\* A client works on a request of its own, on a chain once it has found one.
ClientsKnow ==
  \A p \in Clients :
    /\ client[p].pc # "idle" => client[p].key \in Keys
    /\ client[p].pc \in {"begin", "answer", "release"} => client[p].chain \in Chains
    /\ client[p].chain = None => client[p].token = 0

\* A fencing token is not above that of the chain, and belongs to one client.
TokensAreFenced ==
  /\ \A p \in Clients : client[p].chain \in Chains =>
       client[p].token <= chain[client[p].chain].token
  /\ \A p, q \in Clients :
       /\ client[p].chain = client[q].chain
       /\ client[p].token = client[q].token /\ client[p].token # 0
       => p = q

AInv ==
  /\ TypeOK /\ Numbered /\ AbsentIsEmpty /\ RouteHasChain /\ ClientsKnow
  /\ TokensAreFenced /\ OneAnswerPerRequest /\ BuiltOnLatest

-----------------------------------------------------------------------------
(* What the steps are built from *)

LEMMA ConstantFacts ==
  /\ LeaseTime \in Nat \ {0} /\ MaxChains \in Nat
  /\ MaxTime \in Nat /\ MaxProducts \in Nat \ {0} /\ Lag \in Nat
  /\ Research \notin Keys /\ Nobody \notin Keys /\ Nobody \notin Gens
  /\ Chains = 1..MaxChains /\ Chains \subseteq Nat /\ None \notin Chains
  BY TurnAssumption DEF Chains, None

LEMMA ChainFacts ==
  ASSUME TypeOK, NEW c \in Chains
  PROVE  /\ chain[c] \in ChainRows /\ chain[c].products \in Seq(Products)
         /\ Latest(c) \in Nat /\ DOMAIN chain[c].products = 1..Latest(c)
         /\ chain[c].token \in Nat /\ chain[c].expires \in Nat
         /\ chain[c].status \in {"absent", "active", "closed"}
         /\ chain[c].turn \in Keys \union {Nobody}
<1>1. chain[c] \in ChainRows
  BY DEF TypeOK
<1>2. chain[c].products \in Seq(Products)
  BY <1>1 DEF ChainRows
<1> QED
  BY <1>1, <1>2, LenProperties DEF ChainRows, Latest

LEMMA ClientFacts ==
  ASSUME TypeOK, NEW p \in Clients
  PROVE  /\ client[p] \in Clerks /\ client[p].chain \in Chains \union {None}
         /\ client[p].token \in Nat /\ client[p].parent \in Nat /\ client[p].rev \in Nat
         /\ client[p].key \in Keys \union {Nobody} /\ client[p].gen \in Gens \union {Nobody}
  BY DEF TypeOK, Clerks

\* The number a new chain gets is that of no chain before it.
LEMMA NextChainIsNew ==
  ASSUME AInv
  PROVE  \E n \in Nat : /\ {c \in Chains : chain[c].status # "absent"} = 1..n
                        /\ NextChain = n + 1
                        /\ NextChain \in Chains => chain[NextChain].status = "absent"
<1>1. PICK n \in Nat : {c \in Chains : chain[c].status # "absent"} = 1..n
  BY DEF AInv, Numbered
<1>2. Cardinality(1..n) = n
  BY FS_Interval
<1>3. NextChain = n + 1
  BY <1>1, <1>2 DEF NextChain
<1>4. n + 1 \notin 1..n
  OBVIOUS
<1> QED
  BY <1>1, <1>3, <1>4

LEMMA InitAInv == Init => AInv
<1> SUFFICES ASSUME Init PROVE AInv
  OBVIOUS
<1>1. NoChain \in ChainRows /\ NoChain.token = 0 /\ NoChain.products = << >>
        /\ NoChain.status = "absent" /\ NoChain.turn = Nobody /\ Len(NoChain.products) = 0
  BY EmptySeq DEF NoChain, ChainRows
<1>2. Idle \in Clerks /\ Idle.chain = None /\ Idle.token = 0 /\ Idle.pc = "idle"
  BY DEF Idle, Clerks
<1>3. \A c \in Chains : chain[c] = NoChain
  BY DEF Init
<1>4. TypeOK
  BY <1>1, <1>2, ConstantFacts DEF Init, TypeOK, Routes
<1>5. Numbered
  <2>1. {c \in Chains : chain[c].status # "absent"} = 1..0
    BY <1>1, <1>3
  <2> QED
    BY <2>1 DEF Numbered
<1>6. AbsentIsEmpty /\ BuiltOnLatest
  BY <1>1, <1>3 DEF AbsentIsEmpty, BuiltOnLatest
<1>7. RouteHasChain
  BY DEF Init, RouteHasChain
<1>8. ClientsKnow /\ TokensAreFenced
  BY <1>2, ConstantFacts DEF Init, ClientsKnow, TokensAreFenced
<1>9. OneAnswerPerRequest
  BY <1>1, <1>3 DEF Init, OneAnswerPerRequest, Latest, Places
<1> QED
  BY <1>4, <1>5, <1>6, <1>7, <1>8, <1>9 DEF AInv

-----------------------------------------------------------------------------
(* What the conjuncts of the invariant need of a step *)

\* No product is added.
LEMMA ProductsKept ==
  ASSUME AInv, \A c \in Chains : chain'[c].products = chain[c].products, bound' = bound
  PROVE  OneAnswerPerRequest' /\ BuiltOnLatest'
  BY DEF AInv, OneAnswerPerRequest, BuiltOnLatest, Latest, Places

\* One product is added, by research or by a request that had no answer.
LEMMA ProductAdded ==
  ASSUME AInv, NEW c \in Chains, NEW x \in Products, x.parent = Latest(c),
         chain'[c].products = Append(chain[c].products, x),
         \A d \in Chains : d # c => chain'[d].products = chain[d].products,
         \/ x.by = Research /\ bound' = bound
         \/ /\ x.by \in Keys /\ bound[x.by] = Unbound /\ Latest(c) + 1 <= MaxProducts
            /\ bound' = [bound EXCEPT ![x.by] = [chain |-> c, no |-> Latest(c) + 1]]
  PROVE  OneAnswerPerRequest' /\ BuiltOnLatest'
<1> DEFINE n == Latest(c) + 1
           place == [chain |-> c, no |-> n]
           Old(k) == {a \in Places : /\ a.no <= Latest(a.chain)
                                    /\ chain[a.chain].products[a.no].by = k}
           New(k) == {a \in Places : /\ a.no <= Latest(a.chain)'
                                    /\ chain'[a.chain].products[a.no].by = k}
<1>1. /\ chain[c].products \in Seq(Products) /\ Latest(c) \in Nat
      /\ Len(chain[c].products) = Latest(c)
  BY ChainFacts DEF AInv, Latest
<1>2. /\ Latest(c)' = n /\ chain'[c].products[n] = x /\ DOMAIN chain'[c].products = 1..n
      /\ \A i \in 1..Latest(c) : chain'[c].products[i] = chain[c].products[i]
  BY <1>1, AppendProperties DEF Latest
<1>3. \A d \in Chains : d # c => Latest(d)' = Latest(d)
  BY DEF Latest
<1>4. BuiltOnLatest'
  <2> SUFFICES ASSUME NEW d \in Chains, NEW i \in DOMAIN chain'[d].products
               PROVE  chain'[d].products[i].parent = i - 1
    BY DEF BuiltOnLatest
  <2>1. CASE d # c
    BY <2>1 DEF AInv, BuiltOnLatest
  <2>2. CASE d = c /\ i # n
    <3>1. i \in DOMAIN chain[c].products /\ i \in 1..Latest(c)
      BY <1>1, <1>2, <2>2, ChainFacts DEF AInv
    <3> QED
      BY <1>2, <2>2, <3>1 DEF AInv, BuiltOnLatest
  <2>3. CASE d = c /\ i = n
    BY <1>1, <1>2, <2>3
  <2> QED
    BY <2>1, <2>2, <2>3
<1>5. \A k \in Keys : Old(k) = {bound[k]} \ {Unbound}
  BY DEF AInv, OneAnswerPerRequest
<1>6. \A k \in Keys : k # x.by => New(k) = Old(k)
  <2> SUFFICES ASSUME NEW k \in Keys, k # x.by, NEW a \in Places
               PROVE  a \in New(k) <=> a \in Old(k)
    OBVIOUS
  <2>1. a.chain \in Chains /\ a.no \in Nat /\ a.no >= 1
    BY ConstantFacts DEF Places
  <2>2. CASE a.chain # c
    BY <1>3, <2>1, <2>2
  <2>3. CASE a.chain = c /\ a.no = n
    BY <1>1, <1>2, <2>3
  <2>4. CASE a.chain = c /\ a.no # n
    <3>1. a.no <= Latest(c)' <=> a.no <= Latest(c)
      BY <1>1, <1>2, <2>1, <2>4
    <3>2. a.no <= Latest(c) => chain'[c].products[a.no] = chain[c].products[a.no]
      BY <1>1, <1>2, <2>1
    <3> QED
      BY <2>4, <3>1, <3>2
  <2> QED
    BY <2>2, <2>3, <2>4
<1>7. x.by \in Keys => New(x.by) = Old(x.by) \union {place}
  <2> SUFFICES ASSUME x.by \in Keys PROVE New(x.by) = Old(x.by) \union {place}
    OBVIOUS
  <2>1. place \in Places /\ place.chain = c /\ place.no = n
    BY <1>1, ConstantFacts DEF Places
  <2>2. ASSUME NEW a \in Places
        PROVE  a \in New(x.by) <=> a \in Old(x.by) \/ a = place
    <3>1. a.chain \in Chains /\ a.no \in Nat /\ a.no >= 1
            /\ (a = place <=> a.chain = c /\ a.no = n)
      BY <2>1, ConstantFacts DEF Places
    <3>2. CASE a.chain # c
      BY <1>3, <3>1, <3>2
    <3>3. CASE a.chain = c /\ a.no = n
      BY <1>1, <1>2, <3>1, <3>3
    <3>4. CASE a.chain = c /\ a.no # n
      <4>1. a.no <= Latest(c)' <=> a.no <= Latest(c)
        BY <1>1, <1>2, <3>1, <3>4
      <4>2. a.no <= Latest(c) => chain'[c].products[a.no] = chain[c].products[a.no]
        BY <1>1, <1>2, <3>1
      <4> QED BY <3>1, <3>4, <4>1, <4>2
    <3> QED
      BY <3>2, <3>3, <3>4
  <2> QED
    BY <2>1, <2>2
<1>8. \A k \in Keys : New(k) = {bound'[k]} \ {Unbound}
  <2>1. place # Unbound
    BY ConstantFacts DEF Unbound
  <2>2. bound \in [Keys -> Places \union {Unbound}]
    BY DEF AInv, TypeOK
  <2> SUFFICES ASSUME NEW k \in Keys PROVE New(k) = {bound'[k]} \ {Unbound}
    OBVIOUS
  <2> HIDE DEF New, Old, place
  <2>3. CASE k # x.by
    <3>1. bound'[k] = bound[k]
      BY <2>2, <2>3
    <3> QED
      BY <1>5, <1>6, <2>3, <3>1
  <2>4. CASE k = x.by
    <3>1. bound[k] = Unbound /\ bound'[k] = place
      BY <2>2, <2>4, ConstantFacts DEF place
    <3> QED
      BY <1>5, <1>7, <2>1, <2>4, <3>1
  <2> QED
    BY <2>3, <2>4
<1> QED
  BY <1>4, <1>8 DEF OneAnswerPerRequest

\* No chain comes or goes.
LEMMA NoNewChain ==
  ASSUME AInv,
         \A c \in Chains :
           chain'[c] = chain[c] \/ (chain[c].status # "absent" /\ chain'[c].status # "absent")
  PROVE  Numbered' /\ AbsentIsEmpty'
<1>1. {c \in Chains : chain'[c].status # "absent"} = {c \in Chains : chain[c].status # "absent"}
  OBVIOUS
<1> QED
  BY <1>1 DEF AInv, Numbered, AbsentIsEmpty

\* At most one client changes, and takes at most the newest token.
LEMMA ClientsChanged ==
  ASSUME AInv, NEW p, \A q \in Clients : q # p => client'[q] = client[q],
         \A c \in Chains : chain'[c].token \in Nat /\ chain'[c].token >= chain[c].token,
         p \in Clients =>
           /\ client'[p] \in Clerks
           /\ client'[p].pc # "idle" => client'[p].key \in Keys
           /\ client'[p].pc \in {"begin", "answer", "release"} => client'[p].chain \in Chains
           /\ \/ client'[p].token = 0
              \/ /\ client'[p].chain = client[p].chain /\ client'[p].token = client[p].token
              \/ /\ client'[p].chain \in Chains
                 /\ client'[p].token = chain[client'[p].chain].token + 1
                 /\ chain'[client'[p].chain].token = client'[p].token
  PROVE  ClientsKnow' /\ TokensAreFenced'
<1>1. \A c \in Chains : chain[c].token \in Nat
  BY ChainFacts DEF AInv
<1>2. \A q \in Clients : client[q].token \in Nat /\ client[q].chain \in Chains \union {None}
  BY ClientFacts DEF AInv
<1>3. p \in Clients => client'[p].token \in Nat /\ client'[p].chain \in Chains \union {None}
  BY DEF Clerks
<1>4. ClientsKnow'
  BY ConstantFacts DEF AInv, ClientsKnow
<1>5. \A q \in Clients : client'[q].chain \in Chains =>
        client'[q].token <= chain'[client'[q].chain].token
  <2> SUFFICES ASSUME NEW q \in Clients, client'[q].chain \in Chains
               PROVE  client'[q].token <= chain'[client'[q].chain].token
    OBVIOUS
  <2>1. CASE q # p
    BY <1>1, <1>2, <2>1 DEF AInv, TokensAreFenced
  <2>2. CASE q = p
    BY <1>1, <1>2, <1>3, <2>2 DEF AInv, TokensAreFenced
  <2> QED
    BY <2>1, <2>2
<1>6. ASSUME NEW q \in Clients, q # p, p \in Clients, client'[q].chain = client'[p].chain,
             client'[q].token = client'[p].token, client'[p].token # 0
      PROVE  FALSE
  <2>1. client'[q] = client[q] /\ client[q].token # 0
    BY <1>6
  <2>2. client[q].chain \in Chains
    BY <1>2, <2>1 DEF AInv, ClientsKnow
  <2>3. client[q].token <= chain[client[q].chain].token
    BY <2>2 DEF AInv, TokensAreFenced
  <2> QED
    BY <1>1, <1>2, <1>6, <2>1, <2>2, <2>3 DEF AInv, TokensAreFenced
<1> QED
  BY <1>4, <1>5, <1>6 DEF AInv, TokensAreFenced

-----------------------------------------------------------------------------
(* The steps of a client *)

\* A step that touches no store.
LEMMA ClientOnlyStep ==
  ASSUME AInv, UNCHANGED store, now' \in 0..MaxTime,
         NEW p \in Clients, NEW r \in Clerks, client' = [client EXCEPT ![p] = r],
         r.pc # "idle" => r.key \in Keys,
         r.pc \in {"begin", "answer", "release"} => r.chain \in Chains,
         r.token = 0 \/ (r.token = client[p].token /\ r.chain = client[p].chain)
  PROVE  AInv'
<1>1. /\ client' \in [Clients -> Clerks] /\ client'[p] = r
      /\ \A q \in Clients : q # p => client'[q] = client[q]
  BY DEF AInv, TypeOK
<1>2. TypeOK'
  BY <1>1 DEF AInv, TypeOK, store
<1>3. ClientsKnow' /\ TokensAreFenced'
  BY <1>1, ChainFacts, ClientsChanged DEF store, AInv
<1>4. OneAnswerPerRequest' /\ BuiltOnLatest'
  BY ProductsKept DEF store
<1>5. Numbered' /\ AbsentIsEmpty'
  <2>1. \A c \in Chains : chain'[c] = chain[c]
    BY DEF store
  <2> QED
    BY <2>1, NoNewChain
<1> QED
  BY <1>2, <1>3, <1>4, <1>5 DEF AInv, RouteHasChain, store

LEMMA IdleFacts ==
  Idle \in Clerks /\ Idle.pc = "idle" /\ Idle.token = 0
  BY DEF Idle, Clerks

\* A client is done, or goes on to release its turn.
LEMMA DoneFacts ==
  ASSUME AInv, NEW p \in Clients, client[p].chain \in Chains, client[p].pc # "idle",
         Done(p) \/ Leave(p)
  PROVE  \E r \in Clerks :
           /\ client' = [client EXCEPT ![p] = r]
           /\ r.pc # "idle" => r.key \in Keys
           /\ r.pc \in {"begin", "answer", "release"} => r.chain \in Chains
           /\ r.token = 0 \/ (r.token = client[p].token /\ r.chain = client[p].chain)
<1>1. CASE Leave(p)
  <2>1. client' = [client EXCEPT ![p] = Idle]
    BY <1>1 DEF Leave
  <2>2. Idle.pc \notin {"begin", "answer", "release"}
    BY IdleFacts
  <2> QED
    BY <2>1, <2>2, IdleFacts
<1>2. CASE client' = [client EXCEPT ![p] =
             [Idle EXCEPT !.pc = "release", !.key = client[p].key,
                          !.chain = client[p].chain, !.token = client[p].token]]
  <2> DEFINE r == [Idle EXCEPT !.pc = "release", !.key = client[p].key,
                               !.chain = client[p].chain, !.token = client[p].token]
  <2>1. /\ client[p].key \in Keys /\ client[p].token \in Nat
        /\ client[p].chain \in Chains
    BY ClientFacts DEF AInv, ClientsKnow
  <2>2. /\ r \in Clerks /\ r.key = client[p].key
        /\ r.chain = client[p].chain /\ r.token = client[p].token
    BY <2>1 DEF Idle, Clerks
  <2>3. client' = [client EXCEPT ![p] = r]
    BY <1>2
  <2> HIDE DEF r
  <2> QED
    BY <2>1, <2>2, <2>3
<1> QED
  BY <1>1, <1>2 DEF Done

LEMMA RefusedStep ==
  ASSUME AInv, NEW p \in Clients, client[p].chain \in Chains, client[p].pc # "idle",
         Done(p) \/ Leave(p), UNCHANGED store, now' \in 0..MaxTime
  PROVE  AInv'
  BY DoneFacts, ClientOnlyStep

LEMMA LeaveStep ==
  ASSUME AInv, NEW p \in Clients, Leave(p),
         UNCHANGED store, now' \in 0..MaxTime
  PROVE  AInv'
<1>1. client' = [client EXCEPT ![p] = Idle]
  BY DEF Leave
<1>2. Idle.pc \notin {"begin", "answer", "release"}
  BY IdleFacts
<1> QED
  BY <1>1, <1>2, IdleFacts, ClientOnlyStep

LEMMA StartRequestStep ==
  ASSUME AInv, NEW p \in Clients, NEW k \in Keys, NEW g \in Gens, StartRequest(p, k, g)
  PROVE  AInv'
<1> DEFINE r == [Idle EXCEPT !.key = k, !.gen = g, !.rev = route.rev,
          !.pc     = IF g = route.gen THEN "begin" ELSE "create",
          !.chain  = IF g = route.gen THEN route.chain ELSE None,
          !.parent = IF g = route.gen THEN Latest(route.chain) ELSE 0]
<1>1. g = route.gen => route.chain \in Chains /\ Latest(route.chain) \in Nat
  BY ConstantFacts, ChainFacts DEF AInv, RouteHasChain
<1>2. route.rev \in Nat
  BY DEF AInv, TypeOK, Routes
<1>3. /\ r \in Clerks /\ r.key = k /\ r.gen = g /\ r.token = 0
      /\ r.pc = "begin" => r.chain \in Chains
      /\ r.pc \in {"begin", "create"}
  BY <1>1, <1>2 DEF Idle, Clerks
<1>4. client' = [client EXCEPT ![p] = r]
  BY DEF StartRequest
<1> HIDE DEF r
<1>5. UNCHANGED store /\ now' \in 0..MaxTime
  BY DEF StartRequest, AInv, TypeOK
<1>6. r.pc \in {"begin", "answer", "release"} => r.chain \in Chains
  BY <1>3
<1> QED
  BY <1>3, <1>4, <1>5, <1>6, ClientOnlyStep

LEMMA StartUnroutedStep ==
  ASSUME AInv, NEW p \in Clients, NEW k \in Keys, NEW c \in Chains \union {None},
         StartUnrouted(p, k, c)
  PROVE  AInv'
<1> DEFINE r == [Idle EXCEPT !.key = k, !.chain = c,
                   !.pc     = IF c = None THEN "create" ELSE "begin",
                   !.parent = IF c = None THEN 0 ELSE Latest(c)]
<1>1. c # None => c \in Chains /\ Latest(c) \in Nat
  BY ConstantFacts, ChainFacts DEF AInv
<1>2. /\ r \in Clerks /\ r.key = k /\ r.token = 0
      /\ r.pc \in {"begin", "answer", "release"} => r.chain \in Chains
  BY <1>1 DEF Idle, Clerks
<1>3. client' = [client EXCEPT ![p] = r]
  BY DEF StartUnrouted
<1> HIDE DEF r
<1>4. UNCHANGED store /\ now' \in 0..MaxTime
  BY DEF StartUnrouted, AInv, TypeOK
<1> QED
  BY <1>2, <1>3, <1>4, ClientOnlyStep

LEMMA GoWithoutTurnStep ==
  ASSUME AInv, NEW p \in Clients, GoWithoutTurn(p)
  PROVE  AInv'
<1> DEFINE r == [client[p] EXCEPT !.pc = "answer"]
<1>1. /\ client[p] \in Clerks /\ client[p].chain \in Chains
      /\ client[p].key \in Keys
  BY ClientFacts DEF GoWithoutTurn, AInv, ClientsKnow
<1>2. /\ r \in Clerks /\ r.key = client[p].key /\ r.gen = client[p].gen /\ r.pc = "answer"
      /\ r.chain = client[p].chain /\ r.token = client[p].token
  BY <1>1 DEF Clerks
<1>3. client' = [client EXCEPT ![p] = r]
  BY DEF GoWithoutTurn, Goto
<1> HIDE DEF r
<1> QED
  BY <1>1, <1>2, <1>3, ClientOnlyStep DEF GoWithoutTurn, AInv, TypeOK

LEMMA CrashStep ==
  ASSUME AInv, NEW p \in Clients, Crash(p)
  PROVE  AInv'
<1>1. now' \in 0..MaxTime /\ UNCHANGED store /\ Leave(p)
  BY ConstantFacts DEF Crash, AInv, TypeOK
<1> QED
  BY <1>1, LeaveStep

LEMMA CreateAnswerStep ==
  ASSUME AInv, NEW p \in Clients, CreateAnswer(p)
  PROVE  AInv'
<1>1. CASE UNCHANGED store
  <2>1. now' \in 0..MaxTime /\ Leave(p)
    BY DEF CreateAnswer, AInv, TypeOK
  <2> QED
    BY <1>1, <2>1, LeaveStep
<1>2. CASE ~UNCHANGED store
  <2> DEFINE k == client[p].key
             c == NextChain
             x == [by |-> k, parent |-> 0]
             row == [NoChain EXCEPT !.status = "active", !.products = <<x>>]
  <2>1. /\ bound[k] = Unbound /\ c \in Chains
        /\ chain' = [chain EXCEPT ![c] = row]
        /\ route' = IF Routed(p)
             THEN [rev |-> route.rev + 1, gen |-> client[p].gen, chain |-> c,
                   seen |-> route.seen \union {client[p].gen}]
             ELSE route
        /\ bound' = [bound EXCEPT ![k] = [chain |-> c, no |-> 1]]
    BY <1>2 DEF CreateAnswer, Unanswered
  <2>2. k \in Keys /\ (Routed(p) => client[p].gen \in Gens)
    BY ClientFacts DEF CreateAnswer, AInv, ClientsKnow, Routed
  <2>3. x \in Products /\ x.by = k /\ x.parent = 0
    BY <2>2 DEF Products
  <2>4. /\ row \in ChainRows /\ row.status = "active" /\ row.token = 0
        /\ row.products = <<x>>
    <3>1. <<x>> \in Seq(Products)
      BY <2>3
    <3> QED
      BY <3>1 DEF NoChain, ChainRows
  <2>5. PICK n \in Nat : /\ {d \in Chains : chain[d].status # "absent"} = 1..n
                         /\ c = n + 1 /\ chain[c].status = "absent"
    BY <2>1, NextChainIsNew
  <2>6. Latest(c) = 0 /\ chain[c].token = 0
    BY <2>1, <2>5, EmptySeq DEF AInv, AbsentIsEmpty, Latest, NoChain
  <2>7. chain[c].products = << >> /\ row.products = Append(chain[c].products, x)
    <3>1. chain[c].products \in Seq(Products) /\ Len(chain[c].products) = 0
      BY <2>1, <2>6, ChainFacts DEF AInv, Latest
    <3>2. chain[c].products = << >>
      BY <3>1, EmptySeq
    <3> QED
      BY <2>4, <3>2
  <2> HIDE DEF c, row, x, k
  <2>8. /\ chain'[c] = row /\ \A d \in Chains : d # c => chain'[d] = chain[d]
        /\ chain' \in [Chains -> ChainRows]
    BY <2>1, <2>4 DEF AInv, TypeOK
  <2>9. /\ client' = [client EXCEPT ![p] = Idle] /\ now' = now
    BY DEF CreateAnswer, Leave
  <2>10. TypeOK'
    <3>1. route' \in Routes
      BY <2>1, <2>2 DEF AInv, TypeOK, Routes
    <3>2. bound' \in [Keys -> Places \union {Unbound}]
      <4>1. [chain |-> c, no |-> 1] \in Places
        BY <2>1, ConstantFacts DEF Places
      <4> QED
        BY <2>1, <4>1 DEF AInv, TypeOK
    <3> QED
      BY <2>4, <2>8, <2>9, <3>1, <3>2, IdleFacts DEF AInv, TypeOK
  <2>11. Numbered' /\ AbsentIsEmpty'
    <3>1. {d \in Chains : chain'[d].status # "absent"} = (1..n) \union {c}
      BY <2>1, <2>4, <2>5, <2>8
    <3>2. (1..n) \union {c} = 1..(n + 1)
      BY <2>5
    <3>3. Numbered'
      BY <3>1, <3>2 DEF Numbered
    <3>4. AbsentIsEmpty'
      BY <2>4, <2>8 DEF AInv, AbsentIsEmpty
    <3> QED
      BY <3>3, <3>4
  <2>12. RouteHasChain'
    BY <2>1 DEF AInv, RouteHasChain
  <2>13. ClientsKnow' /\ TokensAreFenced'
    <3>1. \A d \in Chains : chain'[d].token \in Nat /\ chain'[d].token >= chain[d].token
      BY <2>4, <2>6, <2>8, ChainFacts DEF AInv
    <3>2. client'[p] = Idle /\ \A q \in Clients : q # p => client'[q] = client[q]
      BY <2>9 DEF AInv, TypeOK
    <3> QED
      BY <3>1, <3>2, IdleFacts, ClientsChanged
  <2>14. OneAnswerPerRequest' /\ BuiltOnLatest'
    <3>1. Latest(c) + 1 = 1 /\ 1 <= MaxProducts
      BY <2>6, ConstantFacts
    <3>2. /\ c \in Chains /\ x \in Products /\ x.parent = Latest(c) /\ x.by = k /\ k \in Keys
          /\ chain'[c].products = Append(chain[c].products, x)
          /\ bound[x.by] = Unbound
          /\ bound' = [bound EXCEPT ![x.by] = [chain |-> c, no |-> Latest(c) + 1]]
      BY <2>1, <2>2, <2>3, <2>6, <2>7, <2>8, <3>1
    <3> QED
      BY <2>8, <3>1, <3>2, ProductAdded
  <2> QED
    BY <2>10, <2>11, <2>12, <2>13, <2>14 DEF AInv
<1> QED
  BY <1>1, <1>2

\* A step that changes one chain that exists.
LEMMA ChainStep ==
  ASSUME AInv, NEW c \in Chains, NEW row \in ChainRows, chain' = [chain EXCEPT ![c] = row],
         chain[c].status # "absent", row.status # "absent",
         row.status = "closed" => row.turn = Nobody,
         route' = route, now' \in 0..MaxTime,
         client' \in [Clients -> Clerks], bound' \in [Keys -> Places \union {Unbound}],
         ClientsKnow', TokensAreFenced', OneAnswerPerRequest', BuiltOnLatest'
  PROVE  AInv'
<1>1. /\ chain' \in [Chains -> ChainRows] /\ chain'[c] = row
      /\ \A d \in Chains : d # c => chain'[d] = chain[d]
  BY DEF AInv, TypeOK
<1>2. TypeOK'
  BY <1>1 DEF AInv, TypeOK
<1>3. Numbered' /\ AbsentIsEmpty'
  BY <1>1, NoNewChain
<1>4. RouteHasChain'
  BY DEF AInv, RouteHasChain
<1> QED
  BY <1>2, <1>3, <1>4 DEF AInv

\* A step on a chain that adds no product.
LEMMA TurnStep ==
  ASSUME AInv, NEW c \in Chains, NEW row \in ChainRows, chain' = [chain EXCEPT ![c] = row],
         chain[c].status # "absent", row.status # "absent",
         row.status = "closed" => row.turn = Nobody,
         row.products = chain[c].products, row.token >= chain[c].token,
         UNCHANGED <<route, bound>>, now' \in 0..MaxTime,
         NEW p, NEW r, p \in Clients => client' = [client EXCEPT ![p] = r],
         p \notin Clients => client' = client,
         p \in Clients =>
           /\ r \in Clerks
           /\ r.pc # "idle" => r.key \in Keys
           /\ r.pc \in {"begin", "answer", "release"} => r.chain \in Chains
           /\ \/ r.token = 0
              \/ r.token = client[p].token /\ r.chain = client[p].chain
              \/ r.chain = c /\ r.token = chain[c].token + 1 /\ row.token = r.token
  PROVE  AInv'
<1>1. /\ chain'[c] = row /\ \A d \in Chains : d # c => chain'[d] = chain[d]
      /\ row.token \in Nat
  BY DEF AInv, TypeOK, ChainRows
<1>2. /\ client' \in [Clients -> Clerks] /\ (p \in Clients => client'[p] = r)
      /\ \A q \in Clients : q # p => client'[q] = client[q]
  BY DEF AInv, TypeOK
<1>3. \A d \in Chains : chain'[d].token \in Nat /\ chain'[d].token >= chain[d].token
  BY <1>1, ChainFacts DEF AInv
<1>4. ClientsKnow' /\ TokensAreFenced'
  BY <1>1, <1>2, <1>3, ClientsChanged
<1>5. OneAnswerPerRequest' /\ BuiltOnLatest'
  BY <1>1, ProductsKept
<1>6. bound' \in [Keys -> Places \union {Unbound}]
  BY DEF AInv, TypeOK
<1> QED
  BY <1>2, <1>4, <1>5, <1>6, ChainStep

LEMMA ClientTurnStep ==
  ASSUME AInv, NEW c \in Chains, NEW row \in ChainRows, NEW p \in Clients, NEW r \in Clerks,
         chain' = [chain EXCEPT ![c] = row], client' = [client EXCEPT ![p] = r],
         chain[c].status # "absent", row.status = chain[c].status,
         row.status = "closed" => row.turn = Nobody,
         row.products = chain[c].products,
         r.chain = c, r.key \in Keys,
         r.token = chain[c].token + 1, row.token = r.token,
         UNCHANGED <<route, bound>>, now' \in 0..MaxTime
  PROVE  AInv'
<1>1. chain[c].token \in Nat /\ row.token >= chain[c].token
  BY ChainFacts DEF AInv
<1> QED
  BY <1>1, TurnStep

\* What a client knows of the chain it works on.
LEMMA WorkFacts ==
  ASSUME AInv, NEW p \in Clients, client[p].pc \in {"begin", "answer", "release"}
  PROVE  /\ client[p].chain \in Chains /\ client[p].key \in Keys
         /\ client[p] \in Clerks
         /\ now \in 0..MaxTime
  BY DEF AInv, ClientsKnow, TypeOK

\* A client whose token is replaced.
LEMMA ClerkWithToken ==
  ASSUME NEW r \in Clerks, NEW n \in Nat
  PROVE  LET new == [r EXCEPT !.pc = "answer", !.token = n] IN
         /\ new \in Clerks /\ new.key = r.key /\ new.gen = r.gen /\ new.chain = r.chain
         /\ new.token = n
  BY DEF Clerks

LEMMA TakenFacts ==
  ASSUME AInv, NEW c \in Chains, NEW k \in Keys, NEW t \in Nat
  PROVE  /\ Taken(c, k, t) \in ChainRows /\ Taken(c, k, t).status = chain[c].status
         /\ Taken(c, k, t).token = chain[c].token + 1 /\ chain[c].token \in Nat
         /\ Taken(c, k, t).products = chain[c].products
<1>1. chain[c] \in ChainRows /\ chain[c].token \in Nat /\ t + LeaseTime \in Nat
  BY ChainFacts, ConstantFacts DEF AInv
<1> DEFINE n == chain[c].token + 1
           e == t + LeaseTime
           new == [chain[c] EXCEPT !.turn = k, !.expires = e, !.token = n]
<1>2. n \in Nat /\ e \in Nat /\ k \in Keys \union {Nobody} /\ chain[c] \in ChainRows
  BY <1>1
<1>3. Taken(c, k, t) = new
  BY DEF Taken
<1>4. new \in ChainRows /\ new.status = chain[c].status /\ new.products = chain[c].products
      /\ new.token = n
  <2> HIDE DEF n, e
  <2> QED
    BY <1>2 DEF ChainRows
<1> QED
  BY <1>1, <1>3, <1>4

LEMMA TakeStep ==
  ASSUME AInv, NEW p \in Clients, NEW t \in Clocks, client[p].pc \in {"begin", "answer"},
         chain[client[p].chain].status = "active",
         chain' = [chain EXCEPT ![client[p].chain] = Taken(client[p].chain, client[p].key, t)],
         client' = [client EXCEPT ![p].pc = "answer",
                                  ![p].token = chain[client[p].chain].token + 1],
         UNCHANGED <<now, route, bound>>
  PROVE  AInv'
<1> DEFINE c   == client[p].chain
           row == Taken(c, client[p].key, t)
           r   == [client[p] EXCEPT !.pc = "answer", !.token = chain[c].token + 1]
<1>1. /\ c \in Chains /\ client[p].key \in Keys
      /\ client[p] \in Clerks /\ now' \in 0..MaxTime /\ t \in Nat
  BY WorkFacts, ConstantFacts DEF Clocks
<1>2. /\ row \in ChainRows /\ row.status = "active" /\ row.token = chain[c].token + 1
      /\ chain[c].token \in Nat /\ row.products = chain[c].products
  BY <1>1, TakenFacts
<1>3. /\ r \in Clerks /\ r.key = client[p].key /\ r.gen = client[p].gen /\ r.chain = c
      /\ r.token = chain[c].token + 1
  <2>1. chain[c].token + 1 \in Nat
    BY <1>2
  <2> QED
    BY <1>1, <2>1, ClerkWithToken
<1>4. chain' = [chain EXCEPT ![c] = row] /\ client' = [client EXCEPT ![p] = r]
        /\ chain[c].status = "active" /\ UNCHANGED <<route, bound>>
  BY DEF AInv, TypeOK
<1>5. /\ row.status = chain[c].status /\ row.status # "closed"
      /\ chain[c].status # "absent" /\ row.token = r.token
  BY <1>2, <1>3, <1>4
<1>6. r.key \in Keys /\ now' \in 0..MaxTime
  BY <1>1, <1>3
<1> HIDE DEF c, row, r
<1>7. /\ c \in Chains /\ row \in ChainRows /\ r \in Clerks
      /\ chain' = [chain EXCEPT ![c] = row] /\ client' = [client EXCEPT ![p] = r]
  BY <1>1, <1>2, <1>3, <1>4
<1>8. /\ chain[c].status # "absent" /\ row.status = chain[c].status
      /\ row.status # "closed" /\ row.products = chain[c].products
  BY <1>2, <1>5
<1>9. r.chain = c /\ r.key \in Keys
  BY <1>3, <1>6
<1>10. r.token = chain[c].token + 1 /\ row.token = r.token
  BY <1>3, <1>5
<1>11. UNCHANGED <<route, bound>> /\ now' \in 0..MaxTime
  BY <1>4, <1>6
<1> QED
  BY <1>7, <1>8, <1>9, <1>10, <1>11, ClientTurnStep, ZenonT(60)

LEMMA BeginStep ==
  ASSUME AInv, NEW p \in Clients, NEW t \in Clocks, BeginAnswerTurn(p, t)
  PROVE  AInv'
<1>1. CASE chain[client[p].chain].status = "active" /\ Free(client[p].chain, t)
  BY <1>1, TakeStep DEF BeginAnswerTurn
<1>2. CASE ~(chain[client[p].chain].status = "active" /\ Free(client[p].chain, t))
  <2>1. Done(p) /\ UNCHANGED now /\ UNCHANGED store /\ client[p].pc = "begin"
    BY <1>2 DEF BeginAnswerTurn, Refused
  <2> QED
    BY <2>1, WorkFacts, RefusedStep
<1> QED
  BY <1>1, <1>2

LEMMA RenewStep ==
  ASSUME AInv, NEW p \in Clients, NEW t \in Clocks, RenewAnswerTurn(p, t)
  PROVE  AInv'
<1>1. CASE chain[client[p].chain].status = "active" /\ Holds(p, t)
  <2>1. client' = [client EXCEPT ![p].pc = "answer",
                                 ![p].token = chain[client[p].chain].token + 1]
    <3>1. client[p].pc = "answer" /\ client[p] \in Clerks /\ client \in [Clients -> Clerks]
      BY DEF RenewAnswerTurn, AInv, TypeOK
    <3>2. client' = [client EXCEPT ![p].token = chain[client[p].chain].token + 1]
      BY <1>1 DEF RenewAnswerTurn
    <3> QED
      BY <3>1, <3>2 DEF Clerks
  <2> QED
    BY <1>1, <2>1, TakeStep DEF RenewAnswerTurn
<1>2. CASE ~(chain[client[p].chain].status = "active" /\ Holds(p, t))
  <2>1. Done(p) /\ UNCHANGED now /\ UNCHANGED store /\ client[p].pc = "answer"
    BY <1>2 DEF RenewAnswerTurn, Refused
  <2> QED
    BY <2>1, WorkFacts, RefusedStep
<1> QED
  BY <1>1, <1>2

LEMMA ReleaseStep ==
  ASSUME AInv, NEW p \in Clients, ReleaseAnswerTurn(p)
  PROVE  AInv'
<1> DEFINE c   == client[p].chain
           row == [chain[c] EXCEPT !.turn = Nobody, !.expires = 0]
<1>1. /\ c \in Chains /\ client[p].key \in Keys /\ client[p].pc = "release"
      /\ now' \in 0..MaxTime /\ Leave(p)
  BY WorkFacts DEF ReleaseAnswerTurn
<1>2. CASE chain' = chain
  BY <1>1, <1>2, LeaveStep DEF ReleaseAnswerTurn, store
<1>3. CASE chain' # chain
  <2>1. chain[c].turn \in Keys /\ chain' = [chain EXCEPT ![c].turn = Nobody, ![c].expires = 0]
    BY <1>1, <1>3 DEF ReleaseAnswerTurn
  <2>2. chain[c] \in ChainRows /\ chain[c].status # "absent"
    BY <1>1, <2>1, ChainFacts, ConstantFacts DEF AInv, AbsentIsEmpty, NoChain
  <2>3. /\ row \in ChainRows /\ row.status = chain[c].status /\ row.turn = Nobody
        /\ row.products = chain[c].products /\ row.token = chain[c].token
        /\ chain[c].token \in Nat
    BY <2>2 DEF ChainRows
  <2>4. chain' = [chain EXCEPT ![c] = row]
    BY <1>1, <2>1 DEF AInv, TypeOK
  <2>5. client' = [client EXCEPT ![p] = Idle] /\ UNCHANGED <<route, bound>>
    BY DEF ReleaseAnswerTurn, Leave
  <2>6. row.token >= chain[c].token /\ row.status # "absent"
    BY <2>2, <2>3
  <2>7. Idle.pc \notin {"begin", "answer", "release"}
    BY IdleFacts
  <2> HIDE DEF c, row
  <2> QED
    BY <1>1, <2>2, <2>3, <2>4, <2>5, <2>6, <2>7, IdleFacts, TurnStep
<1> QED
  BY <1>2, <1>3

\* An answer is appended: the one step of a client that adds a product to a
\* chain.
LEMMA AppendAnswerStep ==
  ASSUME AInv, NEW p \in Clients, NEW t \in Clocks, AppendAnswer(p, t)
  PROVE  AInv'
<1> DEFINE c   == client[p].chain
           k   == client[p].key
           x   == [by |-> k, parent |-> client[p].parent]
           row == [chain[c] EXCEPT !.products = Append(chain[c].products, x)]
<1>1. /\ c \in Chains /\ k \in Keys /\ client[p].pc = "answer" /\ client[p].parent \in Nat
      /\ now' \in 0..MaxTime
  BY WorkFacts, ClientFacts DEF AppendAnswer, AInv
<1>2. CASE Refused(p)
  BY <1>1, <1>2, RefusedStep DEF Refused
<1>3. CASE ~Refused(p)
  <2>1. /\ MayAppend(p, t) /\ bound[k] = Unbound /\ client[p].parent = Latest(c)
        /\ RoomFor(c)
        /\ chain' = [chain EXCEPT ![c].products = Append(@, x)]
        /\ bound' = [bound EXCEPT ![k] = [chain |-> c, no |-> Latest(c) + 1]]
        /\ Done(p) /\ UNCHANGED route
    BY <1>3 DEF AppendAnswer, Unanswered, ParentIsCurrent
  <2>2. /\ x \in Products /\ x.parent = Latest(c) /\ x.by = k
    BY <1>1, <2>1 DEF Products
  <2>3. /\ chain[c] \in ChainRows /\ chain[c].products \in Seq(Products)
        /\ Latest(c) \in Nat /\ chain[c].token \in Nat /\ chain[c].status = "active"
        /\ Latest(c) + 1 <= MaxProducts
    BY <1>1, <2>1, ChainFacts, ConstantFacts DEF AInv, MayAppend, Open, RoomFor
  <2>4. /\ row \in ChainRows /\ row.status = "active" /\ row.token = chain[c].token
        /\ row.products = Append(chain[c].products, x)
    <3>1. Append(chain[c].products, x) \in Seq(Products)
      BY <2>2, <2>3
    <3> HIDE DEF x
    <3> QED
      BY <2>3, <3>1 DEF ChainRows
  <2>5. chain' = [chain EXCEPT ![c] = row]
    BY <1>1, <2>1 DEF AInv, TypeOK
  <2>6. PICK r \in Clerks :
          /\ client' = [client EXCEPT ![p] = r]
          /\ r.pc # "idle" => r.key \in Keys
          /\ r.pc \in {"begin", "answer", "release"} => r.chain \in Chains
          /\ r.token = 0 \/ (r.token = client[p].token /\ r.chain = client[p].chain)
    BY <1>1, <2>1, DoneFacts
  <2> HIDE DEF c, k, x, row
  <2>7. /\ chain'[c] = row /\ \A d \in Chains : d # c => chain'[d] = chain[d]
    BY <1>1, <2>5 DEF AInv, TypeOK
  <2>8. OneAnswerPerRequest' /\ BuiltOnLatest'
    <3>1. x.by \in Keys /\ bound[x.by] = Unbound
          /\ bound' = [bound EXCEPT ![x.by] = [chain |-> c, no |-> Latest(c) + 1]]
      BY <1>1, <2>1, <2>2
    <3> QED
      BY <1>1, <2>1, <2>2, <2>3, <2>4, <2>7, <3>1, ProductAdded
  <2>9. ClientsKnow' /\ TokensAreFenced'
    <3>1. \A d \in Chains : chain'[d].token \in Nat /\ chain'[d].token >= chain[d].token
      BY <2>3, <2>4, <2>7, ChainFacts DEF AInv
    <3>2. client'[p] = r /\ \A q \in Clients : q # p => client'[q] = client[q]
      BY <2>6 DEF AInv, TypeOK
    <3> QED
      BY <2>6, <3>1, <3>2, ClientsChanged
  <2>10. client' \in [Clients -> Clerks] /\ bound' \in [Keys -> Places \union {Unbound}]
    <3>1. [chain |-> c, no |-> Latest(c) + 1] \in Places
      BY <1>1, <2>1, <2>3, ConstantFacts DEF Places
    <3> QED
      BY <2>1, <2>6, <3>1 DEF AInv, TypeOK
  <2> QED
    BY <1>1, <2>1, <2>3, <2>4, <2>5, <2>8, <2>9, <2>10, ChainStep
<1> QED
  BY <1>2, <1>3

-----------------------------------------------------------------------------
(* What others do to the chain *)

LEMMA OthersStep ==
  ASSUME AInv, NEW c \in Chains, NEW row \in ChainRows, chain' = [chain EXCEPT ![c] = row],
         chain[c].status # "absent", row.status # "absent",
         row.status = "closed" => row.turn = Nobody, row.token >= chain[c].token,
         \/ row.products = chain[c].products
         \/ row.products = Append(chain[c].products, [by |-> Research, parent |-> Latest(c)]),
         UNCHANGED <<now, route, bound, client>>
  PROVE  AInv'
<1>1. /\ chain'[c] = row /\ \A d \in Chains : d # c => chain'[d] = chain[d]
      /\ row.token \in Nat
  BY DEF AInv, TypeOK, ChainRows
<1>2. OneAnswerPerRequest' /\ BuiltOnLatest'
  <2>1. CASE row.products = chain[c].products
    <3>1. \A d \in Chains : chain'[d].products = chain[d].products
      BY <1>1, <2>1
    <3> QED
      BY <3>1, ProductsKept
  <2>2. CASE row.products # chain[c].products
    <3> DEFINE x == [by |-> Research, parent |-> Latest(c)]
    <3>1. Latest(c) \in Nat
      BY ChainFacts DEF AInv
    <3>2. x \in Products /\ x.parent = Latest(c) /\ x.by = Research
      BY <3>1 DEF Products
    <3>3. chain'[c].products = Append(chain[c].products, x)
      BY <1>1, <2>2
    <3>4. \A d \in Chains : d # c => chain'[d].products = chain[d].products
      BY <1>1
    <3> HIDE DEF x
    <3> QED
      BY <3>2, <3>3, <3>4, ProductAdded
  <2> QED
    BY <2>1, <2>2
<1>3. \A d \in Chains : chain'[d].token \in Nat /\ chain'[d].token >= chain[d].token
  BY <1>1, ChainFacts DEF AInv
<1>4. ClientsKnow' /\ TokensAreFenced'
  <2>1. CASE Clients = {}
    BY <2>1 DEF ClientsKnow, TokensAreFenced
  <2>2. ASSUME NEW p \in Clients PROVE ClientsKnow' /\ TokensAreFenced'
    <3>1. client'[p] = client[p] /\ client[p] \in Clerks
      BY ClientFacts DEF AInv
    <3>2. /\ client[p].pc # "idle" => client[p].key \in Keys
          /\ client[p].pc \in {"begin", "answer", "release"} => client[p].chain \in Chains
      BY DEF AInv, ClientsKnow
    <3> QED
      BY <1>3, <3>1, <3>2, ClientsChanged
  <2> QED
    BY <2>1, <2>2
<1>5. /\ now' \in 0..MaxTime /\ client' \in [Clients -> Clerks]
      /\ bound' \in [Keys -> Places \union {Unbound}] /\ route' = route
  BY DEF AInv, TypeOK
<1> QED
  BY <1>2, <1>4, <1>5, ChainStep

LEMMA ContinueResearchStep ==
  ASSUME AInv, NEW c \in Chains, ContinueResearch(c)
  PROVE  AInv'
<1> DEFINE row == [chain[c] EXCEPT !.busy = TRUE]
<1>1. chain[c] \in ChainRows /\ chain[c].status = "active" /\ chain[c].token \in Nat
  BY ChainFacts DEF AInv, ContinueResearch, Open
<1>2. /\ row \in ChainRows /\ row.status = "active" /\ row.token = chain[c].token
      /\ row.products = chain[c].products
  BY <1>1 DEF ChainRows
<1>3. chain' = [chain EXCEPT ![c] = row] /\ UNCHANGED <<now, route, bound, client>>
  BY DEF ContinueResearch
<1> HIDE DEF row
<1>4. row.token >= chain[c].token /\ row.status # "absent" /\ row.status # "closed"
  BY <1>1, <1>2
<1> QED
  BY <1>1, <1>2, <1>3, <1>4, OthersStep

\* The product of research, and the products of a chain that may get one.
LEMMA ResearchProduct ==
  ASSUME AInv, NEW c \in Chains
  PROVE  /\ [by |-> Research, parent |-> Latest(c)] \in Products
         /\ Append(chain[c].products, [by |-> Research, parent |-> Latest(c)]) \in Seq(Products)
         /\ chain[c].products \in Seq(Products)
<1>1. chain[c].products \in Seq(Products) /\ Latest(c) \in Nat
  BY ChainFacts DEF AInv
<1>2. [by |-> Research, parent |-> Latest(c)] \in Products
  BY <1>1 DEF Products
<1> QED
  BY <1>1, <1>2

LEMMA CoordinateTerminalStep ==
  ASSUME AInv, NEW c \in Chains, NEW made \in BOOLEAN, CoordinateTerminal(c, made)
  PROVE  AInv'
<1> DEFINE more == Append(chain[c].products, [by |-> Research, parent |-> Latest(c)])
           all  == IF made THEN more ELSE chain[c].products
           row  == [chain[c] EXCEPT !.busy = FALSE, !.products = all]
<1>1. chain[c] \in ChainRows /\ chain[c].status = "active" /\ chain[c].token \in Nat
  BY ChainFacts DEF AInv, CoordinateTerminal
<1>2. all \in Seq(Products) /\ (all = chain[c].products \/ all = more)
  BY ResearchProduct
<1>3. chain' = [chain EXCEPT ![c] = row] /\ UNCHANGED <<now, route, bound, client>>
  BY DEF CoordinateTerminal
<1> HIDE DEF all
<1>4. /\ row \in ChainRows /\ row.status = "active" /\ row.token = chain[c].token
      /\ row.products = all
  BY <1>1, <1>2 DEF ChainRows
<1> HIDE DEF row
<1>5. row.token >= chain[c].token /\ row.status # "absent" /\ row.status # "closed"
  BY <1>1, <1>4
<1> QED
  BY <1>1, <1>2, <1>3, <1>4, <1>5, OthersStep

LEMMA CloseStep ==
  ASSUME AInv, NEW c \in Chains, NEW made \in BOOLEAN, Close(c, made)
  PROVE  AInv'
<1> DEFINE more == Append(chain[c].products, [by |-> Research, parent |-> Latest(c)])
           all  == IF made THEN more ELSE chain[c].products
           n    == chain[c].token + 1
           row  == [chain[c] EXCEPT !.status = "closed", !.busy = FALSE, !.turn = Nobody,
                                    !.expires = 0, !.token = n, !.products = all]
<1>1. chain[c] \in ChainRows /\ chain[c].status = "active" /\ chain[c].token \in Nat
  BY ChainFacts DEF AInv, Close
<1>2. all \in Seq(Products) /\ (all = chain[c].products \/ all = more)
  BY ResearchProduct
<1>3. chain' = [chain EXCEPT ![c] = row] /\ UNCHANGED <<now, route, bound, client>>
  BY <1>1 DEF Close, ChainRows
<1>4. n \in Nat /\ n >= chain[c].token
  BY <1>1
<1> HIDE DEF all, n
<1>5. /\ row \in ChainRows /\ row.status = "closed" /\ row.token = n
      /\ row.products = all /\ row.turn = Nobody
  BY <1>1, <1>2, <1>4 DEF ChainRows
<1> HIDE DEF row
<1>6. row.token >= chain[c].token /\ row.status # "absent"
  BY <1>4, <1>5
<1> QED
  BY <1>1, <1>2, <1>3, <1>5, <1>6, OthersStep

LEMMA ReconcileStep ==
  ASSUME AInv, NEW c \in Chains, ReconcileSessionDeleted(c)
  PROVE  AInv'
<1> DEFINE n   == chain[c].token + 1
           row == [chain[c] EXCEPT !.turn = Nobody, !.expires = 0, !.token = n]
<1>1. chain[c] \in ChainRows /\ chain[c].token \in Nat /\ Latest(c) > 0
  BY ChainFacts DEF AInv, ReconcileSessionDeleted
<1>2. chain[c].status # "absent"
  BY <1>1, EmptySeq DEF AInv, AbsentIsEmpty, Latest, NoChain
<1>3. chain' = [chain EXCEPT ![c] = row] /\ UNCHANGED <<now, route, bound, client>>
  BY <1>1 DEF ReconcileSessionDeleted, ChainRows
<1>4. n \in Nat /\ n >= chain[c].token
  BY <1>1
<1> HIDE DEF n
<1>5. /\ row \in ChainRows /\ row.status = chain[c].status /\ row.token = n
      /\ row.products = chain[c].products /\ row.turn = Nobody
  BY <1>1, <1>4 DEF ChainRows
<1> HIDE DEF row
<1>6. row.token >= chain[c].token /\ row.status # "absent"
  BY <1>2, <1>4, <1>5
<1> QED
  BY <1>3, <1>5, <1>6, <1>2, OthersStep

LEMMA TickStep == ASSUME AInv, Tick PROVE AInv'
<1>1. now' \in 0..MaxTime /\ UNCHANGED <<chain, route, bound, client>>
  BY ConstantFacts DEF AInv, TypeOK, Tick, store
<1>2. TypeOK'
  BY <1>1 DEF AInv, TypeOK
<1>3. OneAnswerPerRequest' /\ BuiltOnLatest'
  BY <1>1, ProductsKept
<1>4. Numbered' /\ AbsentIsEmpty'
  BY <1>1, NoNewChain
<1>5. RouteHasChain' /\ ClientsKnow' /\ TokensAreFenced'
  BY <1>1 DEF AInv, RouteHasChain, ClientsKnow, TokensAreFenced
<1> QED
  BY <1>2, <1>3, <1>4, <1>5 DEF AInv

LEMMA StutterStep == ASSUME AInv, UNCHANGED vars PROVE AInv'
<1>1. UNCHANGED <<now, chain, route, bound, client>>
  BY DEF vars
<1>2. TypeOK'
  BY <1>1 DEF AInv, TypeOK
<1>3. OneAnswerPerRequest' /\ BuiltOnLatest'
  BY <1>1, ProductsKept
<1>4. Numbered' /\ AbsentIsEmpty'
  BY <1>1, NoNewChain
<1>5. RouteHasChain' /\ ClientsKnow' /\ TokensAreFenced'
  BY <1>1 DEF AInv, RouteHasChain, ClientsKnow, TokensAreFenced
<1> QED
  BY <1>2, <1>3, <1>4, <1>5 DEF AInv

LEMMA StepAInv == ASSUME AInv, [Next]_vars PROVE AInv'
<1>1. ASSUME NEW p \in Clients,
             \/ \E k \in Keys, g \in Gens : StartRequest(p, k, g)
             \/ \E k \in Keys, c \in Chains \union {None} : StartUnrouted(p, k, c)
             \/ CreateAnswer(p) \/ GoWithoutTurn(p)
             \/ ReleaseAnswerTurn(p) \/ Crash(p)
             \/ \E t \in Clocks :
                  BeginAnswerTurn(p, t) \/ RenewAnswerTurn(p, t) \/ AppendAnswer(p, t)
      PROVE  AInv'
  BY <1>1, StartRequestStep, StartUnroutedStep, CreateAnswerStep, GoWithoutTurnStep, ReleaseStep, CrashStep,
     BeginStep, RenewStep, AppendAnswerStep
<1>2. ASSUME NEW c \in Chains,
             \/ ContinueResearch(c) \/ ReconcileSessionDeleted(c)
             \/ \E made \in BOOLEAN : CoordinateTerminal(c, made) \/ Close(c, made)
      PROVE  AInv'
  BY <1>2, ContinueResearchStep, ReconcileStep, CoordinateTerminalStep, CloseStep
<1>3. CASE Tick
  BY <1>3, TickStep
<1>4. CASE UNCHANGED vars
  BY <1>4, StutterStep
<1> QED
  BY <1>1, <1>2, <1>3, <1>4 DEF Next

-----------------------------------------------------------------------------
(* The theorems *)

\* The invariant holds in every state the transactions of the store and the
\* clients that call them can reach.
THEOREM Inductive == Spec => []AInv
<1>1. AInv /\ [Next]_vars => AInv'
  BY StepAInv
<1> QED
  BY InitAInv, <1>1, PTL DEF Spec

\* The rows of the store keep their shape, and a closed chain carries no turn
\* (close, reconcile_runtime_session_deleted).
THEOREM Typing == Spec => []TypeOK
<1>1. AInv => TypeOK
  BY DEF AInv
<1> QED
  BY Inductive, <1>1, PTL

\* However often a request is sent, by however many clients that crash and
\* retry, one answer to it is appended (append_answer, create_answer).
THEOREM RetriesGetTheFirstAnswer == Spec => []OneAnswerPerRequest
<1>1. AInv => OneAnswerPerRequest
  BY DEF AInv
<1> QED
  BY Inductive, <1>1, PTL

\* Every answer was generated on the product it follows (append_answer's check
\* of the expected product version).
THEOREM NoAnswerOnOldContext == Spec => []BuiltOnLatest
<1>1. AInv => BuiltOnLatest
  BY DEF AInv
<1> QED
  BY Inductive, <1>1, PTL

\* No two clients hold a turn of one chain, whatever clocks they have read
\* (begin_answer_turn, renew_answer_turn).
THEOREM OneTurnAtATime == Spec => []OneLiveTurn
<1>1. AInv => OneLiveTurn
  <2> SUFFICES ASSUME AInv, NEW p \in Clients, NEW q \in Clients, NEW t \in Clocks,
                      client[p].chain = client[q].chain, Holds(p, t), Holds(q, t)
               PROVE  p = q
    BY DEF OneLiveTurn
  <2>1. client[p].token # 0 /\ client[p].token = client[q].token
    BY DEF Holds
  <2> QED
    BY <2>1 DEF AInv, TokensAreFenced
<1> QED
  BY Inductive, <1>1, PTL

\* A step that leaves the products of a chain alone adds no answer to it.
LEMMA NoneAdded ==
  ASSUME AInv, NEW c \in Chains, chain'[c].products = chain[c].products
  PROVE  ~AnswerAdded(c)
<1>1. Latest(c)' = Latest(c) /\ Latest(c) \in Nat
  BY ChainFacts DEF Latest, AInv
<1>2. CASE AnswerAdded(c)
  <2>1. Latest(c)' > Latest(c)
    BY <1>2 DEF AnswerAdded
  <2> QED
    BY <1>1, <2>1
<1> QED
  BY <1>2

\* What is added to a chain is its last product.
LEMMA LastAdded ==
  ASSUME AInv, NEW c \in Chains, NEW x \in Products,
         chain'[c].products = Append(chain[c].products, x)
  PROVE  chain'[c].products[Latest(c)'] = x
<1>1. chain[c].products \in Seq(Products) /\ Latest(c) \in Nat
  BY ChainFacts DEF AInv
<1> QED
  BY <1>1 DEF Latest

LEMMA ResearchAddsNone ==
  ASSUME AInv, NEW d \in Chains, NEW made \in BOOLEAN,
         CoordinateTerminal(d, made) \/ Close(d, made), NEW c \in Chains
  PROVE  ~AnswerAdded(c)
<1> DEFINE x   == [by |-> Research, parent |-> Latest(d)]
           all == IF made THEN Append(chain[d].products, x) ELSE chain[d].products
<1>1. /\ chain'[d].products = all
      /\ \A e \in Chains : e # d => chain'[e].products = chain[e].products
  BY DEF AInv, TypeOK, ChainRows, CoordinateTerminal, Close
<1>2. CASE c # d \/ ~made
  BY <1>1, <1>2, NoneAdded
<1>3. CASE c = d /\ made
  <2>1. x \in Products /\ x.by = Research
    BY ResearchProduct
  <2>2. chain'[c].products = Append(chain[c].products, x)
    BY <1>1, <1>3
  <2> HIDE DEF x
  <2>3. chain'[c].products[Latest(c)'].by = Research
    BY <2>1, <2>2, LastAdded
  <2> QED
    BY <2>3 DEF AnswerAdded
<1> QED
  BY <1>2, <1>3

LEMMA CreateAddsNone ==
  ASSUME AInv, NEW p \in Clients, CreateAnswer(p), NEW c \in Chains
  PROVE  ~AnswerAdded(c)
<1>1. CASE chain' = chain
  BY <1>1, NoneAdded
<1>2. CASE chain' # chain
  <2>1. /\ NextChain \in Chains
        /\ \A d \in Chains : d # NextChain => chain'[d] = chain[d]
    BY <1>2 DEF CreateAnswer, store, AInv, TypeOK
  <2>2. chain[NextChain].status = "absent"
    BY <2>1, NextChainIsNew
  <2>3. CASE c = NextChain
    BY <2>2, <2>3 DEF AnswerAdded
  <2>4. CASE c # NextChain
    BY <2>1, <2>4, NoneAdded
  <2> QED
    BY <2>3, <2>4
<1> QED
  BY <1>1, <1>2

\* An answer is added to a chain by a client that may append to it.
LEMMA AnswersAreAppended ==
  ASSUME AInv, [Next]_vars, NEW c \in Chains, AnswerAdded(c)
  PROVE  \E p \in Clients, t \in Clocks :
           /\ client[p].chain = c /\ MayAppend(p, t) /\ route' = route
           /\ chain'[c].products[Latest(c)'].by = client[p].key
<1>1. ASSUME NEW p \in Clients,
             \/ \E k \in Keys, g \in Gens : StartRequest(p, k, g)
             \/ \E k \in Keys, d \in Chains \union {None} : StartUnrouted(p, k, d)
             \/ GoWithoutTurn(p) \/ ReleaseAnswerTurn(p) \/ Crash(p)
             \/ \E t \in Clocks : BeginAnswerTurn(p, t) \/ RenewAnswerTurn(p, t)
      PROVE  chain'[c].products = chain[c].products
  <2>1. CASE chain' = chain
    BY <2>1
  <2>2. CASE ReleaseAnswerTurn(p)
    <3>1. \/ chain' = chain
          \/ chain' = [chain EXCEPT ![client[p].chain].turn = Nobody,
                                    ![client[p].chain].expires = 0]
      BY <2>2 DEF ReleaseAnswerTurn
    <3>2. chain \in [Chains -> ChainRows] /\ chain[c] \in ChainRows
      BY DEF AInv, TypeOK
    <3>3. CASE chain'[c] = chain[c]
      BY <3>3
    <3>4. CASE chain'[c] # chain[c]
      <4>1. chain'[c] = [chain[c] EXCEPT !.turn = Nobody, !.expires = 0]
        BY <3>1, <3>2, <3>4
      <4> QED
        BY <3>2, <4>1 DEF ChainRows
    <3> QED
      BY <3>3, <3>4
  <2>3. CASE \E t \in Nat, k \in Keys :
               chain' = [chain EXCEPT ![client[p].chain] = Taken(client[p].chain, k, t)]
    <3>1. PICK t \in Nat, k \in Keys :
            chain' = [chain EXCEPT ![client[p].chain] = Taken(client[p].chain, k, t)]
      BY <2>3
    <3>2. Taken(c, k, t).products = chain[c].products
      BY TakenFacts
    <3> QED
      BY <3>1, <3>2 DEF AInv, TypeOK
  <2>4. CASE \E t \in Clocks : BeginAnswerTurn(p, t) \/ RenewAnswerTurn(p, t)
    <3>1. Clocks \subseteq Nat
      BY ConstantFacts DEF Clocks, AInv, TypeOK
    <3>2. client[p].key \in Keys
      BY <2>4, WorkFacts DEF BeginAnswerTurn, RenewAnswerTurn
    <3> QED
      BY <2>1, <2>3, <2>4, <3>1, <3>2 DEF BeginAnswerTurn, RenewAnswerTurn, Refused, store
  <2>5. CASE \/ \E k \in Keys, g \in Gens : StartRequest(p, k, g)
             \/ \E k \in Keys, d \in Chains \union {None} : StartUnrouted(p, k, d)
             \/ GoWithoutTurn(p) \/ Crash(p)
    BY <2>1, <2>5 DEF StartRequest, StartUnrouted, GoWithoutTurn, Crash, store
  <2> QED
    BY <1>1, <2>2, <2>4, <2>5
<1>2. ASSUME NEW d \in Chains, ContinueResearch(d) \/ ReconcileSessionDeleted(d)
      PROVE  chain'[c].products = chain[c].products
  <2>1. \/ chain' = [chain EXCEPT ![d].busy = TRUE]
        \/ chain' = [chain EXCEPT ![d].turn = Nobody, ![d].expires = 0, ![d].token = @ + 1]
    BY <1>2 DEF ContinueResearch, ReconcileSessionDeleted
  <2>2. chain \in [Chains -> ChainRows] /\ chain[c] \in ChainRows
    BY DEF AInv, TypeOK
  <2>3. \/ chain'[c] = chain[c]
        \/ chain'[c] = [chain[c] EXCEPT !.busy = TRUE]
        \/ chain'[c] = [chain[c] EXCEPT !.turn = Nobody, !.expires = 0, !.token = @ + 1]
    BY <2>1, <2>2
  <2> QED
    BY <2>2, <2>3 DEF ChainRows
<1>3. ASSUME Tick \/ UNCHANGED vars
      PROVE  chain'[c].products = chain[c].products
  BY <1>3 DEF Tick, store, vars
<1>4. PICK p \in Clients, t \in Clocks : AppendAnswer(p, t)
  BY <1>1, <1>2, <1>3, NoneAdded, ResearchAddsNone, CreateAddsNone DEF Next
<1> DEFINE d == client[p].chain
           x == [by |-> client[p].key, parent |-> client[p].parent]
<1>5. d \in Chains /\ client[p].key \in Keys /\ client[p].parent \in Nat
  BY <1>4, WorkFacts, ClientFacts DEF AppendAnswer, AInv
<1>6. chain' # chain
  BY NoneAdded
<1>7. /\ MayAppend(p, t) /\ route' = route
      /\ chain' = [chain EXCEPT ![d].products = Append(@, x)]
  BY <1>4, <1>6 DEF AppendAnswer, Refused, store
<1>8. /\ chain'[d].products = Append(chain[d].products, x)
      /\ \A e \in Chains : e # d => chain'[e].products = chain[e].products
  BY <1>5, <1>7 DEF AInv, TypeOK, ChainRows
<1>9. c = d
  BY <1>8, NoneAdded
<1>10. chain'[c].products[Latest(c)'] = x
  <2>1. x \in Products
    BY <1>5 DEF Products
  <2> HIDE DEF x
  <2> QED
    BY <1>5, <1>8, <1>9, <2>1, LastAdded
<1>11. client[p].chain = c /\ chain'[c].products[Latest(c)'].by = client[p].key
  BY <1>9, <1>10
<1> QED
  BY <1>7, <1>11

\* While a turn is held, whatever clock its rivals have read, only its holder
\* adds an answer (append_answer: _require_active_turn).
THEOREM OnlyTheHolderWrites == Spec => HolderWrites
<1>1. AInv /\ [Next]_vars =>
        \A c \in Chains : AnswerAdded(c) /\ (\A t \in Clocks : ~Free(c, t))
          => chain'[c].products[Latest(c)'].by = chain[c].turn
  <2> SUFFICES ASSUME AInv, [Next]_vars, NEW c \in Chains, AnswerAdded(c),
                      \A t \in Clocks : ~Free(c, t)
               PROVE  chain'[c].products[Latest(c)'].by = chain[c].turn
    OBVIOUS
  <2>1. PICK p \in Clients, t \in Clocks :
          /\ client[p].chain = c /\ MayAppend(p, t)
          /\ chain'[c].products[Latest(c)'].by = client[p].key
    BY AnswersAreAppended
  <2>2. Holds(p, t)
    BY <2>1 DEF MayAppend
  <2>3. chain[c].turn = client[p].key
    BY <2>1, <2>2 DEF Holds
  <2> QED
    BY <2>1, <2>3
<1> QED
  BY Inductive, <1>1, PTL DEF Spec, HolderWrites

\* Whoever appends an answer might, and the route stays where it is.
LEMMA AppendedMay ==
  ASSUME AInv, [Next]_vars, NEW p \in Clients, Appended(p)
  PROVE  (\E t \in Clocks : MayAppend(p, t)) /\ route' = route
<1>1. /\ client'[p] # client[p] /\ bound' # bound /\ client[p].pc = "answer"
  BY DEF Appended
<1>2. PICK q \in Clients : CreateAnswer(q) \/ \E t \in Clocks : AppendAnswer(q, t)
  BY <1>1 DEF Next, vars, store, StartRequest, StartUnrouted, GoWithoutTurn,
     ReleaseAnswerTurn, Crash, BeginAnswerTurn, RenewAnswerTurn, Refused,
     ContinueResearch, ReconcileSessionDeleted, CoordinateTerminal, Close, Tick
<1>3. q = p
  BY <1>1, <1>2 DEF CreateAnswer, AppendAnswer, Refused, Done, Leave, AInv, TypeOK
<1>4. PICK t \in Clocks : AppendAnswer(p, t)
  BY <1>1, <1>2, <1>3 DEF CreateAnswer
<1> QED
  BY <1>1, <1>4 DEF AppendAnswer, Refused, store

\* The route moves in one way only.
LEMMA RouteMoved ==
  ASSUME AInv, [Next]_vars, route' # route
  PROVE  /\ chain[route'.chain].status = "absent"
         /\ route'.gen \notin route.seen
         /\ route'.seen = route.seen \union {route'.gen}
<1>1. PICK p \in Clients : CreateAnswer(p)
  BY DEF Next, vars, store, StartRequest, StartUnrouted, GoWithoutTurn, ReleaseAnswerTurn,
         Crash, BeginAnswerTurn, RenewAnswerTurn, AppendAnswer, Refused, ContinueResearch,
         ReconcileSessionDeleted, CoordinateTerminal, Close, Tick
<1>2. /\ Routed(p) /\ Admissible(p) /\ NextChain \in Chains
      /\ route' = [rev |-> route.rev + 1, gen |-> client[p].gen, chain |-> NextChain,
                   seen |-> route.seen \union {client[p].gen}]
  BY <1>1 DEF CreateAnswer, store
<1>3. chain[NextChain].status = "absent"
  BY <1>2, NextChainIsNew
<1> QED
  BY <1>2, <1>3 DEF Admissible

\* An answer asked through the route reaches only the chain that was made for
\* its generation, and not once the route has moved on; the route moves to new
\* chains and never returns (_require_active_route_generation,
\* _write_route_rotate).
THEOREM RoutesOnlyMoveOn == Spec => RouteMovesOn
<1>1. AInv /\ [Next]_vars =>
        \A p \in Clients : Routed(p) /\ Appended(p) =>
          /\ route.gen = client[p].gen /\ route.chain = client[p].chain
          /\ route' = route
  BY AppendedMay DEF MayAppend, RouteIsCurrent
<1>2. AInv /\ [Next]_vars =>
        (route' # route => /\ chain[route'.chain].status = "absent"
                           /\ route'.gen \notin route.seen
                           /\ route'.seen = route.seen \union {route'.gen})
  BY RouteMoved
<1> QED
  BY Inductive, <1>1, <1>2, PTL DEF Spec, RouteMovesOn
=============================================================================
