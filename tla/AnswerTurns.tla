---------------------------- MODULE AnswerTurns ----------------------------
(***************************************************************************)
(* Answers on a conversation.  A request may belong to a generation of a   *)
(* route, and the route names the chain that generation talks to; or it    *)
(* names no route, and asks for a new chain or brings the continuation     *)
(* token of one.  A client looks the request up, takes the chain's turn    *)
(* lease (or goes on without), has an answer generated on top of the       *)
(* product it read, and appends it; the request's key makes a retry return *)
(* the first answer.  Meanwhile research publishes products on the same    *)
(* chain, the chain may be closed, and runtime sessions are collected.     *)
(*                                                                         *)
(*   chain   rows of `chains` and `continuations`, and their products      *)
(*   route   the row of `conversation_routes` (revision 0: absent)         *)
(*   bound   rows of `idempotency`: the product a request key is bound to  *)
(*   client  the processes that answer                                     *)
(*                                                                         *)
(* Each action is one transaction.  The repository fixes what each does;   *)
(* the order in which a client calls them is the one its look-up, fence    *)
(* and lease methods are made for.                                         *)
(***************************************************************************)
EXTENDS Integers, Sequences, FiniteSetsExt

CONSTANTS
  Clients,    \* processes answering requests
  Keys,       \* idempotency keys; a request's turn_id is derived from its key
  Gens,       \* route generations
  Research, Nobody,  \* the author of a research product; no turn
  LeaseTime,  \* lease_seconds of a turn
  Lag,        \* bound: how old a caller's clock reading may be
  MaxChains, MaxProducts, MaxTime,  \* bounds; MaxProducts is for one chain
  AllProducts, AllTurns  \* bounds for all chains together

ASSUME TurnAssumption ==
  /\ LeaseTime \in Nat \ {0}
  /\ {Lag, MaxChains, MaxTime, AllProducts, AllTurns} \subseteq Nat
  /\ MaxProducts \in Nat \ {0}
  /\ Research \notin Keys /\ Nobody \notin Keys \union Gens

VARIABLES now, chain, route, bound, client

vars == <<now, chain, route, bound, client>>
store == <<chain, route, bound>>

Chains == 1..MaxChains
None == 0

\* parent is the product its author read before it wrote.
Products == [by : Keys \union {Research}, parent : Nat]

ChainRows ==
  [status : {"absent", "active", "closed"}, busy : BOOLEAN,
   turn : Keys \union {Nobody}, expires : Nat, token : Nat,
   products : Seq(Products)]

Routes == [rev : Nat, gen : Gens \union {Nobody}, chain : Chains \union {None},
           seen : SUBSET Gens]

Places == [chain : Chains, no : 1..MaxProducts]   \* where a product is
Unbound == [chain |-> None, no |-> 0]

Clerks == [pc : {"idle", "create", "begin", "answer", "release"},
           key : Keys \union {Nobody}, gen : Gens \union {Nobody}, rev : Nat,
           chain : Chains \union {None}, token : Nat, parent : Nat]
Idle == [pc |-> "idle", key |-> Nobody, gen |-> Nobody, rev |-> 0,
         chain |-> None, token |-> 0, parent |-> 0]

NoChain == [status |-> "absent", busy |-> FALSE, turn |-> Nobody, expires |-> 0,
            token |-> 0, products |-> << >>]

Latest(c) == Len(chain[c].products)

TypeOK ==
  /\ now \in 0..MaxTime
  /\ chain \in [Chains -> ChainRows] /\ route \in Routes
  /\ bound \in [Keys -> Places \union {Unbound}]
  /\ client \in [Clients -> Clerks]
  /\ \A c \in Chains : chain[c].status = "closed" => chain[c].turn = Nobody

Init ==
  /\ now = 0
  /\ chain = [c \in Chains |-> NoChain]
  /\ route = [rev |-> 0, gen |-> Nobody, chain |-> None, seen |-> {}]
  /\ bound = [k \in Keys |-> Unbound]
  /\ client = [p \in Clients |-> Idle]

-----------------------------------------------------------------------------

\* The bounds leave room for a product on the chain, and for a turn.
RoomFor(c) ==
  /\ Latest(c) < MaxProducts
  /\ MapThenSumSet(Latest, Chains) < AllProducts

TurnLeft == MapThenSumSet(LAMBDA c : chain[c].token, Chains) < AllTurns

Clocks == {t \in 0..now : now <= t + Lag}

Goto(p, label) == client' = [client EXCEPT ![p].pc = label]
Leave(p)       == client' = [client EXCEPT ![p] = Idle]

\* The request names a route (route_key is not None).
Routed(p) == client[p].gen # Nobody

\* A client that is done, or was refused, keeps only what releases its turn.
Done(p) ==
  IF client[p].token = 0 THEN Leave(p)
  ELSE client' = [client EXCEPT ![p] =
         [Idle EXCEPT !.pc = "release", !.key = client[p].key,
                      !.chain = client[p].chain, !.token = client[p].token]]

Refused(p) == Done(p) /\ UNCHANGED store

-----------------------------------------------------------------------------
(* Finding the chain, and an earlier answer *)

\* _require_active_route_generation
RouteIsCurrent(p) ==
  /\ route.rev = client[p].rev /\ route.gen = client[p].gen
  /\ route.chain = client[p].chain

\* _fence_answer_route_admission: the state before a create or a rotation.
Admissible(p) ==
  /\ route.rev = client[p].rev
  /\ client[p].gen \notin route.seen

\* Defect: a key is looked up among the answers of one chain.
UnansweredHere(p) ==
  LET k == client[p].key IN bound[k] = Unbound \/ bound[k].chain # client[p].chain

\* _resolve_answer_idempotency finds nothing.
Unanswered(p) == bound[client[p].key] = Unbound

Open(c) == chain[c].status = "active" /\ ~chain[c].busy

\* resolve_route and find_answer_replay_bound.  The second checks the route
\* again and refuses the request when it is not what the first has read, so
\* they are one step.  A request that has its answer, or is refused, is over;
\* the others go on: the active generation on the latest product of its chain,
\* a generation the route has not seen to a chain of its own.
StartRequest(p, k, g) ==
  /\ client[p].pc = "idle" /\ bound[k] = Unbound
  /\ client' = [client EXCEPT ![p] =
       [Idle EXCEPT !.key = k, !.gen = g, !.rev = route.rev,
          !.pc     = IF g = route.gen THEN "begin" ELSE "create",
          !.chain  = IF g = route.gen THEN route.chain ELSE None,
          !.parent = IF g = route.gen THEN Latest(route.chain) ELSE 0]]
  /\ IF g = route.gen THEN Open(route.chain) ELSE g \notin route.seen
  /\ UNCHANGED <<now, store>>

\* find_answer_replay, or its bound form, without a route: the request asks for
\* a chain of its own (c is None), or goes on with the one whose continuation
\* token it brings, whatever any route names.
StartUnrouted(p, k, c) ==
  /\ client[p].pc = "idle" /\ bound[k] = Unbound
  /\ c # None => Open(c)
  /\ client' = [client EXCEPT ![p] =
       [Idle EXCEPT !.key = k, !.chain = c,
          !.pc     = IF c = None THEN "create" ELSE "begin",
          !.parent = IF c = None THEN 0 ELSE Latest(c)]]
  /\ UNCHANGED <<now, store>>

-----------------------------------------------------------------------------
(* The first answer of a chain *)

NextChain == Cardinality({c \in Chains : chain[c].status # "absent"}) + 1

\* create_answer: chain, first product, binding and, if the request names one,
\* the route, in one transaction.
CreateAnswer(p) ==
  LET k == client[p].key
      c == NextChain
  IN
  /\ client[p].pc = "create" /\ Leave(p)
  /\ \/ /\ Unanswered(p) /\ (Routed(p) => Admissible(p)) /\ c \in Chains
        /\ chain' = [chain EXCEPT ![c] =
             [NoChain EXCEPT !.status = "active",
                             !.products = <<[by |-> k, parent |-> 0]>>]]
        /\ route' = IF Routed(p)
             THEN [rev |-> route.rev + 1, gen |-> client[p].gen, chain |-> c,
                   seen |-> route.seen \union {client[p].gen}]
             ELSE route
        /\ bound' = [bound EXCEPT ![k] = [chain |-> c, no |-> 1]]
     \/ /\ ~Unanswered(p) \/ (Routed(p) /\ ~Admissible(p))
        /\ UNCHANGED store
  /\ UNCHANGED now

-----------------------------------------------------------------------------
(* The turn lease *)

Free(c, t) == chain[c].turn = Nobody \/ chain[c].expires <= t

Taken(c, k, t) ==
  [chain[c] EXCEPT !.turn = k, !.expires = t + LeaseTime, !.token = @ + 1]

BeginAnswerTurn(p, t) ==
  LET c == client[p].chain IN
  /\ client[p].pc = "begin" /\ TurnLeft
  /\ IF chain[c].status = "active" /\ Free(c, t)
       THEN /\ chain' = [chain EXCEPT ![c] = Taken(c, client[p].key, t)]
            /\ client' = [client EXCEPT ![p].pc = "answer",
                                        ![p].token = chain[c].token + 1]
            /\ UNCHANGED <<route, bound>>
       ELSE Refused(p)
  /\ UNCHANGED now

\* A caller may also append without a turn.
GoWithoutTurn(p) ==
  /\ client[p].pc = "begin" /\ Goto(p, "answer")
  /\ UNCHANGED <<now, store>>

Holds(p, t) ==
  LET row == chain[client[p].chain] IN
  /\ client[p].token # 0 /\ row.turn = client[p].key /\ row.expires > t
  /\ row.token = client[p].token

RenewAnswerTurn(p, t) ==
  LET c == client[p].chain IN
  /\ client[p].pc = "answer" /\ client[p].token # 0 /\ TurnLeft
  /\ IF chain[c].status = "active" /\ Holds(p, t)
       THEN /\ chain' = [chain EXCEPT ![c] = Taken(c, client[p].key, t)]
            /\ client' = [client EXCEPT ![p].token = chain[c].token + 1]
            /\ UNCHANGED <<route, bound>>
       ELSE Refused(p)
  /\ UNCHANGED now

\* A release with an old token does nothing.
ReleaseAnswerTurn(p) ==
  LET c == client[p].chain IN
  /\ client[p].pc = "release" /\ Leave(p)
  /\ chain' = IF /\ chain[c].turn = client[p].key
                 /\ chain[c].token = client[p].token
                THEN [chain EXCEPT ![c].turn = Nobody, ![c].expires = 0]
                ELSE chain
  /\ UNCHANGED <<now, route, bound>>

-----------------------------------------------------------------------------
(* Appending an answer *)

\* Defect: only the look-up checks the route.
MayAppendUnrouted(p, t) ==
  LET c == client[p].chain IN
  Open(c) /\ IF client[p].token = 0 THEN Free(c, t) ELSE Holds(p, t)

\* Defect: an append that names no turn is not stopped by one.
MayAppendWithoutTurn(p, t) ==
  LET c == client[p].chain IN
  /\ Open(c) /\ (Routed(p) => RouteIsCurrent(p))
  /\ client[p].token # 0 => Holds(p, t)

\* The checks of append_answer that come before its look-up of the key.  The
\* route is checked only for a request that names one.
MayAppend(p, t) ==
  LET c == client[p].chain IN
  /\ Open(c) /\ (Routed(p) => RouteIsCurrent(p))
  /\ IF client[p].token = 0 THEN Free(c, t) ELSE Holds(p, t)

\* Defect: the turn is taken for the only writer of products.
ParentIsCurrentTurn(p) ==
  client[p].token # 0 \/ client[p].parent = Latest(client[p].chain)

ParentIsCurrent(p) == client[p].parent = Latest(client[p].chain)

AppendAnswer(p, t) ==
  LET k  == client[p].key
      c  == client[p].chain
      no == Latest(c) + 1
  IN
  /\ client[p].pc = "answer"
  /\ \/ /\ MayAppend(p, t) /\ Unanswered(p) /\ ParentIsCurrent(p)
        /\ RoomFor(c)
        /\ chain' = [chain EXCEPT
             ![c].products = Append(@, [by |-> k, parent |-> client[p].parent])]
        /\ bound' = [bound EXCEPT ![k] = [chain |-> c, no |-> no]]
        /\ Done(p) /\ UNCHANGED route
     \/ /\ ~MayAppend(p, t) \/ ~Unanswered(p) \/ ~ParentIsCurrent(p)
        /\ Refused(p)
  /\ UNCHANGED now

-----------------------------------------------------------------------------
(* What others do to the chain *)

\* continue_research queues a job; the turn lease does not stop it.
ContinueResearch(c) ==
  /\ Open(c) /\ chain' = [chain EXCEPT ![c].busy = TRUE]
  /\ UNCHANGED <<now, route, bound, client>>

\* _coordinate_terminal, with a product or without.
CoordinateTerminal(c, made) ==
  /\ chain[c].status = "active" /\ chain[c].busy
  /\ made => RoomFor(c)
  /\ chain' = [chain EXCEPT ![c].busy = FALSE, ![c].products =
       IF made THEN Append(@, [by |-> Research, parent |-> Latest(c)]) ELSE @]
  /\ UNCHANGED <<now, route, bound, client>>

\* close; a job that has ended is announced first (made: with a product).
Close(c, made) ==
  /\ chain[c].status = "active"
  /\ made => chain[c].busy /\ RoomFor(c)
  /\ chain' = [chain EXCEPT
       ![c].status = "closed", ![c].busy = FALSE,
       ![c].turn = Nobody, ![c].expires = 0, ![c].token = @ + 1,
       ![c].products =
         IF made THEN Append(@, [by |-> Research, parent |-> Latest(c)]) ELSE @]
  /\ UNCHANGED <<now, route, bound, client>>

\* reconcile_runtime_session_deleted by the janitor that removed the last
\* archive of the chain's session: the turn goes with the handle.  What the
\* archives and the handle point to is not modelled, so it may come at any time.
ReconcileSessionDeleted(c) ==
  /\ Latest(c) > 0 /\ TurnLeft
  /\ chain' = [chain EXCEPT ![c].turn = Nobody, ![c].expires = 0, ![c].token = @ + 1]
  /\ UNCHANGED <<now, route, bound, client>>

\* A client dies; its caller may ask again with the same key.
Crash(p) ==
  /\ client[p].pc # "idle" /\ Leave(p)
  /\ UNCHANGED <<now, store>>

Tick == now < MaxTime /\ now' = now + 1 /\ UNCHANGED <<store, client>>

Next ==
  \/ \E p \in Clients :
       \/ \E k \in Keys, g \in Gens : StartRequest(p, k, g)
       \/ \E k \in Keys, c \in Chains \union {None} : StartUnrouted(p, k, c)
       \/ CreateAnswer(p) \/ GoWithoutTurn(p)
       \/ ReleaseAnswerTurn(p) \/ Crash(p)
       \/ \E t \in Clocks :
            BeginAnswerTurn(p, t) \/ RenewAnswerTurn(p, t) \/ AppendAnswer(p, t)
  \/ \E c \in Chains :
       \/ ContinueResearch(c) \/ ReconcileSessionDeleted(c)
       \/ \E made \in BOOLEAN : CoordinateTerminal(c, made) \/ Close(c, made)
  \/ Tick

Spec == Init /\ [][Next]_vars

-----------------------------------------------------------------------------
(* Properties *)

\* However often a request is sent, by however many clients, there is one
\* answer to it, and its key is bound to that answer: a retry finds it.
OneAnswerPerRequest ==
  \A k \in Keys :
    {a \in Places : /\ a.no <= Latest(a.chain)
                    /\ chain[a.chain].products[a.no].by = k}
      = {bound[k]} \ {Unbound}

\* Every answer was generated on the product it follows.  The turn lease alone
\* does not give this: research publishes on the chain without taking a turn,
\* and clients may go without one.
BuiltOnLatest ==
  \A c \in Chains : \A i \in DOMAIN chain[c].products :
    chain[c].products[i].parent = i - 1

\* Two clients never hold a turn of the same chain, not even when both retry
\* one request, under one turn_id (begin_answer_turn, renew_answer_turn).
OneLiveTurn ==
  \A p, q \in Clients, t \in Clocks :
    client[p].chain = client[q].chain /\ Holds(p, t) /\ Holds(q, t) => p = q

\* The author of an answer added to an existing chain in this step.
AnswerAdded(c) ==
  /\ chain[c].status # "absent" /\ Latest(c)' > Latest(c)
  /\ chain'[c].products[Latest(c)'].by # Research

\* While a turn is held, by every clock a caller may have read, an answer is
\* added only under that turn.
HolderWrites ==
  [][\A c \in Chains : AnswerAdded(c) /\ (\A t \in Clocks : ~Free(c, t))
       => chain'[c].products[Latest(c)'].by = chain[c].turn]_vars

\* Client p appends its answer in this step.
Appended(p) ==
  /\ client[p].pc = "answer" /\ client'[p] # client[p]
  /\ bound'[client[p].key] # bound[client[p].key]

\* An answer asked through the route is appended only while its generation is
\* the active one, and to the chain that was made for it: what was asked before
\* a rotation and answered after it is dropped.  The route goes to a new chain
\* each time, also past chains made without it, and a generation it has left
\* does not come back.  (Who names no route may append to any open chain.)
RouteMovesOn ==
  [][/\ \A p \in Clients : Routed(p) /\ Appended(p) =>
          /\ route.gen = client[p].gen /\ route.chain = client[p].chain
          /\ route' = route
     /\ route' # route => /\ chain[route'.chain].status = "absent"
                          /\ route'.gen \notin route.seen
                          /\ route'.seen = route.seen \union {route'.gen}]_vars

=============================================================================
