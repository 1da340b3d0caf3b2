---------------------------- MODULE ResolveCache ----------------------------
(***************************************************************************)
(* The cache in front of address resolution that the tools and the panel   *)
(* of a process share (api.ts: createResolveCache): a record is served     *)
(* for Ttl from the moment its request came back, only an address that     *)
(* exists is kept, and the Map's order says whose place goes first.        *)
(* Requests of one address are not joined: several may be under way.       *)
(***************************************************************************)
EXTENDS Integers, Sequences, SequencesExt, FiniteSets

CONSTANTS Peers,            \* addresses
          Askers,           \* callers that may wait at once
          Ttl, Patience,    \* how long a record is served; a request's timeout
          Places,           \* RESOLVE_CACHE_MAX
          MaxTime           \* bound: the clock

ASSUME CacheAssumption == /\ Ttl \in Nat \ {0} /\ Patience \in Nat \ {0} /\ MaxTime \in Nat
                          /\ Places \in Nat \ {0}

VARIABLES time,
          exists,           \* the server: the addresses there are
          order, kept,      \* the Map: its keys in order; per peer its time, and when it was read there
          ask,              \* per asker: the request under way
          used,             \* history: when a peer's record was last asked for or stored
          got               \* history: the last answer

cacheVars == <<time, exists, order, kept, ask, used, got>>

Never == 0 - 1
NothingKept == [at |-> Never, asOf |-> Never]
NoPeer == "none"
NotAsking == [pc |-> "rest", peer |-> NoPeer, since |-> Never, found |-> FALSE, asOf |-> Never]
NoAnswer == [age |-> 0, evicted |-> FALSE]

CacheInit == /\ time = 0 /\ exists \in SUBSET Peers /\ order = <<>> /\ kept = [p \in Peers |-> NothingKept]
             /\ ask = [a \in Askers |-> NotAsking] /\ used = [p \in Peers |-> Never] /\ got = NoAnswer

-----------------------------------------------------------------------------
PeerRegisters == /\ \E p \in Peers \ exists : exists' = exists \union {p}
                 /\ UNCHANGED <<time, order, kept, ask, used, got>>

\* A request that waits longer than its timeout has failed.
Ticks == /\ time < MaxTime /\ time' = time + 1
         /\ \A a \in Askers : ask[a].pc # "rest" => time < ask[a].since + Patience
         /\ UNCHANGED <<exists, order, kept, ask, used, got>>

Fresh(p) == kept[p] # NothingKept /\ time - kept[p].at < Ttl
MovedToEnd(p) == Append(RemoveFirst(order, p), p)

\* resolve: a hit moves its key to the end.
\* Slip: a hit makes the record young again.
AfterHit_Renewed(p) == [kept EXCEPT ![p].at = time]
AfterHit(p) == kept

ResolvesPeer(a, p) ==
  /\ ask[a].pc = "rest"
  /\ IF Fresh(p)
     THEN /\ order' = MovedToEnd(p) /\ kept' = AfterHit(p) /\ used' = [used EXCEPT ![p] = time]
          /\ got' = [NoAnswer EXCEPT !.age = time - kept[p].asOf]
          /\ UNCHANGED ask
     ELSE /\ ask' = [ask EXCEPT ![a] = [NotAsking EXCEPT !.pc = "sent", !.peer = p, !.since = time]]
          /\ UNCHANGED <<order, kept, used, got>>
  /\ UNCHANGED <<time, exists>>

ServerAnswers(a) ==
  /\ ask[a].pc = "sent"
  /\ ask' = [ask EXCEPT ![a].pc = "back", ![a].found = ask[a].peer \in exists, ![a].asOf = time]
  /\ UNCHANGED <<time, exists, order, kept, used, got>>

\* A key that is in the Map keeps its place when it is set anew.
Placed(p) == IF p \in ToSet(order) THEN order ELSE Append(order, p)

Stores(a) ==
  LET p == ask[a].peer
      full == Placed(p)
      out == IF Len(full) > Places THEN Head(full) ELSE p
  IN /\ ask[a].pc = "back" /\ ask' = [ask EXCEPT ![a] = NotAsking]
     /\ IF ~ask[a].found THEN UNCHANGED <<order, kept, used>> /\ got' = NoAnswer
        ELSE /\ order' = IF out = p THEN full ELSE Tail(full)
             /\ kept' = [q \in Peers |-> IF q = p THEN [at |-> time, asOf |-> ask[a].asOf]
                                         ELSE IF q = out THEN NothingKept ELSE kept[q]]
             /\ used' = [used EXCEPT ![p] = time]
             /\ got' = [NoAnswer EXCEPT !.evicted = out # p /\ \E q \in ToSet(order) \ {out} : used[q] < used[out]]
     /\ UNCHANGED <<time, exists>>

AskEnds(a) == /\ ask[a].pc # "rest" /\ ask' = [ask EXCEPT ![a] = NotAsking]
                /\ UNCHANGED <<time, exists, order, kept, used, got>>

CacheNext == \/ PeerRegisters \/ Ticks
             \/ \E a \in Askers : \/ ServerAnswers(a) \/ Stores(a) \/ AskEnds(a)
                                  \/ \E p \in Peers : ResolvesPeer(a, p)
CacheSpec == CacheInit /\ [][CacheNext]_cacheVars

-----------------------------------------------------------------------------
CacheTypeOK ==
  /\ time \in 0..MaxTime /\ exists \subseteq Peers
  /\ order \in Seq(Peers) /\ Len(order) <= Places
  /\ kept \in [Peers -> [at : Never..MaxTime, asOf : Never..MaxTime]]
  /\ used \in [Peers -> Never..MaxTime]
  /\ ask \in [Askers -> [pc : {"rest", "sent", "back"}, peer : Peers \union {NoPeer}, since : Never..MaxTime,
                         found : BOOLEAN, asOf : Never..MaxTime]]
  /\ got \in [age : 0..MaxTime, evicted : BOOLEAN]

\* What is served is no older than the time to live and one request, whatever requests of the
\* same address overtake each other; what is kept is in the Map once; and only what exists.
AnswersAreYoung ==
  /\ got.age < Ttl + Patience
  /\ ToSet(order) = {p \in Peers : kept[p] # NothingKept} /\ Cardinality(ToSet(order)) = Len(order)
  /\ ToSet(order) \subseteq exists

\* The comment at RESOLVE_CACHE_TTL_MS: a new record is seen after the time to live at the latest.
NewRecordsAreSeen == got.age < Ttl
\* The comment in resolve: the Map's order is that of use.
LeastUsedGoesFirst == ~got.evicted
=============================================================================
