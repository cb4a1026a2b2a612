----------------------- MODULE InMemoryStateStoreProofs -----------------------
(***************************************************************************)
(* Proofs about InMemoryStateStore, for every set of clients, keys and     *)
(* messages and every time to live: type correctness, the sweeper's        *)
(* invariant, and the refinement of StateStoreSpec.                        *)
(***************************************************************************)
EXTENDS InMemoryStateStore, TLAPS

(* Dropping a key of a well-typed map leaves a well-typed map. *)
LEMMA RestrictStates ==
  ASSUME NEW f, DOMAIN f \subseteq Key, \A k \in DOMAIN f : f[k] \in State,
         NEW S, S \subseteq DOMAIN f
  PROVE  /\ DOMAIN Restrict(f, S) = S
         /\ DOMAIN Restrict(f, S) \subseteq Key
         /\ \A k \in DOMAIN Restrict(f, S) : Restrict(f, S)[k] = f[k]
         /\ \A k \in DOMAIN Restrict(f, S) : Restrict(f, S)[k] \in State
  BY DEF Restrict

(* A client's call, by operation. *)
LEMMA CallShape ==
  ASSUME TypeOK, NEW c \in Client
  PROVE  /\ call[c].op \in {"Get", "Delete"} => call[c].key \in Key
         /\ call[c].op = "Set" => /\ call[c].key \in Key
                                  /\ call[c].msg \in Message
                                  /\ call[c].ttl \in TTLArgs
                                  /\ EffectiveTTL(call[c].ttl) \in Nat
<1>1. call[c] \in Call \cup {NoCall}
  BY DEF TypeOK
<1>2. CASE call[c] \in [op : {"Get", "Delete"}, key : Key]
  BY <1>2
<1>3. CASE call[c] \in [op : {"Set"}, key : Key, msg : Message, ttl : TTLArgs]
  BY <1>3, StoreAssumption DEF EffectiveTTL
<1>4. CASE call[c] = NoCall
  BY <1>4 DEF NoCall
<1> QED BY <1>1, <1>2, <1>3, <1>4 DEF Call

(* Every step keeps every variable in its type: states stays a map from     *)
(* keys to messages with expirations, replies are either a message that was *)
(* stored or the absent reply.                                              *)
THEOREM TypeCorrect == Spec => []TypeOK
<1>1. Init => TypeOK
  <2> SUFFICES ASSUME Init PROVE TypeOK
    OBVIOUS
  <2>1. DOMAIN states = {}
    BY DEF Init
  <2>2. call \in [Client -> Call \cup {NoCall}]
    BY DEF Init
  <2>3. reply \in [Client -> Reply]
    BY DEF Init, Reply
  <2> QED BY <2>1, <2>2, <2>3 DEF Init, TypeOK
<1>2. TypeOK /\ [Next]_vars => TypeOK'
  <2> SUFFICES ASSUME TypeOK, [Next]_vars PROVE TypeOK'
    OBVIOUS
  <2> USE StoreAssumption
  <2>1. ASSUME NEW c \in Client, Invoke(c) PROVE TypeOK'
    BY <2>1 DEF Invoke, TypeOK
  <2>2. ASSUME NEW c \in Client, Get(c) PROVE TypeOK'
    <3>1. reply' \in [Client -> Reply]
      BY <2>2 DEF Get, TypeOK, Reply, State
    <3>2. call' \in [Client -> Call \cup {NoCall}]
      BY <2>2 DEF Get, TypeOK
    <3> QED BY <2>2, <3>1, <3>2 DEF Get, TypeOK
  <2>3. ASSUME NEW c \in Client, Set(c) PROVE TypeOK'
    <3>1. call[c].key \in Key /\ call[c].msg \in Message
            /\ EffectiveTTL(call[c].ttl) \in Nat
      BY <2>3, CallShape DEF Set
    <3>2. DOMAIN states' \subseteq Key
      BY <2>3, <3>1 DEF Set, TypeOK
    <3>3. \A k \in DOMAIN states' : states'[k] \in State
      BY <2>3, <3>1 DEF Set, TypeOK, State
    <3>4. call' \in [Client -> Call \cup {NoCall}]
      BY <2>3 DEF Set, TypeOK
    <3> QED BY <2>3, <3>2, <3>3, <3>4 DEF Set, TypeOK
  <2>4. ASSUME NEW c \in Client, Delete(c) PROVE TypeOK'
    <3>1. call' \in [Client -> Call \cup {NoCall}]
      BY <2>4 DEF Delete, TypeOK
    <3> QED BY <2>4, <3>1, RestrictStates DEF Delete, TypeOK
  <2>5. ASSUME Close PROVE TypeOK'
    BY <2>5 DEF Close, TypeOK
  <2>6. ASSUME SweepStart PROVE TypeOK'
    BY <2>6 DEF SweepStart, TypeOK
  <2>7. ASSUME NEW k \in Key, SweepKey(k) PROVE TypeOK'
    BY <2>7, RestrictStates DEF SweepKey, TypeOK
  <2>8. ASSUME SweepEnd PROVE TypeOK'
    BY <2>8 DEF SweepEnd, TypeOK
  <2>9. ASSUME SweeperStop PROVE TypeOK'
    BY <2>9 DEF SweeperStop, TypeOK
  <2>10. ASSUME Tick PROVE TypeOK'
    BY <2>10 DEF Tick, TypeOK
  <2>11. ASSUME UNCHANGED vars PROVE TypeOK'
    BY <2>11 DEF vars, TypeOK
  <2> QED
    BY <2>1, <2>2, <2>3, <2>4, <2>5, <2>6, <2>7, <2>8, <2>9, <2>10, <2>11
       DEF Next
<1> QED BY <1>1, <1>2, PTL DEF Spec

(* The sweeper's clock never runs ahead and, because Set and Delete wait    *)
(* for the mutex, the keys its loop has still to visit are in the map.      *)
THEOREM SweepSafe == Spec => []SweepInv
<1>1. Init => SweepInv
  BY DEF Init, SweepInv
<1>2. TypeOK /\ SweepInv /\ [Next]_vars => SweepInv'
  <2> SUFFICES ASSUME TypeOK, SweepInv, [Next]_vars PROVE SweepInv'
    OBVIOUS
  <2>1. ASSUME NEW c \in Client, Invoke(c) PROVE SweepInv'
    BY <2>1 DEF Invoke, SweepInv
  <2>2. ASSUME NEW c \in Client, Get(c) PROVE SweepInv'
    BY <2>2 DEF Get, SweepInv
  <2>3. ASSUME NEW c \in Client, Set(c) PROVE SweepInv'
    BY <2>3 DEF Set, SweepInv, MutexFree
  <2>4. ASSUME NEW c \in Client, Delete(c) PROVE SweepInv'
    BY <2>4 DEF Delete, SweepInv, MutexFree
  <2>5. ASSUME Close PROVE SweepInv'
    BY <2>5 DEF Close, SweepInv
  <2>6. ASSUME SweepStart PROVE SweepInv'
    BY <2>6 DEF SweepStart, SweepInv, TypeOK
  <2>7. ASSUME NEW k \in Key, SweepKey(k) PROVE SweepInv'
    BY <2>7, RestrictStates DEF SweepKey, SweepInv, TypeOK
  <2>8. ASSUME SweepEnd PROVE SweepInv'
    BY <2>8 DEF SweepEnd, SweepInv
  <2>9. ASSUME SweeperStop PROVE SweepInv'
    BY <2>9 DEF SweeperStop, SweepInv
  <2>10. ASSUME Tick PROVE SweepInv'
    BY <2>10 DEF Tick, SweepInv, TypeOK
  <2>11. ASSUME UNCHANGED vars PROVE SweepInv'
    BY <2>11 DEF vars, SweepInv
  <2> QED
    BY <2>1, <2>2, <2>3, <2>4, <2>5, <2>6, <2>7, <2>8, <2>9, <2>10, <2>11
       DEF Next
<1> QED BY <1>1, <1>2, TypeCorrect, PTL DEF Spec

-----------------------------------------------------------------------------
(* The abstract map. *)
Live == Restrict(states, LiveKeys)

(* Two maps with the same keys and the same entries are the same map. *)
LEMMA LiveIs ==
  Live = [k \in LiveKeys |-> states[k]] /\ DOMAIN Live = LiveKeys
  BY DEF Live, Restrict

(* A step that leaves the map and the clock alone leaves the abstract map   *)
(* alone.                                                                   *)
LEMMA LiveUnchanged ==
  ASSUME states' = states, now' = now
  PROVE  Live' = Live
  BY DEF Live, Restrict, LiveKeys, Expired

(* Every step of the store is a step of the contract or changes nothing     *)
(* the contract speaks of: the sweeper's deletions are invisible, because   *)
(* what it deletes had already lapsed.                                      *)
LEMMA StepRefines ==
  ASSUME TypeOK, SweepInv, [Next]_vars
  PROVE  [Contract!SpecNext]_(Contract!specVars)
<1> USE StoreAssumption
<1> USE DEF Contract!specVars, Contract!SpecNext
<1>1. ASSUME NEW c \in Client, Invoke(c) PROVE Contract!SpecInvoke(c)
  BY <1>1, LiveUnchanged
     DEF Invoke, Live, NoCall, Call, Contract!SpecInvoke, Contract!SpecNoCall,
         Contract!SpecCall
<1>2. ASSUME NEW c \in Client, Get(c) PROVE Contract!SpecGet(c)
  <2>1. call[c].key \in Key
    BY <1>2, CallShape DEF Get
  <2>2. UNCHANGED <<now, Live>>
    BY <1>2, LiveUnchanged DEF Get
  <2>3. call[c].key \in LiveKeys
          <=> ~(call[c].key \notin DOMAIN states \/ Expired(call[c].key, now))
    BY DEF LiveKeys
  <2>4. call[c].key \in LiveKeys => Live[call[c].key] = states[call[c].key]
    BY LiveIs
  <2> QED
    BY <1>2, <2>1, <2>2, <2>3, <2>4, LiveIs
       DEF Get, Contract!SpecGet, Contract!SpecReturn, Live, Absent, NoCall,
           Contract!SpecAbsent, Contract!SpecNoCall
<1>3. ASSUME NEW c \in Client, Set(c)
      PROVE  Contract!SpecSet(c)
  <2>1. /\ call[c].key \in Key /\ call[c].msg \in Message
        /\ call[c].ttl \in TTLArgs /\ EffectiveTTL(call[c].ttl) \in Nat
    BY <1>3, CallShape DEF Set
  <2> DEFINE k == call[c].key
             new == [msg |-> call[c].msg,
                     expiration |-> now + EffectiveTTL(call[c].ttl)]
  <2>2. /\ states' = [j \in DOMAIN states \cup {k} |->
                        IF j = k THEN new ELSE states[j]]
        /\ now' = now /\ reply' = reply
    BY <1>3 DEF Set
  <2>3. DOMAIN states' = DOMAIN states \cup {k}
    BY <2>2
  <2>4. ~(new.expiration < now)
    BY <2>1 DEF TypeOK
  <2>5. LiveKeys' = LiveKeys \cup {k}
    BY <2>2, <2>3, <2>4 DEF LiveKeys, Expired
  <2>6. Live' = [j \in LiveKeys \cup {k} |-> IF j = k THEN new ELSE states[j]]
    BY <2>2, <2>3, <2>5 DEF Live, Restrict, LiveKeys
  <2>7. Live' = [j \in DOMAIN Live \cup {k} |-> IF j = k THEN new ELSE Live[j]]
    BY <2>6, LiveIs
  <2> QED BY <1>3, <2>2, <2>7
    DEF Set, EffectiveTTL, Live, NoCall, Contract!SpecSet, Contract!SpecReturn,
        Contract!SpecNoCall
<1>4. ASSUME NEW c \in Client, Delete(c)
      PROVE  Contract!SpecDelete(c)
  <2>1. call[c].key \in Key
    BY <1>4, CallShape DEF Delete
  <2> DEFINE k == call[c].key
  <2>2. states' = [j \in DOMAIN states \ {k} |-> states[j]] /\ now' = now /\ reply' = reply
    BY <1>4 DEF Delete, Restrict
  <2>3. LiveKeys' = LiveKeys \ {k}
    BY <2>2 DEF LiveKeys, Expired
  <2>4. Live' = [j \in LiveKeys \ {k} |-> states[j]]
    BY <2>2, <2>3 DEF Live, Restrict, LiveKeys
  <2>5. Live' = Restrict(Live, DOMAIN Live \ {k})
    BY <2>4, LiveIs DEF Restrict
  <2> QED BY <1>4, <2>2, <2>5
    DEF Delete, Live, NoCall, Restrict, Contract!SpecDelete, Contract!SpecReturn,
        Contract!SpecNoCall, Contract!Restrict
<1>5. ASSUME Close PROVE UNCHANGED <<now, Live, call, reply>>
  BY <1>5, LiveUnchanged DEF Close
<1>6. ASSUME SweepStart PROVE UNCHANGED <<now, Live, call, reply>>
  BY <1>6, LiveUnchanged DEF SweepStart
<1>7. ASSUME NEW k \in Key, SweepKey(k) PROVE UNCHANGED <<now, Live, call, reply>>
  <2>1. CASE ~Expired(k, sweepNow)
    BY <1>7, <2>1, LiveUnchanged DEF SweepKey
  <2>2. CASE Expired(k, sweepNow)
    <3>1. states' = [j \in DOMAIN states \ {k} |-> states[j]] /\ UNCHANGED <<now, call, reply>>
      BY <1>7, <2>2 DEF SweepKey, Restrict
    <3>2. k \in DOMAIN states /\ states[k].expiration \in Nat
      BY <1>7 DEF SweepKey, SweepInv, TypeOK, State
    <3>3. k \notin LiveKeys
      BY <2>2, <3>2 DEF LiveKeys, Expired, SweepInv, TypeOK
    <3>4. LiveKeys' = LiveKeys
      BY <3>1, <3>3 DEF LiveKeys, Expired
    <3>5. Live' = Live
      BY <3>1, <3>3, <3>4 DEF Live, Restrict, LiveKeys
    <3> QED BY <3>1, <3>5
  <2> QED BY <2>1, <2>2
<1>8. ASSUME SweepEnd PROVE UNCHANGED <<now, Live, call, reply>>
  BY <1>8, LiveUnchanged DEF SweepEnd
<1>9. ASSUME SweeperStop PROVE UNCHANGED <<now, Live, call, reply>>
  BY <1>9, LiveUnchanged DEF SweeperStop
<1>10. ASSUME Tick PROVE Contract!SpecTick
  <2>1. now' = now + 1 /\ UNCHANGED <<states, call, reply>>
    BY <1>10 DEF Tick
  <2>2. \A k \in DOMAIN states : states[k].expiration \in Nat
    BY DEF TypeOK, State
  <2>3. LiveKeys' = {k \in LiveKeys : states[k].expiration >= now + 1}
    BY <2>1, <2>2 DEF LiveKeys, Expired, TypeOK
  <2>4. LiveKeys' = {k \in DOMAIN Live : Live[k].expiration >= now + 1}
    BY <2>3, LiveIs
  <2>5. Live' = [k \in LiveKeys' |-> Live[k]]
    BY <2>1, <2>3, LiveIs DEF Live, Restrict
  <2> QED BY <2>1, <2>4, <2>5
    DEF Contract!SpecTick, Live, Restrict, Contract!Restrict
<1>11. ASSUME UNCHANGED vars PROVE UNCHANGED <<now, Live, call, reply>>
  BY <1>11, LiveUnchanged DEF vars
<1> QED
  BY <1>1, <1>2, <1>3, <1>4, <1>5, <1>6, <1>7, <1>8, <1>9, <1>10, <1>11
     DEF Next, Live

(* The in-memory store implements the contract of a state store: what the   *)
(* callers of Get, Set and Delete see is a map whose entries vanish at      *)
(* their expiration, whenever the sweeper runs and whenever Close is        *)
(* called.                                                                  *)
THEOREM StoreRefinesContract == Spec => ImplementsContract
<1>1. Init => Contract!SpecInit
  <2> SUFFICES ASSUME Init PROVE Contract!SpecInit
    OBVIOUS
  <2>1. DOMAIN states = {} /\ now = 0
    BY DEF Init
  <2>2. LiveKeys = {}
    BY <2>1 DEF LiveKeys
  <2>3. Restrict(states, LiveKeys) = [k \in {} |-> Nil]
    BY <2>2 DEF Restrict
  <2> QED BY <2>1, <2>3
    DEF Init, Absent, NoCall, Contract!SpecInit, Contract!SpecAbsent,
        Contract!SpecNoCall
<1>2. TypeOK /\ SweepInv /\ [Next]_vars
        => [Contract!SpecNext]_(Contract!specVars)
  BY StepRefines
<1> QED
  BY <1>1, <1>2, TypeCorrect, SweepSafe, PTL
     DEF Spec, ImplementsContract, Contract!SpecSpec
=============================================================================
