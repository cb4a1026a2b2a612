---------------------------- MODULE ProcessorLemmas ----------------------------
(***************************************************************************)
(* What the processors' proofs use of the operations of a store and of the *)
(* conversion of durations.                                                *)
(***************************************************************************)
EXTENDS StateStore, TransitEvents, TLAPS

(* When time passes, the entries that are left are as they were, and have   *)
(* not lapsed.                                                              *)
LEMMA LapseFacts ==
  ASSUME NEW store
  PROVE  /\ DOMAIN Lapse(store) \subseteq DOMAIN store
         /\ \A j \in DOMAIN Lapse(store) : /\ Lapse(store)[j] = store[j]
                                           /\ store[j].expiration >= now + 1
  BY DEF Lapse, Restrict

(* A process that starts again finds some of the entries, unchanged. *)
LEMMA ReopenedFacts ==
  ASSUME NEW store, NEW new \in Reopened(store)
  PROVE  /\ DOMAIN new \subseteq DOMAIN store
         /\ \A j \in DOMAIN new : new[j] = store[j]
  BY DEF Reopened, EmptyStore

(* A Put keeps a store well typed. *)
LEMMA PutType ==
  ASSUME NEW Key, NEW Message, NEW store, IsStore(store, Key, Message), now \in Nat,
         NEW k \in Key, NEW m \in Message
  PROVE  IsStore(Put(store, k, m), Key, Message)
<1> DEFINE new == Put(store, k, m)
<1>1. /\ DOMAIN new = DOMAIN store \cup {k}
      /\ new[k] = [msg |-> m, expiration |-> now + TTL]
      /\ \A j \in DOMAIN store : j # k => new[j] = store[j]
  BY DEF Put
<1> HIDE DEF new
<1>2. now + TTL \in Nat
  BY StoreAssumption
<1>3. IsStore(new, Key, Message)
  BY <1>1, <1>2 DEF IsStore, Entry
<1> QED BY <1>3 DEF new

(* So does the loss of entries. *)
LEMMA FewerType ==
  ASSUME NEW Key, NEW Message, NEW store, IsStore(store, Key, Message),
         NEW new, DOMAIN new \subseteq DOMAIN store,
         \A j \in DOMAIN new : new[j] = store[j]
  PROVE  IsStore(new, Key, Message)
  BY DEF IsStore

(* A Set either writes or leaves the store as it is, and says so. *)
LEMMA SetFacts ==
  ASSUME NEW store, NEW k, NEW m, NEW set \in Set(store, k, m)
  PROVE  /\ set.ok \in BOOLEAN /\ set.applied \in BOOLEAN
         /\ set.applied => set.store = Put(store, k, m)
         /\ ~set.applied => set.store = store
         /\ set.ok => set.applied
         /\ "set" \notin StoreFaults => set.ok
<1>1. \/ set = [ok |-> TRUE, applied |-> TRUE, store |-> Put(store, k, m)]
      \/ /\ set = [ok |-> FALSE, applied |-> TRUE, store |-> Put(store, k, m)]
         /\ "set" \in StoreFaults
      \/ /\ set = [ok |-> FALSE, applied |-> FALSE, store |-> store]
         /\ "set" \in StoreFaults
  BY Zenon DEF Set
<1>2. CASE set = [ok |-> TRUE, applied |-> TRUE, store |-> Put(store, k, m)]
  BY <1>2
<1>3. CASE /\ set = [ok |-> FALSE, applied |-> TRUE, store |-> Put(store, k, m)]
           /\ "set" \in StoreFaults
  BY <1>3
<1>4. CASE /\ set = [ok |-> FALSE, applied |-> FALSE, store |-> store]
           /\ "set" \in StoreFaults
  BY <1>4
<1> QED BY <1>1, <1>2, <1>3, <1>4

(* A key is found only if it is in the store, and always if Get is reliable. *)
LEMMA GetFacts ==
  ASSUME NEW store, NEW k, NEW found \in Get(store, k)
  PROVE  /\ found \in BOOLEAN
         /\ found => k \in DOMAIN store
         /\ "get" \notin StoreFaults => (found <=> k \in DOMAIN store)
  BY DEF Get

(* Every conversion to int32 gives an integer. *)
LEMMA SecondsType ==
  ASSUME NEW d \in Int
  PROVE  Seconds(d) \subseteq Int
  BY EventAssumption DEF Seconds, Int32Min

(* One that is not negative does not overstate the time. *)
LEMMA SecondsFacts ==
  ASSUME NEW d \in Int, NEW s \in Seconds(d), s >= 0
  PROVE  s \in Int /\ s <= d
  BY EventAssumption DEF Seconds, Int32Min

(* It is the time itself, unless that is out of range. *)
LEMMA SecondsExact ==
  ASSUME NEW d \in Int, NEW s \in Seconds(d), s >= 0, d <= Int32Max
  PROVE  s = d
  BY EventAssumption DEF Seconds, Int32Min
=============================================================================
