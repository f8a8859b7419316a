----------------------------- MODULE ItemServer -----------------------------
(***************************************************************************)
(* Items that other nodes store with us (BEP 44): the get and put handlers *)
(* of DhtNode (dhtcore/src/DhtNode.cpp) behind the rate limit of           *)
(* handleQuery(), and the ItemStorage they work on (Support.cpp).          *)
(*                                                                         *)
(* A put that fails a check (token, size, key, salt, signature) is answered *)
(* with an error and changes nothing; which check is left out.  A value is  *)
(* named by its writer.                                                     *)
(***************************************************************************)
EXTENDS RateLimiter, FiniteSets

CONSTANTS
    ImmutableTargets,  \* hashes of values
    MutableTargets,    \* hashes of a key and a salt
    Sequences,         \* sequence numbers of puts
    MaxItems,          \* ItemStorage::MaxItems
    ItemTtlMs          \* bep44::ItemTtlMs, in clock ticks

ASSUME ItemAssumption ==
    /\ ImmutableTargets \cap MutableTargets = {}
    /\ Sequences \subseteq Nat /\ {MaxItems, ItemTtlMs} \subseteq Nat \ {0}

VARIABLES
    immutable,  \* m_immutable: storedAt of each target held
    mutable,    \* m_mutable
    read        \* history: what a client last read, and what became of it since

items    == <<immutable, mutable, read>>
itemVars == <<now, buckets, spent, items>>

NotRead == [target |-> {}, seq |-> 0, since |-> "nothing"]

ItemInit ==
    /\ LimiterInit
    /\ immutable = [t \in {} |-> 0]
    /\ mutable = [t \in {} |-> 0]
    /\ read = [a \in Addresses |-> NotRead]

-----------------------------------------------------------------------------
(* ItemStorage                                                             *)

ItemsHeld == DOMAIN immutable \cup DOMAIN mutable
StoredAt(t) == IF t \in DOMAIN immutable THEN immutable[t] ELSE mutable[t].storedAt

\* Mutant: only mutable items are looked at for the oldest.
OldestMutable ==
    LET among == IF DOMAIN mutable = {} THEN ItemsHeld ELSE DOMAIN mutable
    IN {t \in among : \A u \in among : StoredAt(t) <= StoredAt(u)}

Oldest == {t \in ItemsHeld : \A u \in ItemsHeld : StoredAt(t) <= StoredAt(u)}

IsFull == Cardinality(ItemsHeld) >= MaxItems

\* makeRoom(): what is dropped for a new item; of several equally old, any.
makeRoom == IF IsFull THEN {{t} : t \in Oldest} ELSE {{}}

\* History: reads of the targets gone are no longer of what is stored, and a write to
\* one of those written overtakes the reads of others.
ReadsAfter(gone, written, by) ==
    [a \in Addresses |->
        IF read[a].target \cap gone # {} THEN [read[a] EXCEPT !.since = "dropped"]
        ELSE IF read[a].target \cap written # {} /\ a # by /\ read[a].since = "nothing"
        THEN [read[a] EXCEPT !.since = "written"]
        ELSE read[a]]

putImmutable(t) ==
    \/ /\ t \in DOMAIN immutable
       /\ immutable' = [immutable EXCEPT ![t] = now]
       /\ UNCHANGED <<mutable, read>>
    \/ /\ t \notin DOMAIN immutable
       /\ \E gone \in makeRoom :
            /\ immutable' = [u \in (DOMAIN immutable \ gone) \cup {t} |-> IF u = t THEN now ELSE immutable[u]]
            /\ mutable' = [u \in DOMAIN mutable \ gone |-> mutable[u]]
            /\ read' = ReadsAfter(gone, {}, {})

\* An item in place of what is stored under t, once the targets gone are dropped.
StoreMutable(t, item, gone, by) ==
    /\ mutable' = [u \in (DOMAIN mutable \ gone) \cup {t} |->
                     IF u = t THEN [seq |-> item.seq, value |-> item.value, storedAt |-> now] ELSE mutable[u]]
    /\ immutable' = [u \in DOMAIN immutable \ gone |-> immutable[u]]
    /\ read' = ReadsAfter(gone, {t}, by)

\* Mutant: the expected sequence number is not looked at.
CasMismatchNever(t, item, cas) == FALSE

CasMismatch(t, item, cas) == cas # {} /\ mutable[t].seq \notin cas

SequenceTooLow(t, item) == item.seq < mutable[t].seq

\* putMutable(); cas holds the sequence number expected, if any.
putMutable(t, item, cas, by) ==
    \/ /\ t \in DOMAIN mutable
       /\ CasMismatch(t, item, cas) \/ SequenceTooLow(t, item)
       /\ UNCHANGED items
    \/ /\ t \in DOMAIN mutable
       /\ ~CasMismatch(t, item, cas) /\ item.seq = mutable[t].seq
       /\ mutable' = [mutable EXCEPT ![t].storedAt = now]
       /\ UNCHANGED <<immutable, read>>
    \/ /\ t \in DOMAIN mutable
       /\ ~CasMismatch(t, item, cas) /\ ~SequenceTooLow(t, item) /\ item.seq # mutable[t].seq
       /\ StoreMutable(t, item, {}, by)
    \/ /\ t \notin DOMAIN mutable /\ cas # {}
       /\ UNCHANGED items
    \/ /\ t \notin DOMAIN mutable /\ cas = {}
       /\ \E gone \in makeRoom : StoreMutable(t, item, gone, by)

ItemsExpired == {t \in ItemsHeld : now - StoredAt(t) >= ItemTtlMs}

\* ItemStorage::expire(), from the engine's timer.
expireItems ==
    /\ immutable' = [t \in DOMAIN immutable \ ItemsExpired |-> immutable[t]]
    /\ mutable' = [t \in DOMAIN mutable \ ItemsExpired |-> mutable[t]]
    /\ read' = ReadsAfter(ItemsExpired, {}, {})
    /\ UNCHANGED <<now, buckets, spent>>

-----------------------------------------------------------------------------
(* Query handlers                                                          *)

\* A query dropped by the limit or in read-only mode, answered with an error, or of no
\* concern to the items.
otherQuery(a) == allow(a) /\ UNCHANGED items

\* get: the client learns the sequence number, if there is an item.
handleGet(a, t) ==
    /\ Allowed(a)
    /\ t \in DOMAIN mutable
    /\ read' = [read EXCEPT ![a] = [target |-> {t}, seq |-> mutable[t].seq, since |-> "nothing"]]
    /\ UNCHANGED <<immutable, mutable>>

handlePutImmutable(a, t) == Allowed(a) /\ putImmutable(t)

handlePut(a, t, seq) == Allowed(a) /\ putMutable(t, [seq |-> seq, value |-> a], {}, a)

\* A client that writes what follows from what it read.
handlePutCas(a, t, seq) ==
    /\ Allowed(a)
    /\ read[a].target = {t} /\ seq > read[a].seq
    /\ putMutable(t, [seq |-> seq, value |-> a], {read[a].seq}, a)

ItemNext ==
    \/ \E a \in Addresses :
         \/ otherQuery(a)
         \/ \E t \in ImmutableTargets : handlePutImmutable(a, t)
         \/ \E t \in MutableTargets :
              \/ handleGet(a, t)
              \/ \E seq \in Sequences : handlePut(a, t, seq) \/ handlePutCas(a, t, seq)
    \/ expireItems
    \/ (prune \/ LimiterTick) /\ UNCHANGED items

ItemSpec == ItemInit /\ [][ItemNext]_itemVars

-----------------------------------------------------------------------------
(* Properties                                                              *)

\* Types of the two tables.
ItemTypeOK ==
    /\ DOMAIN immutable \subseteq ImmutableTargets /\ DOMAIN mutable \subseteq MutableTargets
    /\ \A t \in DOMAIN immutable : immutable[t] \in 0..now
    /\ \A t \in DOMAIN mutable :
         mutable[t].seq \in Nat /\ mutable[t].value \in Addresses /\ mutable[t].storedAt \in 0..now
    /\ Cardinality(ItemsHeld) <= MaxItems

\* "compare-and-swap: refuse if someone else has written since the putter last read the item":
\* of clients that read the same item at most one gets its successor stored (an item dropped
\* in between and stored anew is another item).  Without it, too, another value comes only with
\* a higher sequence number, whatever puts arrive in whatever order (putMutable).
NoLostUpdate ==
    [][/\ \A a \in Addresses, t \in MutableTargets, seq \in Sequences :
            handlePutCas(a, t, seq) /\ mutable' # mutable => read[a].since # "written"
       /\ \A t \in DOMAIN mutable \cap DOMAIN mutable' :
            /\ mutable'[t].seq >= mutable[t].seq
            /\ mutable'[t].value # mutable[t].value => mutable'[t].seq > mutable[t].seq]_itemVars

\* What is dropped has been neither stored nor refreshed for the whole time to live, or makes
\* room as the oldest of both kinds in a full storage, which stays within its limit.
OnlyOldestDropped ==
  /\ []ItemTypeOK
  /\ [][\A t \in ItemsHeld \ (DOMAIN immutable' \cup DOMAIN mutable') :
         \/ now - StoredAt(t) >= ItemTtlMs
         \/ /\ Cardinality(ItemsHeld) = MaxItems /\ \A u \in ItemsHeld : StoredAt(t) <= StoredAt(u)
            /\ \E u \in DOMAIN immutable' \cup DOMAIN mutable' : u \notin ItemsHeld]_itemVars
=============================================================================
