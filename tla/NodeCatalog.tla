---------------------------- MODULE NodeCatalog ----------------------------
(***************************************************************************)
(* NodeCatalog: every node the scan has come across, in slots that are      *)
(* reused under a new generation, found through an open-addressing index    *)
(* with linear probing and backward-shift deletion, bounded by a cap that   *)
(* evicts.                                                                  *)
(*                                                                         *)
(* A catalogue is a record, so that handlers that add several nodes in one  *)
(* step can pass it along.  Where the code draws at random an operator      *)
(* returns the set of catalogues that may result.                           *)
(***************************************************************************)
EXTENDS Integers, Sequences, FiniteSets, SequencesExt

CONSTANTS
    Endpoints,          \* addresses with ports
    HashOf,             \* the hash of an endpoint's key
    InitialTableSize,   \* m_table's first size, a power of two
    ScanAll             \* VictimSample * 4: up to this many slots are scanned for a victim

ASSUME CatalogAssumption ==
    /\ HashOf \in [Endpoints -> Nat]
    /\ InitialTableSize \in Nat \ {0, 1}
    /\ ScanAll \in Nat

NoSlot == 0
EntryStates == {"New", "Responsive", "Silent", "Gone", "Unroutable"}

\* CatalogEntry, of which the scan reads these fields.  "answered"
\* says that lastAnswered is set.
NewEntry(e, g) ==
    [endpoint |-> e, generation |-> g, inUse |-> TRUE, state |-> "New", failures |-> 0,
     answered |-> FALSE, tested |-> {}, tries |-> 0, featureQueued |-> FALSE]

Empty(limit) ==
    [entries |-> <<>>, free |-> <<>>, table |-> <<>>, size |-> 0, cap |-> limit,
     counts |-> [s \in EntryStates |-> 0], nextGeneration |-> 1]

Slots(c) == DOMAIN c.entries
InUse(c) == {s \in Slots(c) : c.entries[s].inUse}

\* Mutant: the slot alone decides.
isCurrentBySlot(c, ref) == ref.slot \in InUse(c)

\* A reference is good for as long as its slot holds the same node.
isCurrent(c, ref) ==
    /\ ref.slot \in InUse(c)
    /\ c.entries[ref.slot].generation = ref.generation

RefOf(c, s) == [slot |-> s, generation |-> c.entries[s].generation]

-----------------------------------------------------------------------------
(* The index: positions 1..n of m_table, probed cyclically                 *)

\* The k-th position after i.
Ahead(i, k, n) == IF i + k <= n THEN i + k ELSE i + k - n

Home(e, n) == (HashOf[e] % n) + 1
Position(e, k, n) == Ahead(Home(e, n), k, n)

\* The position that stops the probe for e: its own, or the first free one.
ProbeEnd(c, t, e) ==
    LET n == Len(t)
        stops(k) == LET at == t[Position(e, k, n)]
                    IN at = NoSlot \/ c.entries[at].endpoint = e
        k0 == CHOOSE k \in 0..(n - 1) : stops(k) /\ \A j \in 0..(k - 1) : ~stops(j)
    IN Position(e, k0, n)

\* find(): the slot of e, or NoSlot.
find(c, e) == IF c.table = <<>> THEN NoSlot ELSE c.table[ProbeEnd(c, c.table, e)]

insertIndex(c, t, s) == [t EXCEPT ![ProbeEnd(c, t, c.entries[s].endpoint)] = s]

\* Mutant: the hole is left where it is.
StaysPutAlways(i, home, j) == TRUE

\* Whether what hashes to home may stay at j when the hole is at i.
StaysPut(i, home, j) == IF i <= j THEN i < home /\ home <= j ELSE i < home \/ home <= j

\* One position of the run behind the hole, pulled back if the hole would hide it; the
\* run ends at a free position.
PulledBack(c, w, j) ==
    IF ~w.open THEN w
    ELSE IF w.table[j] = NoSlot THEN [w EXCEPT !.open = FALSE]
    ELSE IF StaysPut(w.hole, Home(c.entries[w.table[j]].endpoint, Len(w.table)), j) THEN w
    ELSE [w EXCEPT !.table = [@ EXCEPT ![w.hole] = w.table[j]], !.hole = j]

\* Walk the run behind the hole.
eraseIndex(c, s) ==
    LET n == Len(c.table)
        i == ProbeEnd(c, c.table, c.entries[s].endpoint)
        walk[k \in 0..(n - 1)] ==
          IF k = 0 THEN [table |-> c.table, hole |-> i, open |-> TRUE]
          ELSE PulledBack(c, walk[k - 1], Ahead(i, k, n))
        end == walk[n - 1]
    IN [end.table EXCEPT ![end.hole] = NoSlot]

\* Twice the size, with the slots in use inserted in slot order.
growTable(c) ==
    LET size == IF c.table = <<>> THEN InitialTableSize ELSE 2 * Len(c.table)
        built[s \in 0..Len(c.entries)] ==
          IF s = 0 THEN [i \in 1..size |-> NoSlot]
          ELSE IF c.entries[s].inUse THEN insertIndex(c, built[s - 1], s) ELSE built[s - 1]
    IN [c EXCEPT !.table = built[Len(c.entries)]]

-----------------------------------------------------------------------------
(* Entries                                                                 *)

setState(c, s, st) ==
    IF c.entries[s].state = st
    THEN c
    ELSE [c EXCEPT !.entries[s].state = st,
                   !.counts = [c.counts EXCEPT ![c.entries[s].state] = @ - 1, ![st] = @ + 1]]

evictionRank(st) ==
    CASE st = "Unroutable" -> 4
      [] st \in {"Silent", "Gone"} -> 3
      [] st = "New" -> 2
      [] st = "Responsive" -> 1

\* Whom pickVictim() may choose: the worst of a small catalogue, the age that decides
\* between equals being left open; of a large one the worst of a sample, drawn with
\* replacement, so that it may come down to any single slot, or, when the draws have met
\* free slots only, the worst of all.
Victims(c) ==
    IF Len(c.entries) <= ScanAll
    THEN {s \in InUse(c) : \A t \in InUse(c) :
             evictionRank(c.entries[s].state) >= evictionRank(c.entries[t].state)}
    ELSE InUse(c)

release(c, s) ==
    [c EXCEPT !.table = eraseIndex(c, s),
              !.counts[c.entries[s].state] = @ - 1,
              !.size = @ - 1,
              !.entries[s].inUse = FALSE,
              !.free = Append(@, s)]

Evicted(c) == {release(c, s) : s \in Victims(c)}

MustEvict(c) == c.size >= c.cap

\* upsert() of an endpoint that is not there: make room, grow the index at
\* half full, take the last slot given back or a new one.
upsert(c, e) ==
    LET fill(d) ==
            LET grown == IF (d.size + 1) * 2 > Len(d.table) THEN growTable(d) ELSE d
                s == IF grown.free # <<>> THEN Last(grown.free) ELSE Len(grown.entries) + 1
                stored == [grown EXCEPT
                    !.entries = IF s \in Slots(grown) THEN [@ EXCEPT ![s] = NewEntry(e, d.nextGeneration)]
                                                      ELSE Append(@, NewEntry(e, d.nextGeneration)),
                    !.free = IF @ # <<>> THEN Front(@) ELSE @,
                    !.nextGeneration = @ + 1, !.counts["New"] = @ + 1, !.size = @ + 1]
            IN [stored EXCEPT !.table = insertIndex(stored, @, s)]
    IN {fill(d) : d \in IF MustEvict(c) THEN Evicted(c) ELSE {c}}

\* trim(): up to n evictions while over the cap.
trim(c, n) ==
    LET after[k \in 0..n] ==
          IF k = 0 THEN {c}
          ELSE UNION {IF d.size > d.cap THEN Evicted(d) ELSE {d} : d \in after[k - 1]}
    IN after[n]

setCap(c, limit) == [c EXCEPT !.cap = limit]

-----------------------------------------------------------------------------
(* What the catalogue owes its users                                       *)

\* find() returns the slot of every node that is stored and no slot for any
\* other, whatever was inserted, evicted and moved back in the index.
FindsExactly(c) ==
    \A e \in Endpoints :
        LET holders == {s \in InUse(c) : c.entries[s].endpoint = e}
        IN IF holders = {} THEN find(c, e) = NoSlot ELSE holders = {find(c, e)}

\* The sizes and counts shown are those of the entries in use.
CountsAgree(c) ==
    /\ c.size = Cardinality(InUse(c))
    /\ \A st \in EntryStates : c.counts[st] = Cardinality({s \in InUse(c) : c.entries[s].state = st})
    /\ ToSet(c.free) = Slots(c) \ InUse(c)
    /\ IsInjective(c.free)
=============================================================================
