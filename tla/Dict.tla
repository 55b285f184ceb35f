-------------------------------- MODULE Dict --------------------------------
(***************************************************************************)
(* The compact dictionary of src/src/object.c:584-752 with the two caches  *)
(* the interpreter puts in front of it: the mono cache inside the dict and *)
(* an entry of vm->dict_ic (src/src/vm.c:2784-2877).                       *)
(*                                                                         *)
(* Entries are appended to a compact array; an open-addressing table of    *)
(* indices leads from a hash to an entry.  A key is an ObjString pointer;  *)
(* two pointers may hold the same text (a rope and an interned string).    *)
(* A store that makes the dict grow copies the entries one by one.         *)
(***************************************************************************)
EXTENDS Integers, Sequences, FiniteSets

CONSTANTS
    Key,            \* ObjString pointers
    TextOf,         \* the characters behind a pointer
    Hash,           \* ObjString.hash, a function of the characters
    Value,
    MinCapacity,    \* 8 in dict_set
    MaxCapacity,    \* bound: the dict does not grow beyond this
    MaxVersion,     \* bound: dict->version is followed up to this,
    MaxLoopVersion, \* and, while a loop is under way, up to this
    Deleted,        \* TOMBSTONE_KEY
    None,           \* NULL: nothing cached; the value of a deleted entry
    Done, Absent    \* answers other than a value

Text == {TextOf[k] : k \in Key}

ASSUME DictAssumption ==
    /\ TextOf \in [Key -> Text] /\ Hash \in [Text -> Nat]
    /\ MinCapacity \in Nat \ {0} /\ MaxCapacity \in Nat /\ MaxVersion \in Nat
    /\ MaxLoopVersion \in Nat /\ MaxLoopVersion >= MaxVersion
    /\ Deleted \notin Key /\ None \notin Key /\ {Done, Absent} \cap Value = {}

VARIABLES
    capacity,       \* size of the index table
    indices,        \* 0 is empty, TOMBSTONE_IDX deleted, n > 0 entry n
    entries,        \* the entry array, up to entry_count
    count,          \* live entries
    version,
    mono,           \* mono_cache_key and mono_cache_value
    ic,             \* the entry of vm->dict_ic this dict's lookups use
    loop,           \* a `for k, v in dict` under way, and what it has met
    pc,             \* where the dict_set in progress is
    newCapacity, newIndices, newEntries, next,  \* locals of dict_adjust_capacity
    call,           \* the last operation that returned, and its answer
    hung            \* an operation is in its probe loop for ever

dictVars == <<capacity, indices, entries, count, version>>
adjustVars == <<newCapacity, newIndices, newEntries, next>>
vars == <<dictVars, mono, ic, loop, pc, adjustVars, call, hung>>

TOMBSTONE_IDX == -1

Slots(cap) == 0..(cap - 1)
IsLive(e) == e.key # Deleted
-----------------------------------------------------------------------------
(***************************************************************************)
(* Linear probing from the home slot of a text.  The loop leaves at the    *)
(* first empty or matching slot; if there is none it never leaves.         *)
(***************************************************************************)

\* The i-th slot a probe for text t visits.
Probe(cap, t, i) ==
    LET home == Hash[t] % cap
    IN  IF home + i < cap THEN home + i ELSE home + i - cap

\* Mutant of Matches: equal hashes are taken for equal keys.
MatchesHash(ix, es, s, t) ==
    ix[s] > 0 /\ IsLive(es[ix[s]]) /\ Hash[TextOf[es[ix[s]].key]] = Hash[t]

Matches(ix, es, s, t) ==
    ix[s] > 0 /\ IsLive(es[ix[s]]) /\ TextOf[es[ix[s]].key] = t

Stops(ix, es, s, t) == ix[s] = 0 \/ Matches(ix, es, s, t)

Leaves(cap, ix, es, t, i) ==
    /\ Stops(ix, es, Probe(cap, t, i), t)
    /\ \A j \in 0..(i - 1) : ~Stops(ix, es, Probe(cap, t, j), t)

ProbeEnds(cap, ix, es, t) ==
    cap = 0 \/ \E i \in Slots(cap) : Stops(ix, es, Probe(cap, t, i), t)

\* The slot of the entry of t, as a set of at most one element.
Found(cap, ix, es, t) ==
    {s \in Slots(cap) : /\ ix[s] > 0
                        /\ \E i \in Slots(cap) : s = Probe(cap, t, i) /\ Leaves(cap, ix, es, t, i)}

\* *indices_slot of an unsuccessful probe: the first tombstone on the way.
InsertSlot(cap, ix, es, t, s) ==
    \E i \in Slots(cap) :
        /\ Leaves(cap, ix, es, t, i)
        /\ \E j \in 0..i :
             /\ s = Probe(cap, t, j)
             /\ ix[s] = TOMBSTONE_IDX \/ j = i
             /\ \A h \in 0..(j - 1) : ix[Probe(cap, t, h)] # TOMBSTONE_IDX

\* The slot of the new table that dict_adjust_capacity gives an entry.
FirstFree(cap, ix, t, s) ==
    \E i \in Slots(cap) :
        /\ s = Probe(cap, t, i) /\ ix[s] = 0
        /\ \A j \in 0..(i - 1) : ix[Probe(cap, t, j)] # 0

\* Mutant of MustGrow: deleted entries do not count.
MustGrowByLoad == count + 1 > (capacity * 3) \div 4

MustGrow == count + 1 > (capacity * 3) \div 4 \/ Len(entries) + 1 > capacity

\* Mutant of GrownVersion: growth leaves dict->version as it is.
SameVersion == version
GrownVersion == version + 1

GrownCapacity == IF capacity < MinCapacity THEN MinCapacity ELSE capacity * 2

(***************************************************************************)
(* A loop keeps an index into the entry array in a register.  Beside it,   *)
(* for its property: the texts it has visited, those it found when it      *)
(* began and has not visited, and whether growth has dropped deleted       *)
(* entries before the index, which moves the entries behind it.            *)
(***************************************************************************)
Shifted ==
    IF loop = None THEN None
    ELSE [loop EXCEPT !.shifted =
            @ \/ \E i \in DOMAIN entries : i <= loop.next /\ ~IsLive(entries[i])]

Without(texts) ==
    IF loop = None THEN None ELSE [loop EXCEPT !.seen = @ \ texts, !.owed = @ \ texts]

\* Mutant of IndexAfter: one entry too far.
IndexPast(i) == i + 1

\* NUMBER_VAL(idx + 1) of the entry numbered i from one.
IndexAfter(i) == i
-----------------------------------------------------------------------------
Init ==
    /\ capacity = 0 /\ indices = [s \in {} |-> 0] /\ entries = <<>> /\ count = 0
    /\ version = 1
    /\ mono = None /\ ic = None /\ loop = None
    /\ pc = "idle"
    /\ newCapacity = 0 /\ newIndices = indices /\ newEntries = <<>> /\ next = 0
    /\ call = <<>> /\ hung = FALSE

\* Bound: lookups, which write no more than the caches, are not followed while
\* a loop, which reads no cache, is under way.
LookupsFollowed == pc = "idle" /\ loop = None

\* A lookup whose probe of key k does not return (dict_get probes whenever the
\* capacity is not 0, the other lookups when the dict is not empty as well).
Hang(k) ==
    /\ LookupsFollowed
    /\ ~ProbeEnds(capacity, indices, entries, TextOf[k])
    /\ hung' = TRUE
    /\ UNCHANGED <<dictVars, mono, ic, loop, pc, adjustVars, call>>

VersionBound == IF loop = None THEN MaxVersion ELSE MaxLoopVersion

(***************************************************************************)
(* dict_set; every store opcode and native goes through it.                *)
(***************************************************************************)

\* The check at its start, and the start of dict_adjust_capacity.
Grow ==
    /\ pc = "idle" /\ MustGrow
    /\ GrownCapacity <= MaxCapacity /\ version + 2 <= VersionBound
    /\ pc' = "adjust"
    /\ newCapacity' = GrownCapacity
    /\ newIndices' = [s \in Slots(GrownCapacity) |-> 0]
    /\ newEntries' = <<>> /\ next' = 0
    /\ UNCHANGED <<dictVars, mono, ic, loop, call, hung>>

\* The loop of dict_adjust_capacity skips a deleted entry ...
Skip ==
    /\ pc = "adjust" /\ next < Len(entries) /\ ~IsLive(entries[next + 1])
    /\ next' = next + 1
    /\ UNCHANGED <<dictVars, mono, ic, loop, pc, newCapacity, newIndices, newEntries,
                   call, hung>>

\* ... and copies a live one.
Copy ==
    /\ pc = "adjust" /\ next < Len(entries) /\ IsLive(entries[next + 1])
    /\ LET e == entries[next + 1]
       IN  \E s \in Slots(newCapacity) :
             /\ FirstFree(newCapacity, newIndices, TextOf[e.key], s)
             /\ newIndices' = [newIndices EXCEPT ![s] = Len(newEntries) + 1]
             /\ newEntries' = Append(newEntries, e)
    /\ next' = next + 1
    /\ UNCHANGED <<dictVars, mono, ic, loop, pc, newCapacity, call, hung>>

ForgetMono == mono' = None

\* The copies take the place of the old arrays.
Adopt ==
    /\ pc = "adjust" /\ next = Len(entries)
    /\ capacity' = newCapacity /\ indices' = newIndices /\ entries' = newEntries
    /\ count' = Len(newEntries)
    /\ version' = GrownVersion
    /\ ForgetMono
    /\ loop' = Shifted
    /\ pc' = "store"
    /\ newCapacity' = 0 /\ newIndices' = [s \in {} |-> 0] /\ newEntries' = <<>> /\ next' = 0
    /\ UNCHANGED <<ic, call, hung>>

\* The rest of dict_set, with or without growth: an existing entry keeps its
\* key and place, a new one is appended.
Set(k, v) ==
    /\ pc = "store" \/ (pc = "idle" /\ ~MustGrow)
    /\ LET found == Found(capacity, indices, entries, TextOf[k])
       IN  IF found # {}
           THEN \E s \in found :
                  /\ entries' = [entries EXCEPT ![indices[s]].value = v]
                  /\ mono' = [key |-> entries[indices[s]].key, value |-> v]
                  /\ UNCHANGED <<indices, count, version>>
           ELSE \E s \in Slots(capacity) :
                  /\ InsertSlot(capacity, indices, entries, TextOf[k], s)
                  /\ indices' = [indices EXCEPT ![s] = Len(entries) + 1]
                  /\ entries' = Append(entries, [key |-> k, value |-> v])
                  /\ mono' = [key |-> k, value |-> v]
                  /\ count' = count + 1
                  /\ version' = version + 1 /\ version < VersionBound
    /\ pc' = "idle"
    /\ call' = <<"put", TextOf[k], v>>
    /\ UNCHANGED <<capacity, ic, loop, adjustVars, hung>>

(***************************************************************************)
(* The other operations.                                                   *)
(***************************************************************************)

\* dict_delete
Delete(k) ==
    /\ pc = "idle" /\ version < VersionBound
    /\ count = 0 \/ ProbeEnds(capacity, indices, entries, TextOf[k])
    /\ LET found == IF count = 0 THEN {} ELSE Found(capacity, indices, entries, TextOf[k])
       IN  IF found = {}
           THEN /\ call' = <<"remove", TextOf[k], Absent>>
                /\ UNCHANGED <<indices, entries, count, version, mono, loop>>
           ELSE \E s \in found :
                  /\ indices' = [indices EXCEPT ![s] = TOMBSTONE_IDX]
                  /\ entries' = [entries EXCEPT ![indices[s]] =
                                    [key |-> Deleted, value |-> None]]
                  /\ count' = count - 1
                  /\ version' = version + 1
                  /\ ForgetMono
                  /\ loop' = Without({TextOf[k]})
                  /\ call' = <<"remove", TextOf[k], Done>>
    /\ UNCHANGED <<capacity, ic, pc, adjustVars, hung>>

\* native_dict_clear keeps the capacity.
Clear ==
    /\ pc = "idle" /\ version < VersionBound
    /\ indices' = [s \in Slots(capacity) |-> 0]
    /\ entries' = <<>>
    /\ count' = 0
    /\ version' = version + 1
    /\ ForgetMono
    /\ loop' = Without(Text)
    /\ call' = <<"clear">>
    /\ UNCHANGED <<capacity, ic, pc, adjustVars, hung>>

\* What a probe that ends answers.
Probed(k) ==
    LET found == Found(capacity, indices, entries, TextOf[k])
    IN  IF found = {} THEN {Absent} ELSE {entries[indices[s]].value : s \in found}

Answers(k, v) == call' = <<"lookup", TextOf[k], v>>

\* dict_get: dict.has and dict.get, method tables.
Get(k) ==
    /\ LookupsFollowed
    /\ ProbeEnds(capacity, indices, entries, TextOf[k])
    /\ \E v \in Probed(k) : Answers(k, v)
    /\ UNCHANGED <<dictVars, mono, ic, loop, pc, adjustVars, hung>>

\* dict_get_mono_cached: index and property opcodes.  The answer of a hit
\* does not look at the table; a miss that finds the key fills the cache.
MonoHit(k) == mono # None /\ mono.key = k

GetMono(k) ==
    /\ LookupsFollowed
    /\ IF MonoHit(k) THEN Answers(k, mono.value) /\ UNCHANGED mono
       ELSE IF count = 0 THEN Answers(k, Absent) /\ UNCHANGED mono
       ELSE /\ ProbeEnds(capacity, indices, entries, TextOf[k])
            /\ \E v \in Probed(k) : Answers(k, v)
            /\ LET found == Found(capacity, indices, entries, TextOf[k])
               IN  IF found = {} THEN UNCHANGED mono
                   ELSE \E s \in found : mono' = entries[indices[s]]
    /\ UNCHANGED <<dictVars, ic, loop, pc, adjustVars, hung>>

\* dict_get_cached: checked index (`?`) and dict.require.
ICHit(k) ==
    /\ ic # None /\ ic.key = k /\ ic.version = version
    /\ entries[ic.entry].key = k

GetCached(k) ==
    /\ LookupsFollowed
    /\ IF ICHit(k) THEN Answers(k, entries[ic.entry].value) /\ UNCHANGED ic
       ELSE IF count = 0 THEN Answers(k, Absent) /\ UNCHANGED ic
       ELSE /\ ProbeEnds(capacity, indices, entries, TextOf[k])
            /\ \E v \in Probed(k) : Answers(k, v)
            /\ LET found == Found(capacity, indices, entries, TextOf[k])
               IN  IF found = {} THEN UNCHANGED ic
                   ELSE \E s \in found :
                          ic' = [key |-> k, version |-> version, entry |-> indices[s]]
    /\ UNCHANGED <<dictVars, mono, loop, pc, adjustVars, hung>>

LiveEntries == {i \in DOMAIN entries : IsLive(entries[i])}
EntryText(i) == TextOf[entries[i].key]
Texts == {EntryText(i) : i \in LiveEntries}

\* OP_ITER_PREP
IterPrep ==
    /\ pc = "idle"
    /\ ic = None            \* bound, with LookupsFollowed
    /\ loop' = [next |-> 0, seen |-> {}, shifted |-> FALSE, owed |-> Texts]
    /\ UNCHANGED <<dictVars, mono, ic, pc, adjustVars, call, hung>>

\* OP_ITER_NEXT: the first live entry from the index on, or out of the loop.
Ahead == {i \in LiveEntries : i > loop.next}

IterNext ==
    /\ pc = "idle" /\ loop # None
    /\ IF Ahead = {} THEN loop' = None /\ UNCHANGED call
       ELSE \E i \in Ahead :
              /\ \A j \in Ahead : i <= j
              /\ loop' = [loop EXCEPT !.next = IndexAfter(i),
                                      !.seen = @ \cup {EntryText(i)},
                                      !.owed = @ \ {EntryText(i)}]
              /\ call' = <<"visit", EntryText(i), entries[i].value>>
    /\ UNCHANGED <<dictVars, mono, ic, pc, adjustVars, hung>>

\* A collection clears vm->dict_ic; a lookup in another dict takes the entry.
EvictIC ==
    /\ pc = "idle"
    /\ ic' = None
    /\ UNCHANGED <<dictVars, mono, loop, pc, adjustVars, call, hung>>

Next ==
    /\ ~hung
    /\ \/ \E k \in Key :
            \/ \E v \in Value : Set(k, v)
            \/ Delete(k) \/ Get(k) \/ GetMono(k) \/ GetCached(k)
            \/ Hang(k)
       \/ Grow \/ Skip \/ Copy \/ Adopt
       \/ Clear
       \/ IterPrep \/ IterNext
       \/ EvictIC

Spec == Init /\ [][Next]_vars
-----------------------------------------------------------------------------
(***************************************************************************)
(* The dict as a script sees it.                                           *)
(***************************************************************************)
Contents ==
    [t \in Texts |-> entries[CHOOSE i \in LiveEntries : EntryText(i) = t].value]

Order ==
    {p \in Text \X Text :
        \E i, j \in LiveEntries : i < j /\ p = <<EntryText(i), EntryText(j)>>}

Map == INSTANCE OrderedMap WITH map <- Contents, order <- Order

Entry == [key : Key, value : Value] \cup [key : {Deleted}, value : {None}]

\* Every variable has its type.
TypeOK ==
    /\ capacity \in Nat /\ count \in Nat /\ version \in Nat
    /\ entries \in Seq(Entry)
    /\ indices \in [Slots(capacity) -> {TOMBSTONE_IDX} \cup 0..Len(entries)]
    /\ mono \in {None} \cup [key : Key, value : Value]
    /\ ic = None \/ ic \in [key : Key, version : Nat, entry : Nat]
    /\ loop = None \/ loop \in [next : Nat, seen : SUBSET Text,
                               owed : SUBSET Text, shifted : BOOLEAN]
    /\ pc \in {"idle", "adjust", "store"}
    /\ newCapacity \in Nat /\ next \in Nat
    /\ newEntries \in Seq([key : Key, value : Value])
    /\ newIndices \in [Slots(newCapacity) -> 0..Len(newEntries)]
    /\ hung \in BOOLEAN

\* One slot for each live entry, none for a deleted one, a text at most once,
\* and the count.
IndexConsistent ==
    /\ \A s \in Slots(capacity) : indices[s] > 0 => indices[s] \in LiveEntries
    /\ \A i \in LiveEntries :
         /\ \E s \in Slots(capacity) : indices[s] = i
         /\ \A s, r \in Slots(capacity) : indices[s] = i /\ indices[r] = i => s = r
    /\ \A i, j \in LiveEntries : EntryText(i) = EntryText(j) => i = j
    /\ count = Cardinality(LiveEntries)

\* The index table, the entry array and both caches tell the same story.  A
\* mono cache hit answers what the table holds, and a dict_ic entry whose
\* version is current points at its key's entry in the entry array of today,
\* not at one that growth has freed: under every order of stores, deletions,
\* clears, growth and lookups by equal but different pointers.
CachesCoherent ==
    /\ IndexConsistent
    /\ mono # None => \E i \in DOMAIN entries : entries[i] = mono
    /\ ic # None /\ ic.version = version =>
        ic.entry \in LiveEntries /\ EntryText(ic.entry) = TextOf[ic.key]

\* dict_set always returns: when it probes, there is a slot to stop at, in the
\* table or in the one it is growing into.  This is what the second half of its
\* growth condition is for.
StoreEnds ==
    /\ pc = "store" \/ (pc = "idle" /\ ~MustGrow) =>
         \A t \in Text : ProbeEnds(capacity, indices, entries, t)
    /\ pc = "adjust" => \E s \in Slots(newCapacity) : newIndices[s] = 0

\* A loop over the dict, whatever its body stores, deletes and clears, comes to
\* no key twice; and to every key that was there when it began and was not
\* deleted before its turn, unless growth has dropped deleted entries the loop
\* had passed: those still to come are all behind its index.
LoopExact ==
    loop # None =>
      \A i \in LiveEntries :
        /\ EntryText(i) \in loop.seen => i <= loop.next
        /\ EntryText(i) \in loop.owed /\ ~loop.shifted => i > loop.next

\* Every operation that returns does what it does to an insertion-ordered map.
MapRefined == Map!Spec
=============================================================================
