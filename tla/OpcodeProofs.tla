---------------------------- MODULE OpcodeProofs ----------------------------
(***************************************************************************)
(* What opcodes rely on between two runs of them.  The inline caches, for  *)
(* any number of strings, structs and cache slots and any hash: a cached   *)
(* global, field or method is the one the tables hold, although addresses  *)
(* are used again and every opcode and the host store behind the caches.   *)
(* The registers of a range loop, for any width of integers, any doubles   *)
(* and any rounding: the loop sees nothing beyond its range, all of it     *)
(* where no sum is rounded, and never overflows; what OP_FORPREP leaves in *)
(* two representations is left out by the properties themselves.           *)
(***************************************************************************)
EXTENDS InlineCaches, ForRange, TLAPS
-----------------------------------------------------------------------------
(***************************************************************************)
(* The inline caches.                                                      *)
(***************************************************************************)

\* An entry sits in the slot of its address and says what the table holds.  An
\* address can be used again only after a collection, which empties the caches.
GlobalCoherent ==
    /\ globalIC \in [Range(GlobalSlot) -> [name : Name, value : Value] \cup {None}]
    /\ \A s \in Range(GlobalSlot) : LET e == globalIC[s] IN
         e # None => GlobalSlot[e.name] = s /\ globals[e.name] = e.value

FieldCoherent ==
    /\ fieldIC \in [Range(FieldSlot) -> [klass : Klass, name : Name, index : Nat \ {0}]
                                        \cup {None}]
    /\ \A s \in Range(FieldSlot) : LET e == fieldIC[s] IN
         e # None => /\ FieldSlot[<<e.klass, e.name>>] = s
                     /\ fields[e.klass][e.name] = e.index

MethodCoherent ==
    /\ methodIC \in [Range(MethodSlot) -> [klass : Klass, name : Name, method : Value]
                                          \cup {None}]
    /\ \A s \in Range(MethodSlot) : LET e == methodIC[s] IN
         e # None => /\ MethodSlot[<<e.klass, e.name>>] = s
                     /\ methods[e.klass][e.name] = e.method

FieldsType == fields \in [Klass -> [Name -> Nat]]

\* The inductive invariant; both invariants of the runs follow from it.
IInv == TypeOK /\ FieldsType /\ GlobalCoherent /\ FieldCoherent /\ MethodCoherent
-----------------------------------------------------------------------------
LEMMA InitInv == Init => IInv
  <1>1. SUFFICES ASSUME Init PROVE IInv
    OBVIOUS
  <1>2. Held = {}
    BY <1>1 DEF Init, Held, Keys, EmptyMap
  <1>3. TypeOK /\ FieldsType
    BY <1>1, <1>2 DEF Init, TypeOK, FieldsType, EmptyMap, NoFields
  <1>4. GlobalCoherent /\ FieldCoherent /\ MethodCoherent
    BY <1>1 DEF Init, EmptyIC, GlobalCoherent, FieldCoherent, MethodCoherent
  <1>5. QED
    BY <1>3, <1>4 DEF IInv

LEMMA HeldAreStrings ==
    ASSUME IInv
    PROVE  Held \subseteq Name /\ \A n \in Held : text[n] # None
  BY DEF IInv, TypeOK, Held, Keys, FieldsOf

\* Where the addresses hash to.
LEMMA Slots ==
    /\ \A n \in Name : GlobalSlot[n] \in Range(GlobalSlot)
    /\ \A k \in Klass, n \in Name : /\ FieldSlot[<<k, n>>] \in Range(FieldSlot)
                                    /\ MethodSlot[<<k, n>>] \in Range(MethodSlot)
  BY CachesAssumption DEF Range

\* A lookup that a cache answers is answered as the table would.
LEMMA Answers ==
    ASSUME IInv
    PROVE  /\ \A n \in Name : GlobalAnswer(n) = globals[n]
           /\ \A k \in Klass, n \in Name : /\ FieldAnswer(k, n) = fields[k][n]
                                           /\ MethodAnswer(k, n) = methods[k][n]
  <1>1. ASSUME NEW n \in Name PROVE GlobalAnswer(n) = globals[n]
    BY Slots DEF IInv, GlobalCoherent, GlobalAnswer, GlobalHit
  <1>2. ASSUME NEW k \in Klass, NEW n \in Name PROVE FieldAnswer(k, n) = fields[k][n]
    BY Slots DEF IInv, FieldCoherent, FieldAnswer, FieldHit
  <1>3. ASSUME NEW k \in Klass, NEW n \in Name PROVE MethodAnswer(k, n) = methods[k][n]
    BY Slots DEF IInv, MethodCoherent, MethodAnswer, MethodHit
  <1>4. QED
    BY <1>1, <1>2, <1>3

\* copy_string keeps every interned string and interns no text twice.
LEMMA CopyStringKeeps ==
    ASSUME IInv, NEW n \in Name, CopyString(n)
    PROVE  /\ text' \in [Name -> Text \cup {None}]
           /\ \A m1, m2 \in Name : text'[m1] = text'[m2] /\ text'[m1] # None => m1 = m2
           /\ text'[n] # None
           /\ \A m \in Name : text[m] # None => text'[m] = text[m]
  <1>1. CASE text[n] # None /\ UNCHANGED text
    BY <1>1 DEF IInv, TypeOK
  <1>2. CASE text[n] = None /\ \E t \in Text \ Range(text) : text' = [text EXCEPT ![n] = t]
    <2>1. PICK t \in Text \ Range(text) : text' = [text EXCEPT ![n] = t]
      BY <1>2
    <2>2. t # None /\ \A m \in Name : text[m] # t
      BY CachesAssumption DEF Range, IInv, TypeOK
    <2>3. QED
      BY <1>2, <2>1, <2>2 DEF IInv, TypeOK
  <1>3. QED
    BY <1>1, <1>2 DEF CopyString
-----------------------------------------------------------------------------
LEMMA NamesInv ==
    ASSUME IInv, NEW n \in Name, Load(n) \/ Unload(n)
    PROVE  IInv'
  <1>1. /\ text' \in [Name -> Text \cup {None}]
        /\ \A m1, m2 \in Name : text'[m1] = text'[m2] /\ text'[m1] # None => m1 = m2
        /\ n \in consts' => text'[n] # None
        /\ \A m \in Name : text[m] # None => text'[m] = text[m]
    BY CopyStringKeeps DEF Load, Unload, IInv, TypeOK
  <1>2. Held' \subseteq Held \cup {n} /\ (n \in Held' => n \in consts' \/ n \in Held)
    BY DEF Load, Unload, Held, Keys, FieldsOf
  <1>3. \A m \in Held' : text'[m] # None
    BY <1>1, <1>2, HeldAreStrings
  <1>4. TypeOK'
    BY <1>1, <1>3 DEF IInv, TypeOK, Load, Unload
  <1>5. FieldsType' /\ GlobalCoherent' /\ FieldCoherent' /\ MethodCoherent'
    BY DEF Load, Unload, IInv, FieldsType, GlobalCoherent, FieldCoherent, MethodCoherent,
           caches
  <1>6. QED
    BY <1>5, <1>4 DEF IInv

LEMMA NewStructInv ==
    ASSUME IInv, NEW k \in Klass, NewStruct(k)
    PROVE  IInv'
  <1>1. PICK names \in SUBSET consts \ {{}} :
          \E order \in Bijection(names, 1..Cardinality(names)) :
            fields' = [fields EXCEPT ![k] =
                            [n \in Name |-> IF n \in names THEN order[n] ELSE 0]]
    BY DEF NewStruct
  <1>2. PICK order \in Bijection(names, 1..Cardinality(names)) :
            fields' = [fields EXCEPT ![k] =
                            [n \in Name |-> IF n \in names THEN order[n] ELSE 0]]
    BY <1>1
  <1>3. \A n \in names : order[n] \in Nat /\ order[n] # 0
    BY <1>2 DEF Bijection, Injection
  <1>4. Held' \subseteq Held \cup consts
    <2>1. FieldsOf(k)' \subseteq consts /\ Keys(methods[k])' = {}
      <3>1. fields'[k] = [n \in Name |-> IF n \in names THEN order[n] ELSE 0]
        BY <1>2 DEF IInv, FieldsType
      <3>2. FieldsOf(k)' \subseteq names
        BY <3>1 DEF FieldsOf
      <3>3. methods'[k] = EmptyMap
        BY DEF NewStruct, IInv, TypeOK
      <3>4. QED
        BY <3>2, <3>3 DEF Keys, EmptyMap
    <2>2. \A j \in live : j # k => FieldsOf(j)' = FieldsOf(j)
      BY <1>2 DEF FieldsOf, IInv, FieldsType, TypeOK
    <2>3. \A j \in live : Keys(methods[j])' = Keys(methods[j])
      BY DEF NewStruct, Keys
    <2>4. live' = live \cup {k} /\ consts' = consts /\ Keys(globals)' = Keys(globals)
      BY DEF NewStruct, Keys
    <2>5. QED
      BY <2>1, <2>2, <2>3, <2>4 DEF Held
  <1>5. TypeOK'
    BY <1>4 DEF NewStruct, IInv, TypeOK, Held
  <1>6. FieldsType'
    BY <1>2, <1>3 DEF IInv, FieldsType
  <1>7. FieldCoherent'
    <2>1. \A n \in Name : fields[k][n] = 0
      BY DEF NewStruct, NoFields
    <2>2. \A j \in Klass : j # k => fields'[j] = fields[j]
      BY <1>2 DEF IInv, FieldsType
    <2>3. QED
      BY <2>1, <2>2 DEF NewStruct, IInv, FieldCoherent, caches
  <1>8. GlobalCoherent' /\ MethodCoherent'
    BY DEF NewStruct, IInv, GlobalCoherent, MethodCoherent, caches
  <1>9. QED
    BY <1>5, <1>6, <1>7, <1>8 DEF IInv

LEMMA ForgetInv ==
    ASSUME IInv, NEW k \in Klass, Forget(k)
    PROVE  IInv'
  <1>1. Held' \subseteq Held
    BY DEF Forget, Held, Keys, FieldsOf
  <1>2. TypeOK'
    BY <1>1 DEF Forget, IInv, TypeOK
  <1>3. FieldsType' /\ GlobalCoherent' /\ FieldCoherent' /\ MethodCoherent'
    BY DEF Forget, IInv, FieldsType, GlobalCoherent, FieldCoherent, MethodCoherent, caches
  <1>4. QED
    BY <1>2, <1>3 DEF IInv

\* A collection reclaims no name that something live holds, and no live struct.
LEMMA CollectInv ==
    ASSUME IInv, NEW kind, Collect(kind)
    PROVE  IInv'
  <1>1. PICK klasses \in SUBSET (Klass \ live), names \in SUBSET (Name \ Held) :
          /\ text' = [n \in Name |-> IF n \in names THEN None ELSE text[n]]
          /\ fields' = [k \in Klass |-> IF k \in klasses THEN NoFields ELSE fields[k]]
          /\ methods' = [k \in Klass |-> IF k \in klasses THEN EmptyMap ELSE methods[k]]
          /\ ClearCaches(kind)
          /\ UNCHANGED <<consts, live, globals>>
    BY DEF Collect
  <1>2. \A k \in live : fields'[k] = fields[k] /\ methods'[k] = methods[k]
    BY <1>1 DEF IInv, TypeOK
  <1>3. Held' \subseteq Held
    BY <1>1, <1>2 DEF Held, Keys, FieldsOf
  <1>4. TypeOK'
    <2>1. \A m \in Held' : text'[m] # None
      BY <1>1, <1>3, HeldAreStrings
    <2>2. methods' \in [Klass -> [Name -> Value \cup {None}]]
      BY <1>1 DEF IInv, TypeOK, EmptyMap
    <2>3. /\ text' \in [Name -> Text \cup {None}]
          /\ \A m, n \in Name : text'[m] = text'[n] /\ text'[m] # None => m = n
      BY <1>1 DEF IInv, TypeOK
    <2>4. QED
      BY <1>1, <2>1, <2>2, <2>3 DEF IInv, TypeOK
  <1>5. FieldsType'
    BY <1>1 DEF IInv, FieldsType, NoFields
  <1>6. GlobalCoherent' /\ FieldCoherent' /\ MethodCoherent'
    BY <1>1 DEF ClearCaches, EmptyIC, GlobalCoherent, FieldCoherent, MethodCoherent
  <1>7. QED
    BY <1>4, <1>5, <1>6 DEF IInv
-----------------------------------------------------------------------------
\* A global is stored and the cache gets the value, or loses all it has.
LEMMA GlobalStored ==
    ASSUME IInv, NEW n \in Name, NEW v \in Value,
           globals' = [globals EXCEPT ![n] = v],
           \/ globalIC' = GlobalEntry(n, v)
           \/ globalIC' = EmptyIC(GlobalSlot)
           \/ globalIC' = [EmptyIC(GlobalSlot) EXCEPT ![GlobalSlot[n]] =
                                                    [name |-> n, value |-> v]]
    PROVE  GlobalCoherent'
  <1>1. globals'[n] = v /\ \A m \in Name : m # n => globals'[m] = globals[m]
    BY DEF IInv, TypeOK
  <1>2. GlobalSlot[n] \in Range(GlobalSlot) /\ [name |-> n, value |-> v] \in [name : Name, value : Value]
    BY Slots
  <1>3. CASE globalIC' = GlobalEntry(n, v)
    BY <1>1, <1>2, <1>3 DEF GlobalEntry, IInv, GlobalCoherent
  <1>4. CASE globalIC' = EmptyIC(GlobalSlot)
    BY <1>4 DEF EmptyIC, GlobalCoherent
  <1>5. CASE globalIC' = [EmptyIC(GlobalSlot) EXCEPT ![GlobalSlot[n]] =
                                                    [name |-> n, value |-> v]]
    BY <1>1, <1>2, <1>5 DEF EmptyIC, GlobalCoherent
  <1>6. QED
    BY <1>3, <1>4, <1>5

LEMMA GetGlobalInv == ASSUME IInv, NEW n \in Name, GetGlobal(n) PROVE IInv'
  <1>1. globals[n] \in Value /\ globalIC' = GlobalEntry(n, globals[n])
    BY Answers DEF GetGlobal, IInv, TypeOK
  <1>2. globals' = [globals EXCEPT ![n] = globals[n]]
    BY DEF GetGlobal, IInv, TypeOK
  <1>3. GlobalCoherent'
    BY <1>1, <1>2, GlobalStored
  <1>4. TypeOK' /\ FieldsType' /\ FieldCoherent' /\ MethodCoherent'
    BY DEF GetGlobal, IInv, TypeOK, FieldsType, FieldCoherent, MethodCoherent, Held, Keys,
           FieldsOf
  <1>5. QED
    BY <1>3, <1>4 DEF IInv

LEMMA StoreGlobalInv ==
    ASSUME IInv, NEW n \in Name, NEW v \in Value,
           SetGlobal(n, v) \/ Accumulate(n, v) \/ HostSet(n, v)
    PROVE  IInv'
  <1>1. /\ text' \in [Name -> Text \cup {None}]
        /\ \A m1, m2 \in Name : text'[m1] = text'[m2] /\ text'[m1] # None => m1 = m2
        /\ text'[n] # None
        /\ \A m \in Name : text[m] # None => text'[m] = text[m]
    BY CopyStringKeeps DEF SetGlobal, Accumulate, HostSet, IInv, TypeOK, Held
  <1>2. /\ globals' = [globals EXCEPT ![n] = v]
        /\ UNCHANGED <<consts, live, fields, methods>>
    BY DEF SetGlobal, Accumulate, HostSet
  <1>3. Held' \subseteq Held \cup {n}
    BY <1>2 DEF Held, Keys, FieldsOf, IInv, TypeOK
  <1>4. TypeOK'
    <2>1. \A m \in Held' : text'[m] # None
      BY <1>1, <1>3, HeldAreStrings
    <2>2. QED
      BY <1>1, <1>2, <2>1 DEF IInv, TypeOK
  <1>5. GlobalCoherent'
    BY <1>2, GlobalStored DEF SetGlobal, Accumulate, HostSet, GlobalICAfterHost
  <1>6. FieldCoherent' /\ MethodCoherent'
    BY <1>2 DEF SetGlobal, Accumulate, HostSet, IInv, FieldCoherent, MethodCoherent, EmptyIC
  <1>7. FieldsType'
    BY <1>2 DEF IInv, FieldsType
  <1>8. QED
    BY <1>4, <1>5, <1>6, <1>7 DEF IInv

LEMMA AccessFieldInv ==
    ASSUME IInv, NEW k \in Klass, NEW n \in Name, AccessField(k, n)
    PROVE  IInv'
  <1>1. fields[k][n] \in Nat \ {0} /\ fieldIC' = FieldEntry(k, n, fields[k][n])
    BY Answers DEF AccessField, IInv, FieldsType
  <1>2. FieldCoherent'
    BY <1>1, Slots DEF AccessField, FieldEntry, IInv, FieldCoherent
  <1>3. TypeOK' /\ FieldsType' /\ GlobalCoherent' /\ MethodCoherent'
    BY DEF AccessField, IInv, TypeOK, FieldsType, GlobalCoherent, MethodCoherent, Held, Keys,
           FieldsOf
  <1>4. QED
    BY <1>2, <1>3 DEF IInv

LEMMA GetMethodInv ==
    ASSUME IInv, NEW k \in Klass, NEW n \in Name, GetMethod(k, n)
    PROVE  IInv'
  <1>1. methods[k][n] \in Value /\ methodIC' = MethodEntry(k, n, methods[k][n])
    BY Answers DEF GetMethod, IInv, TypeOK
  <1>2. MethodCoherent'
    BY <1>1, Slots DEF GetMethod, MethodEntry, IInv, MethodCoherent
  <1>3. TypeOK' /\ FieldsType' /\ GlobalCoherent' /\ FieldCoherent'
    BY DEF GetMethod, IInv, TypeOK, FieldsType, GlobalCoherent, FieldCoherent, Held, Keys,
           FieldsOf
  <1>4. QED
    BY <1>2, <1>3 DEF IInv

LEMMA SetMethodInv ==
    ASSUME IInv, NEW k \in Klass, NEW n \in Name, NEW m \in Value, SetMethod(k, n, m)
    PROVE  IInv'
  <1>1. /\ methods' \in [Klass -> [Name -> Value \cup {None}]]
        /\ methods'[k][n] = m
        /\ \A j \in Klass, i \in Name : j # k \/ i # n => methods'[j][i] = methods[j][i]
    BY DEF SetMethod, IInv, TypeOK
  <1>2. Held' \subseteq Held
    BY <1>1 DEF SetMethod, Held, Keys, FieldsOf
  <1>3. TypeOK'
    BY <1>1, <1>2 DEF SetMethod, IInv, TypeOK
  <1>4. MethodCoherent'
    BY <1>1, Slots DEF SetMethod, MethodEntry, IInv, MethodCoherent
  <1>5. FieldsType' /\ GlobalCoherent' /\ FieldCoherent'
    BY DEF SetMethod, IInv, FieldsType, GlobalCoherent, FieldCoherent
  <1>6. QED
    BY <1>3, <1>4, <1>5 DEF IInv
-----------------------------------------------------------------------------
LEMMA NextInv == IInv /\ [Next]_vars => IInv'
  <1>1. SUFFICES ASSUME IInv, [Next]_vars PROVE IInv'
    OBVIOUS
  <1>2. CASE \E n \in Name : Load(n) \/ Unload(n) \/ GetGlobal(n)
    BY <1>1, <1>2, NamesInv, GetGlobalInv
  <1>3. CASE \E n \in Name, v \in Value : SetGlobal(n, v) \/ Accumulate(n, v) \/ HostSet(n, v)
    BY <1>1, <1>3, StoreGlobalInv
  <1>4. CASE \E k \in Klass : NewStruct(k) \/ Forget(k)
    BY <1>1, <1>4, NewStructInv, ForgetInv
  <1>5. CASE \E k \in Klass, n \in Name : AccessField(k, n) \/ GetMethod(k, n)
    BY <1>1, <1>5, AccessFieldInv, GetMethodInv
  <1>6. CASE \E k \in Klass, n \in Name, m \in Value : SetMethod(k, n, m)
    BY <1>1, <1>6, SetMethodInv
  <1>7. CASE \E kind \in {"minor", "major"} : Collect(kind)
    BY <1>1, <1>7, CollectInv
  <1>8. CASE UNCHANGED vars
    BY <1>1, <1>8 DEF vars, caches, IInv, TypeOK, FieldsType, GlobalCoherent, FieldCoherent,
                      MethodCoherent, Held, Keys, FieldsOf
  <1>9. QED
    BY <1>1, <1>2, <1>3, <1>4, <1>5, <1>6, <1>7, <1>8 DEF Next

\* A read of a global answers what vm->globals holds under the text of the name,
\* whichever opcode or host call stored it last (OP_GETGLOBAL, OP_SETGLOBAL,
\* vm_set_global_value).
THEOREM GlobalsNeverStale == Spec => []GlobalsExact
  <1>1. ASSUME IInv, NEW n \in consts
        PROVE  {map \in {GlobalAnswer(n)} : map # None} = {globals[m] : m \in Same(n, globals)}
    <2>1. n \in Name /\ GlobalAnswer(n) = globals[n] /\ text[n] # None
      BY <1>1, Answers DEF IInv, TypeOK, Held
    <2>2. Same(n, globals) = IF globals[n] = None THEN {} ELSE {n}
      BY <1>1, <2>1 DEF Same, Keys, IInv, TypeOK
    <2>3. QED
      BY <2>1, <2>2
  <1>2. IInv => GlobalsExact
    BY <1>1 DEF GlobalsExact
  <1>3. QED
    BY InitInv, NextInv, <1>2, PTL DEF Spec

\* A field or method access finds what the struct has under the text of the
\* name, although the cache compares addresses that are used again
\* (gc_minor_collect and gc_major_collect empty the caches).
THEOREM MembersNeverStale == Spec => []MembersExact
  <1>1. ASSUME IInv, NEW k \in live, NEW n \in consts
        PROVE  /\ FieldAnswer(k, n) = fields[k][n]
               /\ \A m \in FieldsOf(k) : text[m] = text[n] => m = n
               /\ MethodAnswer(k, n) = methods[k][n]
               /\ Same(n, methods[k]) \subseteq {n}
    <2>1. n \in Name /\ k \in Klass /\ text[n] # None
      BY <1>1 DEF IInv, TypeOK, Held
    <2>2. FieldAnswer(k, n) = fields[k][n] /\ MethodAnswer(k, n) = methods[k][n]
      BY <1>1, <2>1, Answers
    <2>3. \A m \in Name : text[m] = text[n] => m = n
      BY <1>1, <2>1 DEF IInv, TypeOK
    <2>4. QED
      BY <2>2, <2>3 DEF FieldsOf, Same, Keys
  <1>2. IInv => MembersExact
    BY <1>1 DEF MembersExact
  <1>3. QED
    BY InitInv, NextInv, <1>2, PTL DEF Spec
-----------------------------------------------------------------------------
(***************************************************************************)
(* The range loop.                                                         *)
(***************************************************************************)
\* The registers before the loop is prepared.
Unprepared == at = "prep" => iter = from /\ limit = to /\ count = 0

\* The registers after that: the variable is an integer only below the limit and
\* with it, and matched bounds have one representation and the script's limit.
Prepared ==
    at # "prep" =>
        /\ iter.kind = "int" => limit.kind = "int" /\ limit.num < MaxInt * One
        /\ iter.kind = "int" => ~numeric
        /\ Matched => /\ iter.kind = limit.kind /\ limit.num = to.num
                      /\ numeric => limit.kind = "number"

\* The variable in its range.
Placed ==
    /\ at = "loop" /\ iter.kind = "int" => iter.num < MaxInt * One
    /\ at = "body" /\ iter.kind = "int" => iter.num <= limit.num
    /\ Matched => /\ at = "body" => InRange(iter.num)
                  /\ at = "done" => ~InRange(iter.num)

\* Its place, if nothing is rounded: the values before it were in the range.
Counted ==
    Matched /\ Exact =>
        /\ at \in {"loop", "body", "done"} => iter.num = Nth(IF at = "done" THEN count + 1
                                                             ELSE count)
        /\ at = "loop" => count = 0 \/ InRange(iter.num)

LoopInv == LoopTypeOK /\ Unprepared /\ Prepared /\ Placed /\ Counted

\* An integer is whole and in the range of int32_t; every value is a double.
LEMMA ValueFacts ==
    ASSUME NEW v, IsValue(v)
    PROVE  /\ v.num \in Int /\ v.num \in Double /\ v.kind \in {"int", "number"}
           /\ v.kind = "number" => v = NUMBER_VAL(v.num)
           /\ v.kind = "int" => \E i \in MinInt .. MaxInt : v = INT_VAL(i)
<1> USE ForRangeAssumption
<1>1. CASE v \in [kind : {"number"}, num : Double]
    BY <1>1 DEF NUMBER_VAL
<1>2. ASSUME NEW i \in MinInt .. MaxInt, v = INT_VAL(i)
      PROVE  v.kind = "int" /\ v.num = i * One /\ v.num \in Double /\ v.num \in Int
    <2>1. i \in (MinInt - 1) .. (MaxInt + 1)
        OBVIOUS
    <2> QED BY <1>2, <2>1 DEF INT_VAL
<1> QED BY <1>1, <1>2 DEF IsValue

\* Bounds are values.
LEMMA BoundsAreValues ==
    ASSUME NEW v \in Bounds
    PROVE  IsValue(v)
BY ForRangeAssumption DEF Bounds, NUMBER_VAL, IsValue

\* Whole units: division undoes multiplication.
LEMMA Units ==
    ASSUME NEW i \in Int, NEW j \in Int
    PROVE  /\ (i * One) \in Int /\ (i * One) \div One = i
           /\ (i * One) % One = 0
           /\ i * One < j * One <=> i < j
           /\ i * One <= j * One <=> i <= j
           /\ i * One = j * One <=> i = j
           /\ (i - 1) * One = i * One - One /\ (i + 1) * One = i * One + One
<1>1. One \in Int /\ One > 0
    BY ForRangeAssumption
<1> HIDE DEF ForRangeAssumption
<1> QED BY <1>1, SMTT(60)

LEMMA WholeUnits ==
    ASSUME NEW d \in Int, Whole(d)
    PROVE  d \div One \in Int /\ (d \div One) * One = d
<1>1. One \in Int /\ One > 0
    BY ForRangeAssumption
<1> QED BY <1>1, SMTT(60) DEF Whole

\* Adding and subtracting one to a double.
LEMMA Rounded ==
    ASSUME NEW d \in Double
    PROVE  /\ IsValue(NUMBER_VAL(Round(d + One))) /\ IsValue(NUMBER_VAL(Round(d - One)))
           /\ d + One \in Double => Round(d + One) = d + One
           /\ d - One \in Double => Round(d - One) = d - One
BY ForRangeAssumption DEF IsValue, NUMBER_VAL

LEMMA LoopStarts ==
    ASSUME LoopInit
    PROVE  LoopInv
<1>1. LoopTypeOK
    BY BoundsAreValues DEF LoopInit, LoopTypeOK
<1> QED BY <1>1 DEF LoopInit, LoopInv, Unprepared, Prepared, Placed, Counted

\* What a preparation leaves in the registers
PreparedWell ==
    /\ IsValue(iter') /\ IsValue(limit')
    /\ iter'.kind = "int" => /\ ~numeric /\ limit'.kind = "int"
                             /\ iter'.num < MaxInt * One /\ limit'.num < MaxInt * One
    /\ Matched => /\ iter'.kind = limit'.kind /\ limit'.num = to.num
                  /\ numeric => limit'.kind = "number"
    /\ Exact => iter'.num = from.num - One

\* A double minus one, and a limit with the value that was written
LEMMA AsNumbers ==
    ASSUME IsValue(from), IsValue(to), iter' = NUMBER_VAL(Round(from.num - One)),
           limit' = NUMBER_VAL(to.num)
    PROVE  PreparedWell
<1>1. from.num \in Double /\ to.num \in Double
    BY ValueFacts
<1>2. IsValue(iter') /\ iter'.kind = "number" /\ IsValue(limit') /\ limit'.kind = "number"
      /\ limit'.num = to.num
    BY <1>1, Rounded DEF IsValue, NUMBER_VAL
<1>3. Exact => iter'.num = from.num - One
    BY <1>1, Rounded DEF Exact, NUMBER_VAL
<1> QED BY <1>2, <1>3 DEF PreparedWell

\* OP_FORPREP of two integers
LEMMA IntsWell ==
    ASSUME IsValue(from), IsValue(to), iter = from, limit = to, ~numeric, PrepareInts
    PROVE  PreparedWell
<1> USE ForRangeAssumption
<1>1. CASE limit.num = MaxInt * One
    BY <1>1, AsNumbers DEF PrepareInts
<1>2. CASE limit.num # MaxInt * One
    <2>1. PICK i \in MinInt .. MaxInt, j \in MinInt .. MaxInt : from = INT_VAL(i) /\ to = INT_VAL(j)
        BY ValueFacts DEF PrepareInts, BothInt
    <2>2. i \in Int /\ j \in Int /\ from.num = i * One /\ to.num = j * One
          /\ from.kind = "int" /\ to.kind = "int" /\ limit' = to
          /\ iter' = int_or_number(from.num \div One - 1)
        BY <1>2, <2>1 DEF INT_VAL, PrepareInts
    <2>3. from.num \div One = i /\ (i - 1) * One = from.num - One
          /\ j < MaxInt /\ to.num < MaxInt * One
        BY <1>2, <2>1, <2>2, Units
    <2>4. CASE i = MinInt
        <3>1. iter' = NUMBER_VAL((i - 1) * One) /\ (i - 1) * One \in Double
            BY <2>1, <2>2, <2>3, <2>4 DEF int_or_number, InInt
        <3>2. LeavesMixed(from, to)
            BY <1>2, <2>2, <2>4 DEF LeavesMixed
        <3> QED BY <2>2, <2>3, <3>1, <3>2 DEF PreparedWell, Matched, NUMBER_VAL, IsValue
    <2>5. CASE i # MinInt
        <3>1. iter' = INT_VAL(i - 1) /\ i - 1 \in MinInt .. MaxInt /\ i - 1 < MaxInt
            BY <2>1, <2>2, <2>3, <2>5 DEF int_or_number, InInt
        <3>2. iter'.num = (i - 1) * One /\ iter'.kind = "int" /\ IsValue(iter')
            BY <3>1 DEF INT_VAL, IsValue
        <3>3. iter'.num < MaxInt * One
            BY <3>1, <3>2, <2>2, Units
        <3> QED BY <2>2, <2>3, <3>2, <3>3 DEF PreparedWell
    <2> QED BY <2>4, <2>5
<1> QED BY <1>1, <1>2

\* OP_FORPREP of other numbers
LEMMA OthersWell ==
    ASSUME IsValue(from), IsValue(to), iter = from, limit = to, ~numeric, PrepareOthers
    PROVE  PreparedWell
<1> USE ForRangeAssumption
<1>0. from.num \in Int /\ to.num \in Int /\ from.num \in Double
    BY ValueFacts
<1>1. CASE Narrows(from, to)
    <2> DEFINE i == from.num \div One
               j == to.num \div One
    <2>1. i \in Int /\ j \in Int /\ i * One = from.num /\ j * One = to.num
        BY <1>0, <1>1, WholeUnits DEF Narrows
    <2>2. MinInt + 1 <= i /\ i <= MaxInt /\ MinInt <= j /\ j < MaxInt
          /\ (i - 1) * One = from.num - One
        <3> HIDE DEF i, j
        <3> QED BY <1>1, <2>1, Units DEF Narrows
    <2>3. iter' = INT_VAL(i - 1) /\ limit' = INT_VAL(j)
        BY <1>1 DEF PrepareOthers
    <2> HIDE DEF i, j
    <2>4. i - 1 \in MinInt .. MaxInt /\ j \in MinInt .. MaxInt /\ i - 1 < MaxInt
          /\ (i - 1) * One < MaxInt * One /\ j * One < MaxInt * One
        BY <2>1, <2>2, Units
    <2> QED BY <2>1, <2>2, <2>3, <2>4 DEF PreparedWell, INT_VAL, IsValue
<1>2. CASE ~Narrows(from, to)
    <2>1. iter' = NUMBER_VAL(Round(from.num - One)) /\ limit' = to
        BY <1>2 DEF PrepareOthers
    <2>2. CASE to.kind = "number"
        BY <2>1, <2>2, AsNumbers, ValueFacts
    <2>3. CASE to.kind = "int"
        <3>1. LeavesMixed(from, to)
            BY <1>2, <2>3, ValueFacts DEF LeavesMixed, PrepareOthers, BothInt
        <3>2. IsValue(iter') /\ iter'.kind = "number"
            BY <1>0, <2>1, Rounded DEF NUMBER_VAL
        <3>3. Exact => iter'.num = from.num - One
            BY <1>0, <2>1, Rounded DEF Exact, NUMBER_VAL
        <3> QED BY <2>1, <3>1, <3>2, <3>3 DEF PreparedWell, Matched
    <2> QED BY <2>2, <2>3, ValueFacts
<1> QED BY <1>1, <1>2 DEF PrepareOthers

LEMMA PrepareKeeps ==
    ASSUME LoopInv, PrepareNumeric \/ Prepare
    PROVE  LoopInv'
<1>0. /\ at = "prep" /\ at' = "loop" /\ iter = from /\ limit = to /\ count = 0
      /\ IsValue(from) /\ IsValue(to) /\ UNCHANGED <<given, count>>
    BY BoundsAreValues DEF LoopInv, LoopTypeOK, Unprepared, PrepareNumeric, Prepare
<1>1. PreparedWell
    BY <1>0, AsNumbers, IntsWell, OthersWell DEF PrepareNumeric, Prepare
<1>2. LoopTypeOK'
    BY <1>0, <1>1 DEF LoopInv, LoopTypeOK, given, PreparedWell, IsValue
<1>3. Matched' = Matched /\ Exact' = Exact
    BY <1>0 DEF given, Matched, Exact
<1>4. Nth(0)' = from.num - One
    <2>1. from.num \in Int /\ One \in Int
        BY <1>0, ValueFacts, ForRangeAssumption
    <2> QED BY <1>0, <2>1 DEF Nth, given
<1>5. Unprepared' /\ Prepared' /\ Placed'
    BY <1>0, <1>1, <1>3 DEF Unprepared, Prepared, Placed, given, PreparedWell
<1>6. Counted'
    <2>1. Exact => iter'.num = Nth(0)'
        BY <1>1, <1>4 DEF PreparedWell
    <2> QED BY <1>0, <1>3, <2>1 DEF Counted, Nth, given
<1> QED BY <1>2, <1>5, <1>6 DEF LoopInv

\* One more: an integer below the largest by one; a double as it is rounded.
LEMMA SuccessorIs ==
    ASSUME NEW v, IsValue(v), v.kind = "int" => v.num < MaxInt * One
    PROVE  /\ IsValue(Successor(v)) /\ Successor(v).kind = v.kind
           /\ v.kind = "int" \/ v.num + One \in Double => Successor(v).num = v.num + One
<1>1. CASE v.kind = "number"
    <2>1. v.num \in Double /\ Successor(v) = NUMBER_VAL(Round(v.num + One))
        BY <1>1, ValueFacts DEF Successor
    <2>2. IsValue(Successor(v))
        BY <2>1, Rounded
    <2>3. Successor(v).kind = "number" /\ Successor(v).num = Round(v.num + One)
        BY <2>1 DEF NUMBER_VAL
    <2> QED BY <1>1, <2>1, <2>2, <2>3, Rounded
<1>2. CASE v.kind = "int"
    <2>1. PICK i \in MinInt .. MaxInt : v = INT_VAL(i)
        BY <1>2, ValueFacts
    <2>2. i \in Int /\ MaxInt \in Int /\ v.num = i * One
        BY <2>1, ForRangeAssumption DEF INT_VAL
    <2>3. i < MaxInt /\ (i + 1) * One = v.num + One /\ v.num \div One = i
        BY <1>2, <2>2, Units
    <2>4. Successor(v) = INT_VAL(i + 1) /\ i + 1 \in MinInt .. MaxInt
        BY <1>2, <2>2, <2>3, ForRangeAssumption DEF Successor
    <2> QED BY <1>2, <2>3, <2>4 DEF INT_VAL, IsValue
<1> QED BY <1>1, <1>2, ValueFacts

\* What the loop instruction leaves is in its place of the range.
LEMMA NextPlace ==
    ASSUME LoopInv, at = "loop", Matched, Exact
    PROVE  Successor(iter).num = Nth(count + 1) /\ Nth(count + 1) \in Int
<1>1. /\ IsValue(iter)
      /\ iter.kind = "int" => iter.num < MaxInt * One
      /\ iter.num = Nth(count) /\ count \in Nat /\ IsValue(from) /\ IsValue(to)
      /\ count = 0 \/ InRange(iter.num)
    BY BoundsAreValues DEF LoopInv, LoopTypeOK, Placed, Counted
<1>2. /\ One \in Int /\ One > 0 /\ from.num \in Int /\ to.num \in Int /\ from.num \in Double
    BY <1>1, ValueFacts, ForRangeAssumption
<1>3. /\ (count - 1) * One \in Int /\ count * One \in Int /\ (count * One) % One = 0
      /\ (count - 1) * One = count * One - One
      /\ count > 0 => count * One >= One
    <2>1. 1 * One = One /\ (count >= 1 => 1 * One <= count * One)
        BY <1>1, <1>2, Units
    <2> QED BY <1>1, <1>2, <2>1, Units
<1>4. iter.num + One = from.num + count * One
      /\ Nth(count + 1) = from.num + count * One
    <2>1. (count + 1) - 1 = count
        BY <1>1
    <2> QED BY <1>1, <1>2, <1>3, <2>1 DEF Nth
<1>5. iter.num + One \in Double
    <2>1. CASE count = 0
        <3>1. count * One = 0
            BY <1>2, <2>1
        <3> QED BY <1>2, <1>4, <3>1
    <2>2. CASE count > 0
        <3> DEFINE c == count * One
        <3>1. c \in Int /\ c >= 0 /\ iter.num = from.num + c - One /\ c % One = 0
            BY <1>1, <1>2, <1>3, <1>4, <2>2 DEF Nth
        <3>2. iter.num <= to.num
            <4>1. iter.num \in Int /\ InRange(iter.num)
                BY <1>1, <2>2, ValueFacts
            <4> QED BY <1>2, <4>1 DEF InRange
        <3> HIDE DEF c
        <3>3. from.num + c \in from.num .. to.num + One /\ (from.num + c) - from.num = c
            BY <1>2, <3>1, <3>2
        <3>4. from.num + c \in Double
            BY <3>1, <3>3 DEF Exact, Whole
        <3> QED BY <1>4, <3>4 DEF c
    <2> QED BY <1>1, <2>1, <2>2
<1>6. Successor(iter).num = iter.num + One
    BY <1>1, <1>5, SuccessorIs
<1>7. from.num + count * One \in Int
    BY <1>2, <1>3
<1> QED BY <1>4, <1>6, <1>7

LEMMA LoopKeeps ==
    ASSUME LoopInv, Loop
    PROVE  LoopInv'
<1>0. /\ at = "loop" /\ UNCHANGED <<given, limit>> /\ iter' = Successor(iter)
      /\ IsValue(iter) /\ IsValue(limit) /\ IsValue(to) /\ count \in Nat
      /\ iter.kind = "int" => /\ limit.kind = "int" /\ limit.num < MaxInt * One /\ ~numeric
                              /\ iter.num < MaxInt * One
      /\ Matched => /\ iter.kind = limit.kind /\ limit.num = to.num
                    /\ numeric => limit.kind = "number"
    BY BoundsAreValues DEF LoopInv, LoopTypeOK, Prepared, Placed, Loop
<1>1. IsValue(iter') /\ iter'.kind = iter.kind /\ iter'.num \in Int
    BY <1>0, SuccessorIs, ValueFacts
<1>2. /\ limit.num \in Int /\ to.num \in Int
      /\ limit.kind \in {"int", "number"} /\ iter.kind \in {"int", "number"}
    BY <1>0, ValueFacts
<1>3. Matched' = Matched /\ Exact' = Exact /\ \A d : InRange(d)' = InRange(d)
    BY <1>0 DEF given, Matched, Exact, InRange
<1>4. /\ Matched => (Past(iter'.num) <=> ~InRange(iter'.num))
      /\ iter.kind = "int" /\ ~Past(iter'.num) => iter'.num <= limit.num
    BY <1>0, <1>1, <1>2 DEF Past, InRange, BothInt
<1>5. Matched /\ Exact => iter'.num = Nth(count + 1)
    BY <1>0, NextPlace
<1>6. CASE Past(iter'.num)
    <2>1. at' = "done" /\ count' = count
        BY <1>6 DEF Loop
    <2>2. LoopTypeOK' /\ Unprepared' /\ Prepared'
        BY <1>0, <1>1, <1>3, <2>1 DEF LoopInv, LoopTypeOK, Unprepared, Prepared, given, IsValue
    <2>3. Placed'
        BY <1>0, <1>3, <1>4, <1>6, <2>1 DEF Placed, InRange, given
    <2>4. Counted'
        <3>1. Matched' /\ Exact' => iter'.num = from'.num + ((count' + 1) - 1) * One
            BY <1>0, <1>3, <1>5, <2>1 DEF Nth, given
        <3> QED BY <2>1, <3>1 DEF Counted, Nth
    <2> QED BY <2>2, <2>3, <2>4 DEF LoopInv
<1>7. CASE ~Past(iter'.num)
    <2>1. at' = "body" /\ count' = count + 1
        BY <1>7 DEF Loop
    <2>2. LoopTypeOK' /\ Unprepared' /\ Prepared'
        BY <1>0, <1>1, <1>3, <2>1 DEF LoopInv, LoopTypeOK, Unprepared, Prepared, given, IsValue
    <2>3. Placed'
        BY <1>0, <1>1, <1>3, <1>4, <1>7, <2>1 DEF Placed, InRange, given
    <2>4. Counted'
        BY <1>0, <1>3, <1>5, <2>1 DEF Counted, Nth, given
    <2> QED BY <2>2, <2>3, <2>4 DEF LoopInv
<1> QED BY <1>6, <1>7

LEMMA BodyKeeps ==
    ASSUME LoopInv, Body
    PROVE  LoopInv'
<1>0. /\ at = "body" /\ at' = "loop" /\ UNCHANGED <<given, iter, limit, count>>
      /\ IsValue(iter) /\ IsValue(limit) /\ MaxInt * One \in Int
    BY ForRangeAssumption, Units DEF LoopInv, LoopTypeOK, Body
<1>1. iter.kind = "int" => iter.num < MaxInt * One
    BY <1>0, ValueFacts DEF LoopInv, Prepared, Placed
<1>2. Matched' = Matched /\ Exact' = Exact /\ InRange(iter.num)' = InRange(iter.num)
    BY <1>0 DEF given, Matched, Exact, InRange
<1>3. LoopTypeOK' /\ Unprepared' /\ Prepared' /\ Placed'
    BY <1>0, <1>1, <1>2
    DEF LoopInv, LoopTypeOK, Unprepared, Prepared, Placed, given, IsValue
<1>4. Counted'
    BY <1>0, <1>2 DEF LoopInv, Placed, Counted, given, Nth, InRange
<1> QED BY <1>3, <1>4 DEF LoopInv

LEMMA StutterKeeps ==
    ASSUME LoopInv, UNCHANGED loopVars
    PROVE  LoopInv'
<1>1. /\ UNCHANGED <<from, to, inclusive, numeric, iter, limit, at, count>>
      /\ Matched' = Matched /\ Exact' = Exact /\ InRange(iter.num)' = InRange(iter.num)
    BY DEF loopVars, Matched, Exact, InRange
<1> QED BY <1>1 DEF LoopInv, LoopTypeOK, Unprepared, Prepared, Placed, Counted, InRange, Nth,
                    IsValue

\* For any doubles and any rounding: unless OP_FORPREP leaves the bounds in two
\* representations, OP_FORLOOP visits nothing beyond the limit and ends only
\* there; where no sum is rounded, it visits the values of its range in order and
\* all of them; and it never overflows an int32_t nor mixes representations.
THEOREM RangeExact == LoopSpec => [](LoopTypeOK /\ Visits /\ NoOverflow)
<1>1. LoopInit => LoopInv
    BY LoopStarts
<1>2. LoopInv /\ [LoopNext]_loopVars => LoopInv'
    BY PrepareKeeps, LoopKeeps, BodyKeeps, StutterKeeps DEF LoopNext
<1>3. LoopInv => LoopTypeOK /\ Visits /\ NoOverflow
    BY DEF LoopInv, Prepared, Placed, Counted, Visits, NoOverflow
<1> QED BY <1>1, <1>2, <1>3, PTL DEF LoopSpec
=============================================================================
