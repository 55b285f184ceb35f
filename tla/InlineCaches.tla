---------------------------- MODULE InlineCaches ----------------------------
(***************************************************************************)
(* The inline caches of the interpreter: vm->global_ic, vm->field_ic and   *)
(* vm->method_ic, the opcodes that fill and use them (src/src/vm.c), the   *)
(* host calls that store globals behind them and the collections that      *)
(* clear them.                                                             *)
(*                                                                         *)
(* The caches compare pointers.  Name and Klass are addresses: at a name   *)
(* is an interned string, at a klass a struct definition, and both         *)
(* addresses are used again once a collection has reclaimed what was       *)
(* there.  Values are not modelled beyond their identity.                  *)
(***************************************************************************)
EXTENDS Naturals, FiniteSets, Functions

CONSTANTS
    Text,           \* what identifiers read
    Name,           \* addresses of interned strings
    Klass,          \* addresses of struct definitions
    Value,
    GlobalSlot, FieldSlot, MethodSlot,  \* the slots that addresses hash to
    None

ASSUME CachesAssumption ==
    /\ DOMAIN GlobalSlot = Name
    /\ DOMAIN FieldSlot = Klass \X Name /\ DOMAIN MethodSlot = Klass \X Name
    /\ None \notin Text \cup Name \cup Klass \cup Value

VARIABLES
    text,           \* the interned string at an address
    consts,         \* names in the constants of functions that can run
    live,           \* struct definitions that the script or an instance holds
    globals,        \* vm->globals
    fields,         \* klass->field_index: the position of a field, 0 of none
    methods,        \* klass->methods
    globalIC, fieldIC, methodIC

caches == <<globalIC, fieldIC, methodIC>>
vars   == <<text, consts, live, globals, fields, methods, caches>>

Keys(map) == {n \in Name : map[n] # None}
EmptyMap == [n \in Name |-> None]
NoFields == [n \in Name |-> 0]
FieldsOf(k) == {n \in Name : fields[k][n] # 0}
EmptyIC(hash) == [s \in Range(hash) |-> None]

\* The names that something live holds: constants, keys of vm->globals, and
\* the field names and method keys of live structs.
Held == consts \cup Keys(globals)
        \cup UNION {Keys(methods[k]) \cup FieldsOf(k) : k \in live}

Init ==
    /\ text = [n \in Name |-> None] /\ consts = {} /\ live = {}
    /\ globals = EmptyMap
    /\ fields = [k \in Klass |-> NoFields]
    /\ methods = [k \in Klass |-> EmptyMap]
    /\ globalIC = EmptyIC(GlobalSlot)
    /\ fieldIC = EmptyIC(FieldSlot) /\ methodIC = EmptyIC(MethodSlot)
-----------------------------------------------------------------------------
(* Strings, structs and collections.                                       *)

\* copy_string: the interned string of a text, or a new one at a free address
CopyString(n) ==
    \/ text[n] # None /\ UNCHANGED text
    \/ /\ text[n] = None
       /\ \E t \in Text \ Range(text) : text' = [text EXCEPT ![n] = t]

\* A function that names an identifier is loaded, or is no longer used.
Load(n) ==
    /\ n \notin consts /\ consts' = consts \cup {n}
    /\ CopyString(n)
    /\ UNCHANGED <<live, globals, fields, methods, caches>>

Unload(n) ==
    /\ n \in consts /\ consts' = consts \ {n}
    /\ UNCHANGED <<text, live, globals, fields, methods, caches>>

\* OP_NEWSTRUCT, at a free address
NewStruct(k) ==
    /\ k \notin live /\ fields[k] = NoFields /\ methods[k] = EmptyMap
    /\ \E names \in SUBSET consts \ {{}} :
        \E order \in Bijection(names, 1 .. Cardinality(names)) :
            fields' = [fields EXCEPT ![k] =
                            [n \in Name |-> IF n \in names THEN order[n] ELSE 0]]
    /\ live' = live \cup {k}
    /\ UNCHANGED <<text, consts, globals, methods, caches>>

\* The script forgets a struct and its instances.
Forget(k) ==
    /\ k \in live /\ live' = live \ {k}
    /\ UNCHANGED <<text, consts, globals, fields, methods, caches>>

\* Mutant of ClearCaches: a minor collection leaves the caches alone.
ClearCachesIfMajor(kind) ==
    IF kind = "minor" THEN UNCHANGED caches
    ELSE /\ globalIC' = EmptyIC(GlobalSlot)
         /\ fieldIC' = EmptyIC(FieldSlot) /\ methodIC' = EmptyIC(MethodSlot)

ClearCaches(kind) ==
    /\ globalIC' = EmptyIC(GlobalSlot)
    /\ fieldIC' = EmptyIC(FieldSlot) /\ methodIC' = EmptyIC(MethodSlot)

\* gc_minor_collect reclaims some of what is not held, gc_major_collect all.
Collect(kind) ==
    LET deadKlass == {k \in Klass \ live : fields[k] # NoFields}
        deadName  == {n \in Name \ Held : text[n] # None}
    IN  \E klasses \in SUBSET deadKlass, names \in SUBSET deadName :
        /\ klasses # {} \/ names # {}
        /\ kind = "major" => klasses = deadKlass /\ names = deadName
        /\ \A k \in deadKlass \ klasses : names \cap (Keys(methods[k]) \cup FieldsOf(k)) = {}
        /\ text' = [n \in Name |-> IF n \in names THEN None ELSE text[n]]
        /\ fields' = [k \in Klass |-> IF k \in klasses THEN NoFields ELSE fields[k]]
        /\ methods' = [k \in Klass |-> IF k \in klasses THEN EmptyMap ELSE methods[k]]
        /\ ClearCaches(kind)
        /\ UNCHANGED <<consts, live, globals>>
-----------------------------------------------------------------------------
(* Globals.                                                                *)

GlobalHit(n) == LET e == globalIC[GlobalSlot[n]] IN e # None /\ e.name = n
GlobalEntry(n, v) == [globalIC EXCEPT ![GlobalSlot[n]] = [name |-> n, value |-> v]]

\* What a read of a global answers; None is the error "Undefined variable"
GlobalAnswer(n) == IF GlobalHit(n) THEN globalIC[GlobalSlot[n]].value ELSE globals[n]

\* OP_GETGLOBAL, OP_CALLG, and the accumulating loop that then fails
GetGlobal(n) ==
    /\ n \in consts /\ GlobalAnswer(n) # None
    /\ globalIC' = GlobalEntry(n, GlobalAnswer(n))
    /\ UNCHANGED <<text, consts, live, globals, fields, methods, fieldIC, methodIC>>

\* OP_SETGLOBAL
SetGlobal(n, v) ==
    /\ n \in consts
    /\ globals' = [globals EXCEPT ![n] = v]
    /\ globalIC' = GlobalEntry(n, v)
    /\ UNCHANGED <<text, consts, live, fields, methods, fieldIC, methodIC>>

\* OP_FORADDGLOBAL_FIELD_PROP: a loop reads a global, adds to it as often as it
\* runs, and stores it.  To concatenate strings allocates: a collection may
\* clear the caches before the store.
Accumulate(n, v) ==
    /\ n \in consts /\ GlobalAnswer(n) # None
    /\ globals' = [globals EXCEPT ![n] = v]
    /\ \/ globalIC' = GlobalEntry(n, v) /\ UNCHANGED <<fieldIC, methodIC>>
       \/ /\ globalIC' = [EmptyIC(GlobalSlot) EXCEPT ![GlobalSlot[n]] = [name |-> n, value |-> v]]
          /\ fieldIC' = EmptyIC(FieldSlot) /\ methodIC' = EmptyIC(MethodSlot)
    /\ UNCHANGED <<text, consts, live, fields, methods>>

\* Mutant of GlobalICAfterHost: the host stores behind the cache.
GlobalICKept == globalIC

GlobalICAfterHost == EmptyIC(GlobalSlot)

\* vm_set_global_value, vm_register_native, vm_register_ffi
HostSet(n, v) ==
    /\ CopyString(n)
    /\ globals' = [globals EXCEPT ![n] = v]
    /\ globalIC' = GlobalICAfterHost
    /\ UNCHANGED <<consts, live, fields, methods, fieldIC, methodIC>>
-----------------------------------------------------------------------------
(* Fields and methods of an instance of struct k.                          *)

FieldHit(k, n) ==
    LET e == fieldIC[FieldSlot[<<k, n>>]] IN e # None /\ e.klass = k /\ e.name = n
FieldEntry(k, n, i) ==
    [fieldIC EXCEPT ![FieldSlot[<<k, n>>]] = [klass |-> k, name |-> n, index |-> i]]

\* The position a field access uses, 0 when it finds no field
FieldAnswer(k, n) ==
    IF FieldHit(k, n) THEN fieldIC[FieldSlot[<<k, n>>]].index ELSE fields[k][n]

MethodHit(k, n) ==
    LET e == methodIC[MethodSlot[<<k, n>>]] IN e # None /\ e.klass = k /\ e.name = n
MethodEntry(k, n, m) ==
    [methodIC EXCEPT ![MethodSlot[<<k, n>>]] = [klass |-> k, name |-> n, method |-> m]]

\* The method a lookup finds, None when there is none
MethodAnswer(k, n) ==
    IF MethodHit(k, n) THEN methodIC[MethodSlot[<<k, n>>]].method ELSE methods[k][n]

\* OP_GETFIELD, OP_GETFIELD_TRY, OP_GETFIELD_PROP, OP_SETFIELD and the fused
\* updates of a local by a field.  A miss of a name that is no field leaves the cache.
AccessField(k, n) ==
    /\ k \in live /\ n \in consts /\ FieldAnswer(k, n) # 0
    /\ fieldIC' = FieldEntry(k, n, FieldAnswer(k, n))
    /\ UNCHANGED <<text, consts, live, globals, fields, methods, globalIC, methodIC>>

\* OP_MCALLFIELD, and OP_GETFIELD of a name that is no field
GetMethod(k, n) ==
    /\ k \in live /\ n \in consts /\ MethodAnswer(k, n) # None
    /\ methodIC' = MethodEntry(k, n, MethodAnswer(k, n))
    /\ UNCHANGED <<text, consts, live, globals, fields, methods, globalIC, fieldIC>>

\* OP_SETFIELD of a struct definition
SetMethod(k, n, m) ==
    /\ k \in live /\ n \in consts
    /\ methods' = [methods EXCEPT ![k][n] = m]
    /\ methodIC' = MethodEntry(k, n, m)
    /\ UNCHANGED <<text, consts, live, globals, fields, globalIC, fieldIC>>
-----------------------------------------------------------------------------
Next ==
    \/ \E n \in Name : Load(n) \/ Unload(n) \/ GetGlobal(n)
    \/ \E n \in Name, v \in Value : SetGlobal(n, v) \/ Accumulate(n, v) \/ HostSet(n, v)
    \/ \E k \in Klass : NewStruct(k) \/ Forget(k)
    \/ \E k \in Klass, n \in Name : AccessField(k, n) \/ GetMethod(k, n)
    \/ \E k \in Klass, n \in Name, m \in Value : SetMethod(k, n, m)
    \/ \E kind \in {"minor", "major"} : Collect(kind)

Spec == Init /\ [][Next]_vars
-----------------------------------------------------------------------------
\* Every variable has its type, one text is interned once, and every name
\* that something live holds is a string.
TypeOK ==
    /\ text \in [Name -> Text \cup {None}]
    /\ \A m, n \in Name : text[m] = text[n] /\ text[m] # None => m = n
    /\ consts \subseteq Name /\ live \subseteq Klass
    /\ \A n \in Held : text[n] # None
    /\ globals \in [Name -> Value \cup {None}]
    /\ methods \in [Klass -> [Name -> Value \cup {None}]]

\* The addresses where map has the text at n
Same(n, map) == {m \in Keys(map) : text[m] = text[n]}

\* A read of a global, cached or not, answers what vm->globals holds under
\* that text, though the cache compares addresses and the host, the script
\* and accumulating loops all store.
GlobalsExact ==
    \A n \in consts :
        {map \in {GlobalAnswer(n)} : map # None} = {globals[m] : m \in Same(n, globals)}

\* A field or method access, cached or not, finds the field or method that the
\* struct has under that text, though both addresses may have been those of
\* another struct and another string when the entry was made.
MembersExact ==
    \A k \in live, n \in consts :
        /\ FieldAnswer(k, n) = fields[k][n]
        /\ \A m \in FieldsOf(k) : text[m] = text[n] => m = n
        /\ MethodAnswer(k, n) = methods[k][n]
        /\ Same(n, methods[k]) \subseteq {n}
=============================================================================
