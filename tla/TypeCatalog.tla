----------------------------- MODULE TypeCatalog -----------------------------
(* The C types of one binary in types.db, and what processes of               *)
(* static/annotations do with them (struct_db.py, structs.py,                  *)
(* typed_struct_refs.py, typed_var_bindings.py): definitions are saved and     *)
(* imported, applied to addresses, bound to variables, laid out in memory and  *)
(* expanded into the chains of fields that the pseudo-C shows.                 *)
(*                                                                          *)
(* A definition has a kind and its fields in order; a field has the type it    *)
(* names, whether it is a pointer, and how many elements.  Names of fields are *)
(* their numbers.                                                           *)
EXTENDS Integers, FiniteSetsExt, SequencesExt

CONSTANTS
    TypeNames,
    TypeClients,     \* processes that write the database
    MaxTypes,        \* MAX_DEFINITIONS
    MaxRefs,         \* MAX_TYPED_REFS
    MaxBindings,     \* MAX_TYPED_VAR_BINDINGS, and per function
    TypeScopes       \* a catalog, what is asked of it and how often

Primitive == [char |-> 1, int |-> 4]
Defined == TypeNames \cup DOMAIN Primitive \cup {"void"}
Field == [type : Defined, pointer : 0..1, count : 1..2]

ASSUME TypeAssumption ==
    /\ TypeNames \cap (DOMAIN Primitive \cup {"void"}) = {}
    /\ {MaxTypes, MaxRefs, MaxBindings} \subseteq Nat
    /\ IsFiniteSet(TypeClients) /\ TypeClients # {}
    /\ \A s \in TypeScopes :
          /\ s.changes \in Nat /\ s.word \in {4, 8} /\ DOMAIN s.catalog \subseteq TypeNames
          /\ IsFiniteSet(DOMAIN s.bound) /\ Cardinality(DOMAIN s.bound) <= MaxBindings
          /\ \A v \in DOMAIN s.bound : s.bound[v].type \in DOMAIN s.catalog

VARIABLES
    typeScope,
    catalog,         \* definitions, by name
    refs,            \* types applied to addresses, with the layout they had
    bindings,        \* types of variables: at most one per variable
    typist,          \* the processes
    changed          \* operations begun

typeVars == <<typeScope, catalog, refs, bindings, typist, changed>>

Word == typeScope.word
NoTypes == [n \in {} |-> <<>>]

-----------------------------------------------------------------------------
(* Layouts (structs.py) *)

\* _resolve_typedef_chain: the type an alias stands for and the pointers on the way;
\* aliases that go in circles are refused.
Aliased(types, name) ==
    LET Follow[seen \in SUBSET TypeNames, t \in Defined] ==
            IF t \notin DOMAIN types \/ types[t].kind # "typedef"
            THEN [type |-> t, pointers |-> 0, ends |-> TRUE]
            ELSE IF t \in seen THEN [type |-> t, pointers |-> 0, ends |-> FALSE]
            ELSE LET f == types[t].fields[1]
                     rest == Follow[seen \cup {t}, f.type]
                 IN [rest EXCEPT !.pointers = @ + f.pointer]
    IN Follow[{}, name]

NoLayout == [size |-> 0, align |-> 0, fields |-> <<>>]

KindOf(types, t) == IF t \in DOMAIN types THEN types[t].kind ELSE "none"

Only(S) == CHOOSE x \in S : TRUE

AlignUp(value, alignment) == ((value + alignment - 1) \div alignment) * alignment

\* The next field of a struct or union of which a part is laid out already, when an
\* element of it has this size and alignment (0 for a type that cannot be laid out).
Extended(layout, at, end, align) ==
    [size |-> Max({layout.size, end}), align |-> Max({layout.align, align}),
     fields |-> Append(layout.fields, [at |-> at, end |-> end, align |-> align])]
Placed(layout, kind, element, count) ==
    IF layout = NoLayout \/ element[2] = 0 THEN NoLayout
    ELSE LET at == IF kind = "union" THEN 0 ELSE AlignUp(layout.size, element[2])
         IN Extended(layout, at, at + element[1] * count, element[2])

\* What is no struct or union: a pointer, a function, an enum, a primitive.
Scalar(pointers, kind, type, word) ==
    CASE pointers > 0 \/ kind = "function" -> <<word, word>>
      [] pointers = 0 /\ kind = "enum" -> <<4, 4>>
      [] OTHER -> IF type \in DOMAIN Primitive THEN <<Primitive[type], Primitive[type]>> ELSE <<0, 0>>

Rounded(layout) ==
    IF layout = NoLayout THEN NoLayout ELSE [layout EXCEPT !.size = AlignUp(@, layout.align)]

\* compute_struct_layout.  A type that holds itself is refused, as is one that holds what
\* is unknown; that a type laid out once is not laid out again changes nothing.
Layout(types, name, word) ==
    LET Build[holders \in SUBSET TypeNames, n \in Defined] ==
            LET Whole(t) == IF t.ends /\ KindOf(types, t.type) \in {"struct", "union"}
                            THEN Build[holders \cup {n}, t.type] ELSE NoLayout
                Element(f, a) ==
                    IF a.ends /\ f.pointer + a.pointers = 0 /\ KindOf(types, a.type) \in {"struct", "union"}
                    THEN LET nested == Whole(a) IN <<nested.size, nested.align>>
                    ELSE IF a.ends THEN Scalar(f.pointer + a.pointers, KindOf(types, a.type), a.type, word)
                    ELSE <<0, 0>>
                Place(layout, f) ==
                    Placed(layout, types[n].kind, Element(f, Aliased(types, f.type)), f.count)
            IN CASE n \in holders \/ KindOf(types, n) \in {"none", "enum"} -> NoLayout
                 [] n \notin holders /\ KindOf(types, n) = "typedef" -> Whole(Aliased(types, n))
                 [] OTHER -> Rounded(FoldLeft(Place, [NoLayout EXCEPT !.align = 1], types[n].fields))
    IN Build[{}, name]

-----------------------------------------------------------------------------
(* Chains of fields (typed_var_bindings.py) *)

Depth == 3           \* _MAX_FIELD_CHAIN_DEPTH

\* The struct or union that a field points to, by one pointer.
Pointee(types, f) ==
    LET a == Aliased(types, f.type) IN
    IF f.pointer + a.pointers = 1 /\ KindOf(types, a.type) \in {"struct", "union"} THEN {a.type} ELSE {}

\* _expand_struct_fields: the offset of every field that can be reached over pointers,
\* without passing a type twice; the last of a union's fields is the one that is shown.
Expand(types, name, word) ==
    LET Follow[met \in SUBSET TypeNames, t \in Defined, depth \in 0..(Depth + 1)] ==
            LET From(f, link, shown) ==
                    (IF shown THEN {<<link>>} ELSE {})
                    \cup UNION {{<<link>> \o rest : rest \in Follow[met \cup {t}, u, depth + 1]} :
                                   u \in Pointee(types, f)}
                Fields(held, places) ==
                    UNION {From(held[i], <<i, places[i].at>>,
                                \A j \in DOMAIN places : places[j].at = places[i].at => j <= i) :
                           i \in DOMAIN places}
            IN IF depth > Depth \/ t \in met THEN {}
               ELSE Fields(types[Aliased(types, t).type].fields, Layout(types, t, word).fields)
    IN Follow[{}, name, 0]

\* build_typed_var_binding_index: what the rows of a function's variables come to.  A
\* row of an enum gives its literals, of a struct its fields if it is one pointer away.
Rewrites(rows, types, word) ==
    [v \in DOMAIN rows |->
        LET b == rows[v] IN
        CASE b.type \notin DOMAIN types -> {}
          [] b.type \in DOMAIN types /\ b.kind = "enum" -> {types[b.type].fields}
          [] b.type \in DOMAIN types /\ b.kind # "enum" ->
                 IF b.pointer = 1 THEN Expand(types, b.type, word) ELSE {}]

-----------------------------------------------------------------------------
(* The database (struct_db.py) *)

AtRest == [at |-> "idle", order |-> [kind |-> "none"], fields |-> <<>>]

TypeInit ==
    /\ typeScope \in TypeScopes /\ catalog = typeScope.catalog
    /\ refs = NoTypes /\ bindings = typeScope.bound
    /\ typist = [c \in TypeClients |-> AtRest] /\ changed = 0

\* What goes with a definition when its row goes: ON DELETE CASCADE.
Without(names) ==
    LET kept == {v \in DOMAIN bindings : bindings[v].type \notin names} IN
    [v \in kept |-> bindings[v]]

\* save_struct_source: every definition is replaced, in one transaction.
SaveSource(c, order) ==
    /\ order.kind = "source" /\ Cardinality(DOMAIN order.types) <= MaxTypes
    /\ catalog' = order.types /\ bindings' = Without(DOMAIN catalog)
    /\ UNCHANGED <<typeScope, refs, typist>>

\* get_typed_data lays the type out, for the user to apply it.
LayOut(c, order) ==
    /\ order.kind = "apply" /\ order.type \in DOMAIN catalog
    /\ Layout(catalog, order.type, Word) # NoLayout
    /\ typist' = [typist EXCEPT ![c] = [at |-> "count", order |-> order,
                                       fields |-> Layout(catalog, order.type, Word).fields]]
    /\ UNCHANGED <<typeScope, catalog, refs, bindings>>

\* Counts against the limits are read before the transaction begins.
Fits(order) ==
    CASE order.kind = "import" -> Cardinality(DOMAIN catalog \cup DOMAIN order.types) <= MaxTypes
      [] order.kind = "apply" -> <<order.addr, order.type>> \in DOMAIN refs \/ Cardinality(DOMAIN refs) < MaxRefs
      [] order.kind = "bind" -> order.var \in DOMAIN bindings \/ Cardinality(DOMAIN bindings) < MaxBindings

Count(c, order) ==
    /\ \/ typist[c].at = "idle" /\ order.kind \in {"import", "bind"}
       \/ typist[c].at = "count" /\ order = typist[c].order
    /\ typist' = [typist EXCEPT ![c] = IF Fits(order) THEN [at |-> "write", order |-> order, fields |-> @.fields]
                                       ELSE AtRest]
    /\ UNCHANGED <<typeScope, catalog, refs, bindings>>

BeginChange(c) ==
    /\ typist[c].at = "idle" /\ changed < typeScope.changes /\ changed' = changed + 1
    /\ \E order \in typeScope.orders :
          SaveSource(c, order) \/ LayOut(c, order) \/ Count(c, order)

ContinueApply(c) == typist[c].at = "count" /\ Count(c, typist[c].order) /\ UNCHANGED changed

\* import_type_definitions: each name is deleted and inserted again, with all that
\* refers to it.
WriteImport(c) ==
    LET order == typist[c].order IN
    /\ typist[c].at = "write" /\ order.kind = "import"
    /\ catalog' = [n \in DOMAIN catalog \cup DOMAIN order.types |->
                      IF n \in DOMAIN order.types THEN order.types[n] ELSE catalog[n]]
    /\ bindings' = Without(DOMAIN order.types)
    /\ typist' = [typist EXCEPT ![c] = AtRest] /\ UNCHANGED <<typeScope, refs, changed>>

\* save_typed_ref
WriteRef(c) ==
    LET order == typist[c].order
        key == <<order.addr, order.type>>
    IN
    /\ typist[c].at = "write" /\ order.kind = "apply"
    /\ refs' = [k \in DOMAIN refs \cup {key} |-> IF k = key THEN typist[c].fields ELSE refs[k]]
    /\ typist' = [typist EXCEPT ![c] = AtRest] /\ UNCHANGED <<typeScope, catalog, bindings, changed>>

\* Mutant: the reference is trusted as it was when the type was chosen.
ReferenceUnchecked(t) == TRUE

\* The foreign key of a binding, enforced when it is written.
Referable(t) == t \in DOMAIN catalog

\* save_typed_var_binding
WriteBinding(c) ==
    LET order == typist[c].order
        row == [type |-> order.type, kind |-> order.as, pointer |-> order.pointer]
    IN
    /\ typist[c].at = "write" /\ order.kind = "bind"
    /\ bindings' = IF ~Referable(order.type) THEN bindings
                   ELSE [v \in DOMAIN bindings \cup {order.var} |->
                            IF v = order.var THEN row ELSE bindings[v]]
    /\ typist' = [typist EXCEPT ![c] = AtRest] /\ UNCHANGED <<typeScope, catalog, refs, changed>>

TypeNext ==
    \E c \in TypeClients :
        \/ BeginChange(c) \/ ContinueApply(c)
        \/ WriteImport(c) \/ WriteRef(c) \/ WriteBinding(c)

TypeSpec == TypeInit /\ [][TypeNext]_typeVars

-----------------------------------------------------------------------------
(* Properties *)

TypesTypeOK ==
    /\ DOMAIN catalog \subseteq TypeNames /\ changed \in 0..typeScope.changes
    /\ \A n \in DOMAIN catalog :
          /\ catalog[n].kind \in {"struct", "union", "enum", "typedef", "function"}
          /\ \A i \in DOMAIN catalog[n].fields : catalog[n].fields[i] \in Field
    /\ \A v \in DOMAIN bindings : bindings[v].type \in TypeNames
    /\ \A c \in TypeClients : typist[c].at \in {"idle", "count", "write"}

\* What a type holds by value, through its aliases.
Holds(n) ==
    LET Held(f, a) == IF a.ends /\ f.pointer + a.pointers = 0 THEN {a.type} ELSE {}
    IN UNION {Held(f, Aliased(catalog, f.type)) : f \in ToSet(catalog[n].fields)}
Compounds == {n \in DOMAIN catalog : catalog[n].kind \in {"struct", "union"}}
HeldWithin(n) ==
    LET Grow[k \in Nat] == IF k = 0 THEN Holds(n)
                           ELSE Grow[k - 1] \cup UNION {Holds(m) : m \in Grow[k - 1] \cap Compounds}
    IN Grow[Cardinality(TypeNames)]

\* Nothing it holds is itself, unknown, or an alias in circles.
Fillable(n, held) ==
    /\ held \subseteq DOMAIN catalog \cup DOMAIN Primitive
    /\ \A m \in (held \cup {n}) \cap Compounds :
          m \notin HeldWithin(m) /\ \A f \in ToSet(catalog[m].fields) : Aliased(catalog, f.type).ends

Follows(kind, f, end) ==
    IF kind = "union" THEN f.at = 0 ELSE f.at - end \in 0..(f.align - 1)
Fitting(kind, layout, fields) ==
    /\ layout.size % layout.align = 0
    /\ \A i \in DOMAIN fields :
          /\ fields[i].at % fields[i].align = 0 /\ layout.align % fields[i].align = 0
          /\ fields[i].at < fields[i].end /\ fields[i].end <= layout.size
          /\ Follows(kind, fields[i], IF i = 1 THEN 0 ELSE fields[i - 1].end)

\* A struct or union has a layout exactly when it can be filled; its fields are then
\* aligned and inside it, those of a struct in order, apart, and no further from one
\* another than their alignment asks (compute_struct_layout, by recursion and a stack).
LaidOut(n, layout) ==
    /\ layout # NoLayout <=> Fillable(n, HeldWithin(n))
    /\ layout # NoLayout => Fitting(catalog[n].kind, layout, layout.fields)
LayoutsFit == \A n \in Compounds : LaidOut(n, Layout(catalog, n, Word))

\* A chain of fields is a walk over pointers from the bound type that meets no name
\* twice (the alias it was bound by counts as one), and its offsets are those of the
\* types it passes (_expand_struct_fields).
LinkFits(layout, link) == link[1] \in DOMAIN layout.fields /\ layout.fields[link[1]].at = link[2]
ChainFollows(layouts, n, chain) ==
    LET Passed[k \in Nat] ==
            IF k = 1 THEN n
            ELSE Only(Pointee(catalog, catalog[Aliased(catalog, Passed[k - 1]).type].fields[chain[k - 1][1]]))
    IN /\ Len(chain) <= Depth + 1
       /\ \A k \in DOMAIN chain : LinkFits(layouts[Passed[k]], chain[k])
       /\ \A j, k \in DOMAIN chain : j < k => Passed[j] # Passed[k]
ChainsFollow ==
    LET layouts == [n \in DOMAIN catalog |-> Layout(catalog, n, Word)] IN
    \A n \in DOMAIN catalog : \A chain \in Expand(catalog, n, Word) : ChainFollows(layouts, n, chain)

\* A binding always names a definition, whatever is saved, imported and bound at once
\* (the foreign key of typed_var_bindings and its cascade).
BindingsRefer == \A v \in DOMAIN bindings : bindings[v].type \in DOMAIN catalog

\* The limits on rows are passed by no more than the writers that counted together.
WithinLimits ==
    LET together == Cardinality(TypeClients) - 1 IN
    /\ Cardinality(DOMAIN refs) <= MaxRefs + together
    /\ Cardinality(DOMAIN bindings) <= MaxBindings + together

\* The definitions can be laid out and followed, and nothing refers to what is gone.
TypesSound == LayoutsFit /\ ChainsFollow /\ BindingsRefer /\ WithinLimits
=============================================================================
