---------------------------- MODULE SymbolIndex ----------------------------
(***************************************************************************)
(* The symbol index (server/src/index.rs) and the completion queries over  *)
(* it (server/src/index_query.rs).                                         *)
(*                                                                         *)
(* An index holds files, the symbols they declare and the lookup maps      *)
(* built from both.  One index is built per add-on from whole groups of    *)
(* file contributions; the server then layers the indexes: each keeps its  *)
(* own symbols, its file ids are rebased behind those of the layers before *)
(* it, and only the maps are merged.  Completion walks a class, the other  *)
(* declarations of it, and its bases, and keeps one member per key.        *)
(*                                                                         *)
(* Identities are 1-based here: a file is a position in the files of its   *)
(* layer plus the base of the layer, a symbol is <<file, position>>.       *)
(* Texts, spans, modifiers and signatures are left out: a callable is told *)
(* apart by the types of its parameters and its own type.                  *)
(***************************************************************************)
EXTENDS Integers, FiniteSets, Sequences, SequencesExt, TLC

CONSTANTS
    Contributions,  \* the file contributions callers may add
    None,           \* no parent, base or type
    MaxFiles,       \* bound on the files added over all layers
    MaxLayers,      \* bound on the layers
    MaxGroup        \* bound on the contributions added by one call

VARIABLES
    layers,     \* the indexes that will be layered, in order
    sources     \* history: the contributions each layer was built from

vars == <<layers, sources>>

------------------------------------------------------------------------------
(* Lookup maps.                                                              *)

\* The ids of each key, in the order of the symbols.
Grouped(entries) ==
    [k \in {entries[i][1] : i \in DOMAIN entries} |->
        LET mine == SelectSeq(entries, LAMBDA e : e[1] = k)
        IN  [i \in DOMAIN mine |-> mine[i][2]]]

Lookup(map, key) == IF key \in DOMAIN map THEN map[key] ELSE <<>>

KeyedBy(symbols, Takes(_), Key(_)) ==
    LET taken == SelectSeq(symbols, Takes)
    IN  Grouped([i \in DOMAIN taken |-> <<Key(taken[i]), taken[i].id>>])

MemberKinds == {"Field", "Method", "Constructor", "Destructor"}

\* The class a symbol is a member of, looked up through the ranges of the files.
OwnerOf(files, symbols, symbol) ==
    IF symbol.parent = None \/ symbol.parent[1] > Len(files) THEN None
    ELSE LET file  == files[symbol.parent[1]]
             local == symbol.parent[2]
         IN  IF local > file.count THEN None
             ELSE LET parent == symbols[file.start + local]
                  IN  IF parent.kind = "Class" THEN parent.name ELSE None

LookupMaps(files, symbols) ==
    LET Owner(s)         == OwnerOf(files, symbols, s)
        Name(s)          == s.name
        OwnerAndName(s)  == <<Owner(s), s.name>>
        Named(kind)      == KeyedBy(symbols, LAMBDA s : s.kind = kind, Name)
        MembersOf(kinds, Key(_)) ==
            KeyedBy(symbols, LAMBDA s : s.kind \in kinds /\ Owner(s) # None, Key)
    IN  [by_name     |-> KeyedBy(symbols, LAMBDA s : TRUE, Name),
         top_level   |-> KeyedBy(symbols, LAMBDA s : s.parent = None, Name),
         by_kind     |-> KeyedBy(symbols, LAMBDA s : TRUE, LAMBDA s : s.kind),
         children    |-> KeyedBy(symbols, LAMBDA s : s.parent # None,
                                 LAMBDA s : s.parent),
         classes     |-> Named("Class"),
         typedefs    |-> Named("Typedef"),
         functions   |-> Named("Function"),
         members     |-> MembersOf(MemberKinds, Owner),
         methods     |-> MembersOf({"Method"}, OwnerAndName),
         fields      |-> MembersOf({"Field"}, OwnerAndName)]

MapNames == {"by_name", "top_level", "by_kind", "children", "classes",
             "typedefs", "functions", "members", "methods", "fields"}

------------------------------------------------------------------------------
(* Building one index.                                                       *)

\* FileContribution::validate: dense ids, a name each, and existing parents.
Valid(contribution) ==
    \A i \in DOMAIN contribution.symbols :
        LET symbol == contribution.symbols[i]
        IN  /\ symbol.name # None
            /\ symbol.id = i
            /\ symbol.parent = None \/ symbol.parent \in DOMAIN contribution.symbols

Rebuilt(files, symbols, base) ==
    [files |-> files, symbols |-> symbols, base |-> base,
     maps  |-> LookupMaps(files, symbols)]

EmptyIndex == Rebuilt(<<>>, <<>>, 0)

Retained(projection, symbol) ==
    projection = "full" \/ symbol.kind # "LocalVariable"

\* The position each retained declaration gets once the others are skipped.
Dense(projection, symbols) ==
    [i \in DOMAIN symbols |->
        IF Retained(projection, symbols[i])
        THEN Len(SelectSeq(SubSeq(symbols, 1, i),
                           LAMBDA s : Retained(projection, s)))
        ELSE None]

Append_file_contribution(index, contribution, projection) ==
    LET file     == Len(index.files) + 1
        dense    == Dense(projection, contribution.symbols)
        Global(i) == IF i = None \/ dense[i] = None THEN None ELSE <<file, dense[i]>>
        kept     == SelectSeq(contribution.symbols,
                              LAMBDA s : Retained(projection, s))
        added    == [i \in DOMAIN kept |->
                        [id     |-> Global(kept[i].id),
                         parent |-> Global(kept[i].parent),
                         kind   |-> kept[i].kind,
                         name   |-> kept[i].name,
                         type   |-> kept[i].type]]
    IN  [index EXCEPT
            !.files = Append(@, [id       |-> file,
                                 priority |-> contribution.priority,
                                 editor   |-> contribution.editor,
                                 start    |-> Len(index.symbols),
                                 count    |-> Len(kept)]),
            !.symbols = @ \o added]

\* The whole group is appended, then the maps are rebuilt once.
Added(index, group, projection) ==
    LET appended == FoldLeft(LAMBDA built, c :
                                Append_file_contribution(built, c, projection),
                             index, group)
    IN  Rebuilt(appended.files, appended.symbols, 0)

\* without_symbol_kind for local variables: the runtime-cache shape of an index.
Compact(index) ==
    LET Kept(s)     == s.kind # "LocalVariable"
        Of(f)       == SubSeq(index.symbols, f.start + 1, f.start + f.count)
        Position(id) == LET file == index.files[id[1]]
                        IN  Len(SelectSeq(SubSeq(index.symbols, file.start + 1,
                                                 file.start + id[2]), Kept))
        Remapped(id) ==
            IF id = None THEN None
            ELSE IF ~Kept(index.symbols[index.files[id[1]].start + id[2]]) THEN None
            ELSE <<id[1], Position(id)>>
        symbols == LET kept == SelectSeq(index.symbols, Kept)
                   IN  [i \in DOMAIN kept |->
                           [kept[i] EXCEPT !.id = Remapped(@), !.parent = Remapped(@)]]
        Count(f) == Len(SelectSeq(Of(f), Kept))
        files == [i \in DOMAIN index.files |->
                    [index.files[i] EXCEPT
                        !.start = Len(SelectSeq(SubSeq(index.symbols, 1, @), Kept)),
                        !.count = Count(index.files[i])]]
    IN  Rebuilt(files, symbols, 0)

------------------------------------------------------------------------------
(* Layering.                                                                 *)

\* Mutant: the parents under which children are found keep their file ids.
RebasedButParents(index, base) ==
    LET Id(id)   == IF id = None THEN None ELSE <<id[1] + base, id[2]>>
        Map(map) == [k \in DOMAIN map |-> [i \in DOMAIN map[k] |-> Id(map[k][i])]]
    IN  [files   |-> [i \in DOMAIN index.files |-> [index.files[i] EXCEPT !.id = @ + base]],
         symbols |-> [i \in DOMAIN index.symbols |->
                        [index.symbols[i] EXCEPT !.id = Id(@), !.parent = Id(@)]],
         base    |-> base,
         maps    |-> [m \in MapNames |-> Map(index.maps[m])]]

Rebased(index, base) ==
    LET Id(id)    == IF id = None THEN None ELSE <<id[1] + base, id[2]>>
        Moved(seq)  == [i \in DOMAIN seq |-> Id(seq[i])]
        Map(map)  == [k \in DOMAIN map |-> Moved(map[k])]
        Children  == LET old == index.maps.children
                     IN  [k \in {Id(p) : p \in DOMAIN old} |->
                             Moved(old[CHOOSE p \in DOMAIN old : Id(p) = k])]
    IN  [files   |-> [i \in DOMAIN index.files |->
                        [index.files[i] EXCEPT !.id = @ + base]],
         symbols |-> [i \in DOMAIN index.symbols |->
                        [index.symbols[i] EXCEPT !.id = Id(@), !.parent = Id(@)]],
         base    |-> base,
         maps    |-> [m \in MapNames |->
                        IF m = "children" THEN Children ELSE Map(index.maps[m])]]

MergedMap(rebased, name) ==
    LET Of(i) == rebased[i].maps[name]
    IN  [k \in UNION {DOMAIN Of(i) : i \in DOMAIN rebased} |->
            FoldLeft(LAMBDA ids, index : ids \o Lookup(index.maps[name], k),
                     <<>>, rebased)]

\* A layered view: the rebased layers, shallow files and merged maps.
Layered(indexes) ==
    LET Base(i)  == FoldLeft(LAMBDA n, index : n + Len(index.files),
                             0, SubSeq(indexes, 1, i - 1))
        rebased  == [i \in DOMAIN indexes |-> Rebased(indexes[i], Base(i))]
    IN  [layers |-> rebased,
         files  |-> FoldLeft(LAMBDA files, index : files \o index.files, <<>>, rebased),
         maps   |-> [m \in MapNames |-> MergedMap(rebased, m)]]

\* An index that is not layered answers for itself.
Plain(index) == [layers |-> <<index>>, files |-> index.files, maps |-> index.maps]

FileIn(index, file) ==
    IF file > index.base /\ file - index.base <= Len(index.files)
    THEN index.files[file - index.base] ELSE None

SymbolIn(index, id) ==
    LET file == FileIn(index, id[1])
    IN  IF file = None THEN None
        ELSE IF id[2] > file.count THEN None
        ELSE index.symbols[file.start + id[2]]

FirstAnswer(view, Ask(_)) ==
    LET answers == SelectSeq([i \in DOMAIN view.layers |-> Ask(view.layers[i])],
                             LAMBDA a : a # None)
    IN  IF answers = <<>> THEN None ELSE Head(answers)

File(view, file) == FirstAnswer(view, LAMBDA index : FileIn(index, file))

Symbol(view, id) == FirstAnswer(view, LAMBDA index : SymbolIn(index, id))

SymbolIter(view) ==
    FoldLeft(LAMBDA all, index : all \o index.symbols, <<>>, view.layers)

------------------------------------------------------------------------------
(* Preference and inheritance.                                               *)

Priority(view, id) ==
    LET file == File(view, id[1]) IN IF file = None THEN 0 ELSE file.priority

Earlier(left, right) ==
    left[1] < right[1] \/ (left[1] = right[1] /\ left[2] < right[2])

PreferredOver(view, left, right) ==
    LET l == Priority(view, left)
        r == Priority(view, right)
    IN  l > r \/ (l = r /\ Earlier(left, right))

Preferred(view, ids) ==
    SortSeq(ids, LAMBDA left, right : PreferredOver(view, left, right))

BaseOf(view, class) == Symbol(view, class).type

\* The first declaration of the class, in order of preference, that names a base.
FirstBase(view, classes) ==
    LET based == SelectSeq(classes, LAMBDA c : BaseOf(view, c) # None)
    IN  IF based = <<>> THEN None ELSE BaseOf(view, Head(based))

\* One class of the walk: its declarations' members, each a segment, then its base.
WalkStep(view, walk) ==
    IF walk.owner = None THEN walk
    ELSE IF walk.owner \in walk.visited THEN [walk EXCEPT !.owner = None]
    ELSE LET classes == Preferred(view, Lookup(view.maps.classes, walk.owner))
             Members(c) == SelectSeq(Lookup(view.maps.children, c),
                                     LAMBDA m : Symbol(view, m).kind \in MemberKinds)
         IN  [owner    |-> FirstBase(view, classes),
              visited  |-> walk.visited \cup {walk.owner},
              segments |-> walk.segments \o [i \in DOMAIN classes |-> Members(classes[i])]]

\* More steps than there are classes, so a walk without a cycle is over.
Walk(view, owner) ==
    FoldLeft(LAMBDA walk, i : WalkStep(view, walk),
             [owner |-> owner, visited |-> {}, segments |-> <<>>],
             [i \in 1 .. Cardinality(DOMAIN view.maps.classes) + 2 |-> i])

MemberKey(view, id) ==
    LET symbol == Symbol(view, id)
        shape  == LET parameters == SelectSeq(Lookup(view.maps.children, id),
                            LAMBDA c : Symbol(view, c).kind = "Parameter")
                  IN  [i \in DOMAIN parameters |-> Symbol(view, parameters[i]).type]
    IN  CASE symbol.kind = "Field" -> <<"Field", symbol.name>>
          [] symbol.kind = "Method" -> <<"Method", symbol.name, shape, symbol.type>>
          [] OTHER -> <<symbol.kind, symbol.name, shape>>

------------------------------------------------------------------------------
(* Completion.                                                               *)

Flat(segments) == FoldLeft(LAMBDA ids, segment : ids \o segment, <<>>, segments)

\* Distinct keys in the order they first occur.
KeyOrder(view, ids) ==
    FoldLeft(LAMBDA keys, id : IF MemberKey(view, id) \in ToSet(keys) THEN keys
                               ELSE Append(keys, MemberKey(view, id)),
             <<>>, ids)

\* Mutant: what a later segment shadows replaces what was shadowed.
TakeKeyForgetting(view, segment, lookup, key) ==
    LET ids  == SelectSeq(segment, LAMBDA id : MemberKey(view, id) = key)
        best == Head(Preferred(view, ids))
    IN  IF key \in DOMAIN lookup.kept
        THEN [lookup EXCEPT !.shadowed[key] = ids]
        ELSE [members  |-> Append(lookup.members, best),
              kept     |-> (key :> best) @@ lookup.kept,
              shadowed |-> (key :> SelectSeq(ids, LAMBDA id : id # best))
                                @@ lookup.shadowed]

\* The first segment with a key decides what it keeps; all else is shadowed.
TakeKey(view, segment, lookup, key) ==
    LET ids  == SelectSeq(segment, LAMBDA id : MemberKey(view, id) = key)
        best == Head(Preferred(view, ids))
    IN  IF key \in DOMAIN lookup.kept
        THEN [lookup EXCEPT !.shadowed[key] = @ \o ids]
        ELSE [members  |-> Append(lookup.members, best),
              kept     |-> (key :> best) @@ lookup.kept,
              shadowed |-> (key :> SelectSeq(ids, LAMBDA id : id # best))
                                @@ lookup.shadowed]

CompletionFrom(view, segments) ==
    FoldLeft(LAMBDA lookup, segment :
                FoldLeft(LAMBDA l, key : TakeKey(view, segment, l, key),
                         lookup, KeyOrder(view, segment)),
             [members |-> <<>>, kept |-> <<>>, shadowed |-> <<>>], segments)

\* IndexQuery: only some source categories are offered in an editor.
IsEditorSource(view, id) == File(view, id[1]).editor

EditorClass(view, name) ==
    LET offered == SelectSeq(Preferred(view, Lookup(view.maps.classes, name)),
                             LAMBDA id : IsEditorSource(view, id))
    IN  IF offered = <<>> THEN None ELSE Head(offered)

OriginRank(view, owner, class, id) ==
    LET parent == Symbol(view, id).parent
    IN  IF Symbol(view, parent).name # owner THEN 2 ELSE IF parent = class THEN 0 ELSE 1

\* All declarations here have one form; callables are not ranked by theirs.
EditorPrefers(view, owner, class, left, right) ==
    LET l == OriginRank(view, owner, class, left)
        r == OriginRank(view, owner, class, right)
    IN  l < r \/ (l = r /\ PreferredOver(view, left, right))

\* What the editor keeps for each key among all candidates of the walk.
EditorKept(view, owner) ==
    LET Best(class, raw, key) ==
            Head(SortSeq(SelectSeq(raw, LAMBDA id : MemberKey(view, id) = key),
                         LAMBDA l, r : EditorPrefers(view, owner, class, l, r)))
        Kept(class, raw) ==
            IF class = None THEN <<>>
            ELSE [key \in ToSet(KeyOrder(view, raw)) |-> Best(class, raw, key)]
    IN  Kept(EditorClass(view, owner),
             SelectSeq(Flat(Walk(view, owner).segments),
                       LAMBDA id : IsEditorSource(view, id)))

\* The type a typedef names, when it is not the typedef itself.
TypedefTarget(view, name) ==
    LET offered == SelectSeq(Preferred(view, Lookup(view.maps.typedefs, name)),
                             LAMBDA id : IsEditorSource(view, id))
        target  == Symbol(view, Head(offered)).type
    IN  IF offered = <<>> THEN None ELSE IF target = name THEN None ELSE target

\* completion_static_members_for_type calls itself with the target of a typedef
\* when no class has the name.
StaticStep(view, name) ==
    IF name = None \/ EditorClass(view, name) # None THEN None
    ELSE TypedefTarget(view, name)

StaticEnd(view, name) ==
    FoldLeft(LAMBDA at, i : StaticStep(view, at), name,
             [i \in 1 .. Cardinality(DOMAIN view.maps.typedefs) + 1 |-> i])

------------------------------------------------------------------------------
(* Building the layers.                                                      *)

Init ==
    /\ layers = <<EmptyIndex>>
    /\ sources = <<<<>>>>

FileCount == FoldLeft(LAMBDA n, layer : n + Len(layer), 0, sources)

\* add_file_contributions: one invalid contribution rejects the whole group.
AddContributions(group) ==
    /\ FileCount + Len(group) <= MaxFiles
    /\ \A i \in DOMAIN group : Valid(group[i])
    /\ layers' = [layers EXCEPT ![Len(layers)] = Added(@, group, "full")]
    /\ sources' = [sources EXCEPT ![Len(sources)] = @ \o group]

\* Mutant: the sources of the layer before are taken for those of the new one.
NewLayerOfOldSources ==
    /\ Len(layers) < MaxLayers
    /\ layers[Len(layers)].files # <<>>
    /\ layers' = Append(layers, EmptyIndex)
    /\ UNCHANGED sources

\* The next add-on's index is started.
NewLayer ==
    /\ Len(layers) < MaxLayers
    /\ layers[Len(layers)].files # <<>>
    /\ layers' = Append(layers, EmptyIndex)
    /\ sources' = Append(sources, <<>>)

Next ==
    \/ \E n \in 1 .. MaxGroup : \E group \in [1 .. n -> Contributions] :
            AddContributions(group)
    \/ NewLayer

Spec == Init /\ [][Next]_vars

------------------------------------------------------------------------------
(* Properties.                                                               *)

View == Layered(layers)

TypeOK ==
    /\ Len(layers) = Len(sources) /\ Len(layers) \in 1 .. MaxLayers
    /\ FileCount <= MaxFiles
    /\ \A i \in DOMAIN layers : DOMAIN layers[i].maps = MapNames

\* Two views answer every query alike: the same files, the same ids under every
\* key in the same order, and the same symbol for every id, none past the end.
AnswerAlike(view, flat) ==
    /\ \A i \in DOMAIN flat.files :
            /\ view.files[i] = File(view, i)
            /\ File(view, i).priority = flat.files[i].priority
    /\ view.maps = flat.maps
    /\ SymbolIter(view) = SymbolIter(flat)
    /\ \A file \in 1 .. MaxFiles + 1, i \in 1 .. Len(SymbolIter(flat)) + 1 :
            Symbol(view, <<file, i>>) = Symbol(flat, <<file, i>>)

\* Layering indexes answers every query as one index of all their files would.
LayeredIsFlat ==
    AnswerAlike(View, Plain(Added(EmptyIndex, Flat(sources), "full")))

\* Building an index in the shape of the cache gives exactly what compacting the
\* full index gives: local variables are gone, every other symbol keeps its
\* parent, and an id in the maps names the symbol it stands for.
ProjectionIsCompaction ==
    LET Compacts(cached, full) ==
            /\ cached = Compact(full)
            /\ \A n \in DOMAIN full.maps.members :
                    Len(Lookup(cached.maps.members, n)) = Len(full.maps.members[n])
            /\ \A k \in DOMAIN cached.symbols :
                    SymbolIn(cached, cached.symbols[k].id) = cached.symbols[k]
    IN  \A i \in DOMAIN layers :
            Compacts(Added(EmptyIndex, sources[i], "cache"), layers[i])

\* A walk over the bases of a class ends, cycles included, and completion loses
\* no candidate: each is kept or shadowed once, under its own key, and what is
\* kept comes from the earliest declaration that has the key.
CompletionIsComplete ==
    LET At(segments, id) == CHOOSE s \in DOMAIN segments : id \in ToSet(segments[s])
        Found(segments, result, id, key) ==
            /\ (id = result.kept[key]) # (id \in ToSet(result.shadowed[key]))
            /\ At(segments, result.kept[key]) <= At(segments, id)
            /\ IsInjective(result.shadowed[key])
        LosesNothing(view, segments, raw, result) ==
            /\ IsInjective(raw)
            /\ \A id \in ToSet(raw) : Found(segments, result, id, MemberKey(view, id))
            /\ ToSet(result.members) = {result.kept[k] : k \in DOMAIN result.kept}
        Completes(view, walk) ==
            /\ walk.owner = None
            /\ LosesNothing(view, walk.segments, Flat(walk.segments),
                            CompletionFrom(view, walk.segments))
        Complete(view) ==
            \A owner \in DOMAIN view.maps.classes : Completes(view, Walk(view, owner))
    IN  Complete(View)

\* The editor offers a member of the class itself before an inherited one of the
\* same key, whatever the priorities of their files.
DirectMembersWin ==
    LET Own(view, owner, id) == Symbol(view, Symbol(view, id).parent).name = owner
        Wins(view, owner, kept) ==
            kept # <<>> =>
                \A id \in ToSet(Flat(Walk(view, owner).segments)) :
                    IsEditorSource(view, id) /\ Own(view, owner, id)
                    => Own(view, owner, kept[MemberKey(view, id)])
        Win(view) ==
            \A owner \in DOMAIN view.maps.classes :
                Wins(view, owner, EditorKept(view, owner))
    IN  Win(View)

\* Layered, cached or built at once: an index answers the same.
LayersAgree == LayeredIsFlat /\ ProjectionIsCompaction

\* Completion loses nothing and puts a class's own members first.
MembersAreOffered == CompletionIsComplete /\ DirectMembersWin

\* Looking up the static members of a type ends for every typedef, as the member
\* lookups through bases do
\* (server/src/index.rs:3384 preferred_class_completion_stops_on_cycles).
StaticLookupEnds ==
    LET view == View
    IN  \A name \in DOMAIN view.maps.typedefs : StaticEnd(view, name) = None

=============================================================================
