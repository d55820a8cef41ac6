------------------------------ MODULE ConfigLoad ------------------------------
(***************************************************************************)
(* Config::load: the main file, the conf.d files merged over it, the       *)
(* profile files put on top, and validate with its search for cascades     *)
(* that close.  A TOML document is a function from its places, each the    *)
(* sequence of keys that leads there, <<>> for the whole document, to what *)
(* stands there                                                            *)
(*   Table   Array(items)   Scalar(v)                                      *)
(* where the items of an array are documents.  A file that is not TOML is  *)
(* Broken: nothing stands in it.  The files of one load are                *)
(*   main      a document                                                  *)
(*   confd     the documents of conf.d/*.toml, sorted by path              *)
(*   dirs      a function from directories to their profile files, sorted  *)
(*             by path, each [stem, value]                                 *)
(* Of a profile the model keeps mode, classifier and rules: what validate  *)
(* and normalize read.                                                     *)
(***************************************************************************)
EXTENDS RouteCycles, SequencesExt, FiniteSetsExt, TLC

Table == [table |-> TRUE]
Array(s) == [array |-> s]
Scalar(v) == [scalar |-> v]
Broken == <<>>

IsTable(v) == DOMAIN v = {"table"}
IsArray(v) == DOMAIN v = {"array"}
IsScalar(v) == DOMAIN v = {"scalar"}

\* The places of the tables that place p lies in.
Above(p) == {SubSeq(p, 1, n) : n \in 0 .. Len(p) - 1}

\* What a parsed file is: whatever stands somewhere stands in tables.
IsDocument(doc) ==
    /\ doc \in [DOMAIN doc -> Range(doc)] /\ <<>> \in DOMAIN doc
    /\ IsFiniteSet(DOMAIN doc) /\ DOMAIN doc \subseteq Seq(STRING)
    /\ \A p \in DOMAIN doc :
          /\ Above(p) \subseteq {q \in DOMAIN doc : IsTable(doc[q])}
          /\ IsTable(doc[p]) \/ IsArray(doc[p]) \/ IsScalar(doc[p])
          /\ IsArray(doc[p]) => /\ doc[p] = Array(doc[p].array)
                                /\ doc[p].array \in Seq(Range(doc[p].array))

-----------------------------------------------------------------------------
HasName(item) == <<"name">> \in DOMAIN item /\ IsScalar(item[<<"name">>])
SameName(v, w) == HasName(v) /\ HasName(w) /\ v[<<"name">>] = w[<<"name">>]

\* Seeded fault: an item of a known name is merged at the end of the array.
PutItemLast(items, item) ==
    LET same == {i \in DOMAIN items : SameName(items[i], item)}
    IN  Append(IF same = {} THEN items ELSE RemoveAt(items, Min(same)), item)

\* deep_merge, arrays: an item replaces the first one of its name; one without
\* a name, or with a new one, is appended.
PutItem(items, item) ==
    LET same == {i \in DOMAIN items : SameName(items[i], item)}
    IN  IF same = {} THEN Append(items, item) ELSE [items EXCEPT ![Min(same)] = item]

PutItems(items, more) ==
    LET put[n \in 0 .. Len(more)] == IF n = 0 THEN items ELSE PutItem(put[n - 1], more[n])
    IN  put[Len(more)]

\* deep_merge, which is called for the places both have: it descends into two
\* tables, puts the items of one array into the other, and else lets the overlay
\* replace what was there and below.  A key only the overlay has is inserted.
Merged(base, over) ==
    LET called == DOMAIN base \intersect DOMAIN over
        arrays == {p \in called : IsArray(base[p]) /\ IsArray(over[p])}
        tables == {p \in called : IsTable(base[p]) /\ IsTable(over[p])}
        kept == {p \in DOMAIN base : Above(p) \intersect called \subseteq tables}
    IN  [p \in kept \union DOMAIN over |->
            IF p \in arrays THEN Array(PutItems(base[p].array, over[p].array))
            ELSE IF p \in DOMAIN over THEN over[p] ELSE base[p]]

\* The conf.d files go over the main file one after the other.
MergedFiles(bottom, confd) ==
    LET merged[n \in 0 .. Len(confd)] ==
            IF n = 0 THEN bottom ELSE Merged(merged[n - 1], confd[n])
    IN  merged[Len(confd)]

-----------------------------------------------------------------------------
Get(doc, place, default) == IF place \in DOMAIN doc THEN doc[place] ELSE default
Items(doc, place) == Get(doc, place, Array(<<>>)).array
Text(doc, place) == Get(doc, place, Scalar("")).scalar
Keys(doc, place) == {Last(p) : p \in {q \in DOMAIN doc : q # <<>> /\ Front(q) = place}}

HasFields(doc, place, keys) ==
    /\ IsTable(doc[place])
    /\ \A k \in keys : IsScalar(Get(doc, Append(place, k), Table))
ItemsHave(doc, place, keys) ==
    LET v == Get(doc, place, Array(<<>>))
    IN  IsArray(v) /\ \A i \in DOMAIN v.array : HasFields(v.array[i], <<>>, keys)
EachHas(doc, place, keys) ==
    /\ IsTable(Get(doc, place, Table))
    /\ \A k \in Keys(doc, place) : HasFields(doc, Append(place, k), keys)

ProfileReads(doc, place) ==
    HasFields(doc, place, {}) /\ ItemsHave(doc, Append(place, "rules"), {"route_to"})

\* toml::from_str of the merged text: [gateway] is required, the rest is not.
Reads(tree) ==
    /\ IsTable(Get(tree, <<"gateway">>, Scalar("")))
    /\ IsScalar(Get(tree, <<"gateway", "profile_dir">>, Scalar("")))
    /\ EachHas(tree, <<"backends">>, {"base_url"})
    /\ ItemsHave(tree, <<"tiers">>, {"name", "backend", "model"})
    /\ IsTable(Get(tree, <<"aliases">>, Table))
    /\ \A k \in Keys(tree, <<"aliases">>) : IsScalar(tree[<<"aliases", k>>])
    /\ EachHas(tree, <<"profiles">>, {})
    /\ \A p \in Keys(tree, <<"profiles">>) : ProfileReads(tree, <<"profiles", p>>)
    /\ ItemsHave(tree, <<"clients">>, {"key_env", "profile"})

\* normalize: a stable sort by priority, descending.
Insert(rules, rule) ==
    LET before == {i \in DOMAIN rules : rules[i].priority >= rule.priority}
    IN  InsertAt(rules, Cardinality(before) + 1, rule)

\* ProfileConfig, its rules as normalize leaves them.
ProfileOf(doc, place) ==
    LET rules == Items(doc, Append(place, "rules"))
    IN  [mode |-> Get(doc, Append(place, "mode"), Scalar("dispatch")).scalar,
         classifier |-> Text(doc, Append(place, "classifier")),
         rules |-> FoldLeft(Insert, <<>>, [i \in DOMAIN rules |->
                      [to |-> Text(rules[i], <<"route_to">>),
                       priority |-> Get(rules[i], <<"priority">>, Scalar(0)).scalar]])]

ConfigOf(tree) ==
    LET tiers == Items(tree, <<"tiers">>)
        clients == Items(tree, <<"clients">>)
    IN  [backends |-> Keys(tree, <<"backends">>),
         tiers |-> [i \in DOMAIN tiers |->
                      [f \in {"name", "backend", "model"} |-> Text(tiers[i], <<f>>)]],
         aliases |-> [a \in Keys(tree, <<"aliases">>) |-> Text(tree, <<"aliases", a>>)],
         profiles |-> [p \in Keys(tree, <<"profiles">>) |-> ProfileOf(tree, <<"profiles", p>>)],
         clients |-> [i \in DOMAIN clients |-> Text(clients[i], <<"profile">>)]]

\* The profile directory: profile_dir or profiles/, skipped when it is not there.
ProfileFiles(tree, dirs) ==
    LET dir == Get(tree, <<"gateway", "profile_dir">>, Scalar("profiles")).scalar
    IN  IF dir \in DOMAIN dirs THEN dirs[dir] ELSE <<>>

\* A profile file replaces the whole profile of its name, or of its file name,
\* and gives way to the later files of that name.
PutProfiles(config, files) ==
    LET name(i) == IF HasName(files[i].value) THEN Text(files[i].value, <<"name">>)
                   ELSE files[i].stem
        names == {name(i) : i \in DOMAIN files}
        latest(n) == Max({i \in DOMAIN files : name(i) = n})
    IN  [config EXCEPT !.profiles =
            [n \in names \union DOMAIN config.profiles |->
                IF n \in names THEN ProfileOf(files[latest(n)].value, <<>>) ELSE config.profiles[n]]]

-----------------------------------------------------------------------------
Named(config) == {config.tiers[i]["name"] : i \in DOMAIN config.tiers}

\* validate but for the cascades.
NamesKnown(config) ==
    /\ \A i \in DOMAIN config.tiers : config.tiers[i]["backend"] \in config.backends
    /\ \A a \in DOMAIN config.aliases : config.aliases[a] \in Named(config)
    /\ \A p \in DOMAIN config.profiles :
          config.profiles[p].mode # "reply" => config.profiles[p].classifier \in Named(config)
    /\ \A i \in DOMAIN config.clients : config.clients[i] \in DOMAIN config.profiles

\* validate.
Valid(config) == NamesKnown(config) /\ RoutesEnd(config.profiles)

Refused == [refused |-> TRUE]

\* The load from a merged tree on, up to validate: it reads the profile files.
LoadFrom(tree, dirs) ==
    LET files == ProfileFiles(tree, dirs)
    IN  IF Reads(tree) /\ \A i \in DOMAIN files :
               files[i].value # Broken /\ ProfileReads(files[i].value, <<>>)
        THEN PutProfiles(ConfigOf(tree), files)
        ELSE Refused

Parses(files) == files.main # Broken /\ \A i \in DOMAIN files.confd : files.confd[i] # Broken

\* Config::load.
Load(files) ==
    LET config == LoadFrom(MergedFiles(files.main, files.confd), files.dirs)
    IN  IF Parses(files) /\ config # Refused /\ Valid(config) THEN config ELSE Refused

-----------------------------------------------------------------------------
(* What the documentation says of a load, all files at once: of arrays,    *)
(* that the items with a `name` replace one another and every other array  *)
(* is replaced wholesale.                                                  *)

NamedArray(v) == IsArray(v) /\ v.array # <<>> /\ \A i \in DOMAIN v.array : HasName(v.array[i])

\* Of items with names, in file order: each name stands where it came first,
\* with what came last.
DeclaredItems(items) ==
    LET twins(i) == {j \in DOMAIN items : SameName(items[i], items[j])}
        firsts == {i \in DOMAIN items : i = Min(twins(i))}
        at(n) == CHOOSE i \in firsts : Cardinality({j \in firsts : j <= i}) = n
    IN  [n \in 1 .. Cardinality(firsts) |-> items[Max(twins(at(n)))]]

\* The file has something else than a table where p would have to lie in one.
Ends(doc, p) == \E q \in Above(p) : q \in DOMAIN doc /\ ~IsTable(doc[q])

\* The files that have a say in place p: those that speak of it, unless a later
\* one ends a table it lies in.
Say(values, p) ==
    {i \in DOMAIN values : p \in DOMAIN values[i] /\ \A j \in i .. Len(values) : ~Ends(values[j], p)}

\* What all the files say of one place: what the last of them says, but of an
\* array of named items those of all such arrays that stand there one file after
\* the other.
Said(values, p) ==
    LET say == Say(values, p)
        run == {i \in say : \A j \in say : j >= i => NamedArray(values[j][p])}
        items == FlattenSeq([i \in DOMAIN values |-> IF i \in run THEN values[i][p].array ELSE <<>>])
    IN  IF run = {} THEN values[Max(say)][p] ELSE Array(DeclaredItems(items))

Declared(values) ==
    [p \in {p \in UNION {DOMAIN values[i] : i \in DOMAIN values} : Say(values, p) # {}} |->
        Said(values, p)]

Sound(config) == NamesKnown(config) /\ ~CascadeCycle(config.profiles)

DeclaredLoad(files) ==
    LET config == LoadFrom(Declared(<<files.main>> \o files.confd), files.dirs)
    IN  IF Parses(files) /\ config # Refused /\ Sound(config) THEN config ELSE Refused

\* No array of a file has two items of one name.
NamesOnce(doc) ==
    \A p \in DOMAIN doc : IsArray(doc[p]) =>
        \A i, j \in DOMAIN doc[p].array : SameName(doc[p].array[i], doc[p].array[j]) => i = j

\* Where two files have an array, its items have names.
StackByName(docs) ==
    \A i, j \in DOMAIN docs : i # j =>
        \A p \in DOMAIN docs[i] \intersect DOMAIN docs[j] :
            IsArray(docs[i][p]) /\ IsArray(docs[j][p]) => NamedArray(docs[i][p])

\* The files of which the documentation and the code say the same.  Arrays whose
\* items have no name are not stacked: "All other arrays and scalars: overlay
\* replaces base wholesale" (config/mod.rs:154), but deep_merge appends the items
\* to those of the base.  That goes for [[clients]], which are said to merge by
\* name (config/mod.rs:246, configuration.md:404) and of which ClientConfig reads
\* none, unless the files give them one, and for the rules of a profile.
Legible(files) ==
    /\ files.confd \in Seq(Range(files.confd))
    /\ \A doc \in Range(<<files.main>> \o files.confd) :
          doc # Broken => IsDocument(doc) /\ NamesOnce(doc)
    /\ StackByName(<<files.main>> \o files.confd)
    /\ \A d \in DOMAIN files.dirs : IsFiniteSet(DOMAIN files.dirs[d])
=============================================================================
