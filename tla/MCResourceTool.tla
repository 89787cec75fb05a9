--------------------------- MODULE MCResourceTool ---------------------------
(* A project in a workspace or alone, with a plugin and an include package in
   its lock and two packages checked out; two operations for two runtime
   versions.  In half of the runs the server has any of several assets and
   changes once; in the other half one asset is enough and another goroutine
   uses the store. *)
EXTENDS ResourceTool

CONSTANTS
    MaxOps,         \* operations of the tool
    MaxChanges,     \* changes of the server
    MaxShared       \* calls of the other goroutine

VARIABLES ops, changes, shared

mcvars == <<vars, ops, changes, shared>>

MCThreads == {"tool", "helper"}
MCTool == "tool"
MCURLs == {"ux", "uy", "ul"}

MCFolded == [s \in {"Ext.inc", "B"} |-> IF s = "B" THEN "b" ELSE "ext.inc"]

FileEntry(name, content, size) ==
    [name |-> name, kind |-> "file", size |-> size, content |-> content, readable |-> TRUE]
DirEntry(name) ==
    [name |-> name, kind |-> "dir", size |-> 0, content |-> "", readable |-> TRUE]
Holding(form, entries) == [form |-> form, size |-> 3, entries |-> entries]

Good == <<DirEntry(<<"inc">>), FileEntry(<<"plug", "ext.so">>, "so", 2), FileEntry(<<"inc", "ext.inc">>, "inc", 1)>>

\* The archives with the same include in other letters, there or elsewhere, with a
\* plugin twice, with sizes that are too large or wrap, alone or in their sum, and
\* with too many entries.
MCData ==
    "zip" :> Holding("zip", Good)
    @@ "folding" :> Holding("zip", Append(Good, FileEntry(<<"inc", "Ext.inc">>, "other", 1)))
    @@ "elsewhere" :> Holding("zip", Append(Good, FileEntry(<<"more", "Ext.inc">>, "other", 1)))
    @@ "twice" :> Holding("zip", Append(Good, FileEntry(<<"old", "ext.so">>, "other", 2)))
    @@ "large" :> Holding("zip", Append(Good, FileEntry(<<"data">>, "other", 15)))
    @@ "wrapping" :> Holding("zip", Append(Good, FileEntry(<<"data">>, "other", 30)))
    @@ "many" :> Holding("zip", Good \o <<DirEntry(<<"a">>), DirEntry(<<"b">>)>>)
    @@ "tar" :> Holding("tar.gz", Good)
    @@ "negative" :> Holding("tar.gz", Append(Good, FileEntry(<<"data">>, "other", 30)))
    @@ "newer" :> Holding("zip", <<Good[2], FileEntry(<<"inc", "ext.inc">>, "new", 1)>>)
    @@ "header" :> Holding("text", <<>>)

MCBytes == DOMAIN MCData

Serving(x) ==
    [u \in MCURLs |-> CASE u = "ux" -> x
                        [] u = "uy" -> IF x = "wrapping" THEN "negative" ELSE "tar"
                        [] u = "ul" -> "header"]

MCPackages == <<[repo |-> "ext", kind |-> "plugin"], [repo |-> "lib", kind |-> "includes"]>>
MCAssets == << <<[name |-> "ext.zip", suffix |-> "zip", url |-> "ux"],
                 [name |-> "ext.tar.gz", suffix |-> "tar.gz", url |-> "uy"]>>,
               <<[name |-> "lib.inc", suffix |-> "inc", url |-> "ul"]>> >>
MCMatching == {<<"zip", "ext.zip">>, <<"any", "ext.zip">>, <<"any", "ext.tar.gz">>,
               <<"tar", "ext.tar.gz">>, <<"lib", "lib.inc">>, <<"lib2", "lib.inc">>}

Pattern(hits) == [hits |-> hits, base |-> NoBase]

\* The plugin is named by a path the archive does not have.
Plugin(name) ==
    [name |-> name, archive |-> TRUE,
     plugins |-> <<[hits |-> {<<"plugins", "ext.so">>}, base |-> "ext.so"]>>,
     includes |-> <<Pattern({<<"inc", "ext.inc">>, <<"more", "Ext.inc">>})>>,
     files |-> <<>>]
\* Both files by "files", to a directory or to given paths.
Mapped(first, second) ==
    [name |-> "any", archive |-> TRUE, plugins |-> <<>>, includes |-> <<>>,
     files |-> << <<Pattern({<<"inc", "ext.inc">>}), first>>,
                  <<Pattern({<<"plug", "ext.so">>, <<"inc", "ext.inc">>}), second>> >>]
Header(name) ==
    [name |-> name, archive |-> FALSE, plugins |-> <<>>,
     includes |-> <<Pattern({<<"lib.inc">>})>>, files |-> <<>>]
Placed(path) ==
    [name |-> "lib", archive |-> FALSE, plugins |-> <<>>, includes |-> <<>>,
     files |-> << <<Pattern({<<"lib.inc">>}), path>> >>]

MCVersions == {"1", "2"}

\* Archives with plugin and include, whose resources change with the version; two
\* packages, or two spellings, with one destination; two files with one destination
\* and files that are placed; a file that is its directory; one package alone.
MCOffers ==
    "tar" :> [v \in MCVersions |-> IF v = "1" THEN <<Plugin("zip"), Header("lib")>>
                                   ELSE <<Plugin("tar"), Unset>>]
    @@ "renamed" :> [v \in MCVersions |-> IF v = "1" THEN <<Plugin("zip"), Header("lib")>>
                                   ELSE <<Plugin("any"), Header("lib2")>>]
    @@ "spelled" :> [v \in MCVersions |-> IF v = "1" THEN <<Mapped(<<"cfg", "">>, <<"cfg", "b">>), Placed(<<"cfg", "B">>)>>
                                   ELSE <<Mapped(<<"cfg", "a">>, <<"cfg", ".", "a">>), Header("lib")>>]
    @@ "placed" :> [v \in MCVersions |-> IF v = "1" THEN <<Mapped(<<"cfg", "ext.so">>, <<"cfg", "">>), Unset>>
                                   ELSE <<Mapped(<<"cfg", "a">>, <<"cfg", "">>), Placed(<<"scriptfiles", "">>)>>]
    @@ "nameless" :> [v \in MCVersions |-> <<Unset, Placed(<<".">>)>>]
    @@ "single" :> [v \in MCVersions |-> <<Unset, Header("lib")>>]
    @@ "unlocked" :> [v \in MCVersions |-> <<Unset, Header("lib")>>]

\* "unlocked" is for a target whose platform is known, but which the lock does not spell so.
MCTargetOf == [o \in DOMAIN MCOffers |-> IF o = "unlocked" THEN "linux-x86_64" ELSE "linux-x86"]

MCIncludeDirName ==
    [k \in {<<"ext", "zip">>, <<"ext", "tar">>, <<"ext", "any">>, <<"lib", "lib">>, <<"lib", "lib2">>} |->
        CASE k = <<"ext", "zip">>  -> "ext-c0ffee"
          [] k = <<"ext", "tar">>  -> "ext-abcdef"
          [] k = <<"ext", "any">>  -> "ext-facade"
          [] k = <<"lib", "lib">>  -> "lib-bbbbbb"
          [] k = <<"lib", "lib2">> -> "lib-aaaaaa"]
MCExtractedPackage ==
    [d \in {"ext-c0ffee", "ext-abcdef", "ext-facade", "lib-bbbbbb", "lib-aaaaaa"} |->
        IF d \in {"ext-c0ffee", "ext-abcdef", "ext-facade"} THEN "ext" ELSE "lib"]
MCNameOrder == <<".resources", "aux", "ext-abcdef", "ext-c0ffee", "ext-facade", "inc",
                 "lib", "lib-aaaaaa", "lib-bbbbbb", "src">>
MCWithInc == [s \in {"own"} |-> "own.inc"]

MCProject == <<"", "w", "p">>
In(rel) == MCProject \o rel

OwnFiles == {In(<<"pawn.json">>), In(<<"gamemodes", "main.pwn">>), In(<<"inc", "own.inc">>),
             In(<<"dependencies", "lib", "pawn.json">>), In(<<"dependencies", "lib", "src", "lib.inc">>),
             In(<<"dependencies", "lib", "src", "util.inc">>),
             In(<<"dependencies", "aux", "include", "util.inc">>),
             In(<<"dependencies", "aux", "include", "lib.inc">>),
             In(<<"dependencies", "aux", "include", "ext.inc">>), <<"", "w", "s.inc">>}
Alone == [path \in OwnFiles |-> "disk"]
Nested == [path \in OwnFiles \union {<<"", "w", "pawn.json">>, <<"", "w", "shared", "s.inc">>} |-> "disk"]

NoBuild == [name |-> "", includes |-> <<>>]
MCManifestAt == [path \in {In(<<"dependencies", "lib", "pawn.json">>)} |->
    [entry |-> <<"">>, build |-> Unset, builds |-> <<>>,
     includes |-> << <<"src">>, <<"x", "..", "..", "..", "out">> >>, repos |-> <<>>]]

Manifest(includes, builds, repos) ==
    [entry |-> <<"gamemodes", "main.pwn">>,
     build |-> [NoBuild EXCEPT !.includes = << <<"inc">> >>], builds |-> builds,
     includes |-> includes, repos |-> repos]
MCManifests ==
    {Manifest(<<>>, <<>>, <<"lib">>),
     Manifest(<<>>, <<[NoBuild EXCEPT !.name = "b"]>>, <<"lib", "ext">>),
     Manifest(<< <<"inc">>, <<"x", "..", "..", "shared">> >>, <<>>, <<>>),
     Manifest(<<>>, <<[NoBuild EXCEPT !.name = "b", !.includes = << <<"..", "shared">> >>]>>, <<"lib">>)}
MCStarts == {In(<<"gamemodes", "main.pwn">>), In(<<"dependencies", "lib", "src", "lib.inc">>)}
MCLoadOptions == {[build |-> "", managed |-> <<>>],
                  [build |-> "b", managed |-> << <<"", "m">> >>]}

\* What is above, beside and below a file, and what leads out of every root.
MCSpecs == {<<"..", "inc", "own">>, <<"..", "..", "shared", "s.inc">>, <<"..", "..", "s.inc">>,
            <<"..", "..", "..", "..", "s.inc">>, <<"own.inc">>, <<"x", "..", "..", "s.inc">>}

MCDisks == {Alone, Nested}

MCInit ==
    /\ Init
    /\ \/ /\ offers \in DOMAIN MCOffers \ {"single"}
          /\ server \in {Serving(x) : x \in CASE offers \in {"nameless", "unlocked"} -> {"zip"}
                                            [] offers \in {"spelled", "placed"} -> {"zip", "folding"}
                                            [] OTHER -> {"zip", "folding", "elsewhere", "twice", "large",
                                                          "wrapping", "many"}}
          /\ (tree = Nested => offers = "tar")
          /\ ops = MaxOps /\ changes = MaxChanges /\ shared = 0
       \/ /\ offers = "single"
          /\ server = Serving("zip")
          /\ tree = Alone
          /\ ops = 1 /\ changes = MaxChanges /\ shared = MaxShared

\* A view changes nothing, so that no behaviour needs to go on after one.
Bounded(step) == step /\ UNCHANGED <<ops, changes, shared>>

MCNext ==
    \/ \E v \in MCVersions, resolves \in BOOLEAN :
          ops > 0 /\ view = Unset /\ Begin(v, resolves) /\ ops' = ops - 1 /\ UNCHANGED <<changes, shared>>
    \/ Bounded(Step)
    \/ \E t \in MCThreads : Bounded(Serve(t))
    \/ \E t \in MCThreads :
          shared > 0 /\ Share(t) /\ call'[t].url # "uy" /\ shared' = shared - 1 /\ UNCHANGED <<ops, changes>>
    \/ \E u \in IF offers = "single" THEN {"ul"} ELSE {"ux"}, b \in {"newer"} :
          changes > 0 /\ view = Unset /\ server[u] # b /\ Republish(u, b) /\ changes' = changes - 1 /\ UNCHANGED <<ops, shared>>
    \/ \E start \in MCStarts, m \in MCManifests, o \in MCLoadOptions :
          /\ view = Unset /\ ops = 0 /\ ~present
          /\ offers \in {"tar", "renamed"} \/ (start = In(<<"gamemodes", "main.pwn">>) /\ offers # "single")
          /\ Bounded(LoadProject(start, m, o))

\* Whatever can go on goes on; nobody needs to look for a project or share a store.
Progress == Bounded(Step) \/ \E t \in MCThreads : Bounded(Serve(t))

MCSpec == MCInit /\ [][MCNext]_mcvars /\ WF_mcvars(Progress)
=============================================================================
