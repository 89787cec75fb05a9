-------------------------- MODULE MCToolchainStore --------------------------
(* One vendor with two versions, one of which has the name of the other's
   staging directory; archives that hold compilers for two targets, spell their
   names in several ways, lead out of the directory or exceed a limit. *)
EXTENDS ToolchainStore

CONSTANTS a, b

MCCallers == {a, b}
Symmetry == Permutations(MCCallers)

MCFolded == [s \in {} |-> s]

File(name, content) == [name |-> name, kind |-> "file", size |-> 1, content |-> content, readable |-> TRUE]
Directory(name) == [name |-> name, kind |-> "dir", size |-> 0, content |-> "", readable |-> TRUE]
Link(name) == [name |-> name, kind |-> "link", size |-> 1, content |-> "link", readable |-> TRUE]
Bytes(form, entries) == [form |-> form, size |-> 1, entries |-> entries]

Bin(name) == File(<<"bin", name>>, IF name = "pawncc" THEN "linux" ELSE "windows")

MCData ==
    "raw" :> Bytes("text", <<>>)
    @@ "both" :> Bytes("zip", <<Directory(<<"bin">>), File(<<"readme">>, "text"), Bin("pawncc.exe"), Bin("pawncc")>>)
    @@ "tar" :> Bytes("tar.gz", <<File(<<".", "bin", "pawncc">>, "linux"), File(<<"toolchain.json">>, "text")>>)
    @@ "twice" :> Bytes("zip", <<Bin("pawncc"), File(<<"bin", ".", "pawncc">>, "other")>>)
    @@ "named" :> Bytes("zip", <<File(<<"toolchain.json">>, "text"), File(<<"readme">>, "text")>>)
    @@ "up" :> Bytes("zip", <<Bin("pawncc"), File(<<"bin", "..", "..", "readme">>, "text")>>)
    @@ "below" :> Bytes("zip", <<File(<<"bin">>, "text"), Bin("pawncc")>>)
    @@ "many" :> Bytes("zip", <<Directory(<<"a">>), Directory(<<"b">>), Directory(<<"c">>), Directory(<<"d">>), Bin("pawncc")>>)
    @@ "large" :> Bytes("zip", <<Bin("pawncc"), [Bin("pawncc.exe") EXCEPT !.size = 3]>>)
    @@ "linked" :> Bytes("tar.gz", <<Bin("pawncc"), Link(<<"lib">>)>>)

MCVendors == {"v"}
MCVersions == {"1", "1.tmp"}
MCStagingName == "1" :> "1.tmp" @@ "1.tmp" :> "1.tmp.tmp"
MCBackupName == "1" :> "1.old" @@ "1.tmp" :> "1.tmp.old"
MCSecure == {"https"}
MCLocals == <<"", "usr", "pawncc">> :> "linux"
MCTargets == {"linux", "windows"}

Artifact(version, target, bytes) ==
    [vendor |-> "v", version |-> version, target |-> target, url |-> "https",
     format |-> Data[bytes].form, size |-> Data[bytes].size, checksum |-> bytes,
     path |-> <<"bin", IF target = "linux" THEN "pawncc" ELSE "pawncc.exe">>, execsum |-> target]

\* One archive for two targets, an archive that spells its names differently, and
\* indexes that are rejected.
MCIndexes ==
    LET both == Artifact("1", "windows", "both")
    IN {<<Artifact("1", "linux", "both"), both, Artifact("1.tmp", "linux", "tar")>>,
        <<both, both>>,
        <<[both EXCEPT !.path = <<"..", "pawncc.exe">>]>>}

\* Without an index: any compiler of version "1" or of the other, one that a tool asks for
\* offline, a version that names no directory, and local compilers.
MCOptions ==
    LET any == [local |-> <<"">>, vendor |-> "v", version |-> "1", url |-> "https", checksum |-> "",
                size |-> 0, format |-> "", path |-> <<"">>, execsum |-> "", offline |-> FALSE]
        pawncc == <<"", "usr", "pawncc">>
    IN {any, [any EXCEPT !.version = "1.tmp", !.format = "tar.gz"],
        [any EXCEPT !.checksum = "other", !.url = "", !.offline = TRUE],
        [any EXCEPT !.version = "a/b"],
        [any EXCEPT !.local = pawncc, !.checksum = "linux"],
        [any EXCEPT !.local = pawncc, !.checksum = "other"],
        [any EXCEPT !.local = <<"", "usr", "missing">>]}
=============================================================================
