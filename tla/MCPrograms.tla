------------------------------ MODULE MCPrograms ------------------------------
(***************************************************************************)
(* An instance of Programs for TLC.                                        *)
(***************************************************************************)
EXTENDS Programs, TLC

\* Every stream, and every mode of namespaces; properties over two namespaces.
MCSyncs ==
    {<<"files", "all_accessible">>, <<"folders", "current">>, <<"file_properties", "selected">>,
     <<"shared_links", "all_accessible">>, <<"shared_folders", "current">>}

\* The namespaces show the same folder, one each, or one of them none.
MCMountedAs == {<<{1, 2}, {2}>>, <<{1}, {2}>>, <<{1, 2}, {}>>}

\* A file under every root, and one under a single namespace.
MCTextShows == (0 :> {1}) @@ (1 :> {1}) @@ (2 :> {1, 2})

\* A direct upload, and a session of a start, two appends and a finish, in a folder of its own.
MCFoldersTo == ("a" :> <<"d">>) @@ ("b" :> <<"d", "e">>)
MCParts == ("a" :> 1) @@ ("b" :> 4)

\* Two contents of one size; path 2 folds to another spelling, path 3 is odd.
MCSize == (1 :> 1) @@ (2 :> 1)
MCFold == (1 :> 1) @@ (2 :> 4) @@ (3 :> 3)
MCStarts ==
    {[source |-> s, destination |-> d] :
        s \in {<<1, 1, 0>>, <<1, 2, 0>>, <<2, 0, 0>>, <<1, 0, 1>>, <<1, 1, 1>>},
        d \in {<<0, 0, 0>>, <<1, 0, 0>>, <<1, 1, 0>>, <<0, 2, 0>>, <<2, 2, 0>>}}

\* Two scopes with a file in common.
MCShows == ("a" :> {1, 2}) @@ ("b" :> {2, 3})
=============================================================================
