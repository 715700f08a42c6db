------------------------------ MODULE MC_PushRun ------------------------------
(***************************************************************************)
(* Invocations of `vcluster registry push` for TLC: each is a command line *)
(* and the files it names.  Between them they reach every return of Run, *)
(* copyArchiveToRemote and replaceRegistry.                                *)
(***************************************************************************)
EXTENDS PushRun, TLC

File(sfx, tags) == [dir |-> FALSE, sfx |-> sfx, tags |-> tags, entries |-> <<>>]
Dir(sfx, entries) == [dir |-> TRUE, sfx |-> sfx, tags |-> <<>>, entries |-> entries]
NoFiles == [p \in {} |-> File("", <<>>)]

MC_Invocations == {
    \* no image and no --archive
    [args |-> <<>>, archives |-> <<>>, fs |-> NoFiles],
    \* one image, saved to image.tar
    [args |-> <<"t1">>, archives |-> <<>>, fs |-> NoFiles],
    \* a directory with an image archive and a file that is skipped, and a
    \* user's own image.tar that stays in place
    [args |-> <<>>, archives |-> <<"d", "image.tar">>,
     fs |-> "d" :> Dir("", <<"d/a.tar", "d/notes">>)
            @@ "d/a.tar" :> File(".tar", <<"t1", "t2">>)
            @@ "d/notes" :> File("", <<>>)
            @@ "image.tar" :> File(".tar", <<"t2">>)],
    \* an image and two archives, the second of an unsupported format
    [args |-> <<"t2">>, archives |-> <<"b.tar.gz", "x.zip">>,
     fs |-> "b.tar.gz" :> File(".tar.gz", <<"t1">>) @@ "x.zip" :> File(".zip", <<"t2">>)],
    \* a manifest without a name annotation, and one named by its digest
    [args |-> <<>>, archives |-> <<"c.tar">>,
     fs |-> "c.tar" :> File(".tar", <<"t1", "">>)],
    [args |-> <<>>, archives |-> <<"f.tar">>,
     fs |-> "f.tar" :> File(".tar", <<"t2", "t1@sha256">>)],
    \* a directory entry that is itself a directory, and a missing archive
    [args |-> <<>>, archives |-> <<"e">>,
     fs |-> "e" :> Dir("", <<"e/sub.tar">>) @@ "e/sub.tar" :> Dir(".tar", <<>>)],
    [args |-> <<>>, archives |-> <<"gone.tar">>, fs |-> NoFiles]
}

\* An image together with the user's own ./image.tar named by --archive:
\* docker save writes its archive over the user's.
MC_InvocationsImageTar == {
    [args |-> <<"t1">>, archives |-> <<"image.tar">>,
     fs |-> "image.tar" :> File(".tar", <<"t2">>)]
}

=============================================================================
