------------------------------- MODULE PushRun -------------------------------
(***************************************************************************)
(* `vcluster registry push` (src/cmd/vclusterctl/cmd/registry/push.go):    *)
(* PushOptions.Run checks its arguments, connects, saves the named images  *)
(* into ./image.tar with `docker save`, then walks the archives: a file is *)
(* handed to copyArchiveToRemote, a directory has each of its .tar and     *)
(* .tar.gz entries handed to it.  copyArchiveToRemote extracts the archive *)
(* into a temporary directory and calls pushImage for every manifest of    *)
(* its image index.  The first error ends the command.                     *)
(*                                                                         *)
(* pushImage is the two-goroutine machine of module PushImage, composed    *)
(* here step for step.  Once Run has returned the process exits, so the    *)
(* push goroutine takes no further step.                                   *)
(*                                                                         *)
(* Files are abstracted to entries: a directory lists the paths of its     *)
(* entries; an archive has a name suffix and the image tags of its         *)
(* manifests ("" for a manifest without io.containerd.image.name).         *)
(* Failures of the environment (client config, transport, HTTP request,    *)
(* docker, url.Parse, MkdirTemp, extraction, layout reads, reference       *)
(* parsing) are nondeterministic when EnvMayFail holds.                    *)
(***************************************************************************)
EXTENDS Naturals, Sequences, SequencesExt

CONSTANTS
    Invocations,    \* [args, archives, fs]: command line and file system
    ImageTar,       \* the path "image.tar" in the working directory
    EnvMayFail,     \* the environment may fail at every step that can
    DigestRefs,     \* image names that are digest references (repo@sha256:...)
    Updates, Capacity, PushMayFail, WriteMayFail    \* see PushImage

VARIABLES
    inv,        \* the invocation Run was started with
    fs,         \* the file system: path -> entry
    todo,       \* o.Archives not yet visited
    files,      \* entries of the directory being walked, not yet visited
    inDir,      \* the archive being copied is a directory entry
    cur,        \* path of the archive being copied
    manifests,  \* tags of the manifests not yet pushed
    tag,        \* tag of the image being pushed
    tempDir,    \* copyArchiveToRemote's temporary directory exists
    saved,      \* defer os.Remove("image.tar") is registered
    pushed,     \* images pushed by completed pushImage calls
    pc,         \* where Run is
    result,     \* Run's return: "none", "ok", "error"
    progress, closed, errBuf, prod, sent, outcome, cons, ret   \* pushImage

callVars == <<progress, closed, errBuf, prod, sent, outcome, cons, ret>>
runVars == <<inv, fs, todo, files, inDir, cur, manifests, tag, tempDir, saved,
             pushed, pc, result>>
vars == <<runVars, callVars>>

Img == INSTANCE PushImage

Fallible == IF EnvMayFail THEN {TRUE, FALSE} ELSE {FALSE}

\* strings.HasSuffix(name, ".tar") || strings.HasSuffix(name, ".tar.gz")
IsArchiveName(p) == fs[p].sfx \in {".tar", ".tar.gz"}

\* Run moves on to its next step.
Goto(l) == pc' = l /\ UNCHANGED <<fs, tempDir, result>>

\* A return from Run; the deferred os.Remove("image.tar") and, inside
\* copyArchiveToRemote, os.RemoveAll(tempDir) run on the way out.
Return(r) ==
    /\ result' = r
    /\ pc' = "done"
    /\ tempDir' = FALSE
    /\ fs' = IF saved THEN [p \in DOMAIN fs \ {ImageTar} |-> fs[p]] ELSE fs

\* A new pushImage call: fresh channels and a new goroutine (PushImage!Init).
StartCall ==
    /\ progress' = <<>> /\ closed' = FALSE /\ errBuf' = <<>>
    /\ prod' = "pushing" /\ sent' = 0 /\ outcome' = "none"
    /\ cons' = "range" /\ ret' = "none"

Init ==
    /\ inv \in Invocations
    /\ fs = inv.fs
    /\ todo = inv.archives
    /\ files = <<>>
    /\ inDir = FALSE
    /\ cur = ImageTar
    /\ manifests = <<>>
    /\ tag = ""
    /\ tempDir = FALSE
    /\ saved = FALSE
    /\ pushed = {}
    /\ pc = "start"
    /\ result = "none"
    /\ Img!Init

-----------------------------------------------------------------------------
(* PushOptions.Run                                                         *)

\* Neither an image nor --archive given.
CheckArgs ==
    /\ pc = "start"
    /\ \/ inv.args = <<>> /\ inv.archives = <<>> /\ Return("error")
       \/ (inv.args # <<>> \/ inv.archives # <<>>) /\ Goto("connect")
    /\ UNCHANGED <<inv, todo, files, inDir, cur, manifests, tag, saved, pushed>>
    /\ UNCHANGED callVars

\* getClient: the kubeconfig is loaded; ClientConfig() may fail.
getClient == Fallible

\* isRegistryEnabled: GET <host>/v2/ fails, or its status is 200 or not.
RegistryAnswers ==
    {"enabled", "disabled"} \cup (IF EnvMayFail THEN {"error"} ELSE {})

\* getClient, rest.TransportFor and isRegistryEnabled; an error or a
\* disabled registry ends the command.
Connect ==
    /\ pc = "connect"
    /\ \E clientFails \in getClient, a \in RegistryAnswers :
        \/ clientFails /\ Return("error")
        \/ ~clientFails /\ a # "enabled" /\ Return("error")
        \/ ~clientFails /\ a = "enabled" /\ Goto("save")
    /\ UNCHANGED <<inv, todo, files, inDir, cur, manifests, tag, saved, pushed>>
    /\ UNCHANGED callVars

\* runCommand: docker runs with the process's stdout and stderr; a non-zero
\* exit or a failure to start it is an error.
runCommand == Fallible

\* docker save -o image.tar <images>: the file is written (replacing any
\* file of that name), its removal deferred, and it joins the archives.
SaveImages ==
    /\ pc = "save"
    /\ \/ inv.args = <<>> /\ Goto("registry") /\ UNCHANGED <<todo, saved>>
       \/ inv.args # <<>> /\ TRUE \in runCommand /\ Return("error")
          /\ UNCHANGED <<todo, saved>>
       \/ /\ inv.args # <<>> /\ FALSE \in runCommand
          /\ fs' = ImageTar :> [dir |-> FALSE, sfx |-> ".tar", tags |-> inv.args,
                                entries |-> <<>>] @@ fs
          /\ saved' = TRUE
          /\ todo' = Append(todo, ImageTar)
          /\ pc' = "registry"
          /\ UNCHANGED <<tempDir, result>>
    /\ UNCHANGED <<inv, files, inDir, cur, manifests, tag, pushed>>
    /\ UNCHANGED callVars

\* url.Parse(restConfig.Host) and name.NewRegistry.
ResolveRegistry ==
    /\ pc = "registry"
    /\ \E fails \in Fallible :
        \/ fails /\ Return("error")
        \/ ~fails /\ Goto("loop")
    /\ UNCHANGED <<inv, todo, files, inDir, cur, manifests, tag, saved, pushed>>
    /\ UNCHANGED callVars

\* One archive of o.Archives: os.Stat, then os.ReadDir for a directory or
\* copyArchiveToRemote for a file.
NextArchive ==
    /\ pc = "loop" /\ todo # <<>>
    /\ LET p == Head(todo) IN
        \/ p \notin DOMAIN fs /\ Return("error")
           /\ UNCHANGED <<todo, files, inDir, cur>>
        \/ p \in DOMAIN fs /\ fs[p].dir /\ EnvMayFail /\ Return("error")
           /\ UNCHANGED <<todo, files, inDir, cur>>
        \/ /\ p \in DOMAIN fs /\ fs[p].dir
           /\ files' = fs[p].entries
           /\ todo' = Tail(todo)
           /\ Goto("dir")
           /\ UNCHANGED <<inDir, cur>>
        \/ /\ p \in DOMAIN fs /\ ~fs[p].dir
           /\ cur' = p /\ inDir' = FALSE
           /\ todo' = Tail(todo)
           /\ Goto("copy")
           /\ UNCHANGED files
    /\ UNCHANGED <<inv, manifests, tag, saved, pushed>>
    /\ UNCHANGED callVars

\* The loop over the archives ends: Run returns nil.
LoopDone ==
    /\ pc = "loop" /\ todo = <<>>
    /\ Return("ok")
    /\ UNCHANGED <<inv, todo, files, inDir, cur, manifests, tag, saved, pushed>>
    /\ UNCHANGED callVars

\* One entry of a directory archive: entries not named .tar or .tar.gz are
\* skipped, the others copied; after the last one the outer loop goes on.
NextEntry ==
    /\ pc = "dir"
    /\ \/ files = <<>> /\ Goto("loop") /\ UNCHANGED <<files, inDir, cur>>
       \/ /\ files # <<>> /\ ~IsArchiveName(Head(files))
          /\ files' = Tail(files)
          /\ UNCHANGED <<pc, fs, tempDir, result, inDir, cur>>
       \/ /\ files # <<>> /\ IsArchiveName(Head(files))
          /\ cur' = Head(files) /\ inDir' = TRUE
          /\ files' = Tail(files)
          /\ Goto("copy")
    /\ UNCHANGED <<inv, todo, manifests, tag, saved, pushed>>
    /\ UNCHANGED callVars

-----------------------------------------------------------------------------
(* copyArchiveToRemote and pushImage                                       *)

\* os.MkdirTemp with its deferred RemoveAll, extraction by suffix
\* (.tar.gz first, then .tar, else an unsupported-format error), and the
\* image index of the extracted layout.  A directory that carries an
\* archive name cannot be extracted.
OpenArchive ==
    /\ pc = "copy"
    /\ \/ EnvMayFail /\ Return("error") /\ UNCHANGED manifests
       \/ ~IsArchiveName(cur) /\ Return("error") /\ UNCHANGED manifests
       \/ IsArchiveName(cur) /\ fs[cur].dir /\ Return("error")
          /\ UNCHANGED manifests
       \/ /\ IsArchiveName(cur) /\ ~fs[cur].dir
          /\ manifests' = fs[cur].tags
          /\ tempDir' = TRUE
          /\ pc' = "manifests"
          /\ UNCHANGED <<fs, result>>
    /\ UNCHANGED <<inv, todo, files, inDir, cur, tag, saved, pushed>>
    /\ UNCHANGED callVars

\* replaceRegistry: name.NewTag(localRef.Name()) rejects the name of a
\* digest reference, whose repository part ends in "@sha256"; any other
\* reference keeps its repository and tag and is given the vCluster's
\* registry, so the image is pushed under the name it was asked for.
replaceRegistry(t) == IF t \in DigestRefs THEN "error" ELSE "ok"

\* pushImage(localRef): replaceRegistry's error is returned before any
\* channel or goroutine exists; otherwise the call starts.
pushImage(t) ==
    \/ replaceRegistry(t) = "error" /\ Return("error")
       /\ UNCHANGED <<manifests, tag, callVars>>
    \/ /\ replaceRegistry(t) = "ok"
       /\ tag' = t
       /\ manifests' = Tail(manifests)
       /\ StartCall
       /\ Goto("push")

\* One manifest: a missing io.containerd.image.name annotation is an
\* error; otherwise ParseReference and imageIndex.Image run, then
\* pushImage, whose replaceRegistry may fail before the goroutine starts.
NextManifest ==
    /\ pc = "manifests" /\ manifests # <<>>
    /\ \/ Head(manifests) = "" /\ Return("error")
          /\ UNCHANGED <<manifests, tag, callVars>>
       \/ Head(manifests) # "" /\ EnvMayFail /\ Return("error")
          /\ UNCHANGED <<manifests, tag, callVars>>
       \/ Head(manifests) # "" /\ pushImage(Head(manifests))
    /\ UNCHANGED <<inv, todo, files, inDir, cur, saved, pushed>>

\* The last manifest is pushed: copyArchiveToRemote returns nil and its
\* temporary directory is removed.
CopyDone ==
    /\ pc = "manifests" /\ manifests = <<>>
    /\ tempDir' = FALSE
    /\ pc' = IF inDir THEN "dir" ELSE "loop"
    /\ UNCHANGED <<inv, fs, todo, files, inDir, cur, manifests, tag, saved,
                   pushed, result>>
    /\ UNCHANGED callVars

\* Variant that goes on with the next manifest whatever pushImage returned.
PushReturnedIgnoresError ==
    /\ pc = "push" /\ cons = "returned"
    /\ pushed' = pushed \cup (IF outcome = "ok" THEN {tag} ELSE {})
    /\ Goto("manifests")
    /\ UNCHANGED <<inv, todo, files, inDir, cur, manifests, tag, saved>>
    /\ UNCHANGED callVars

\* pushImage has returned: an error ends the command.  The image is in
\* the registry if remote.Push got that far, whatever pushImage returned.
PushReturned ==
    /\ pc = "push" /\ cons = "returned"
    /\ pushed' = pushed \cup (IF outcome = "ok" THEN {tag} ELSE {})
    /\ \/ ret = "ok" /\ Goto("manifests")
       \/ ret = "error" /\ Return("error")
    /\ UNCHANGED <<inv, todo, files, inDir, cur, manifests, tag, saved>>
    /\ UNCHANGED callVars

RunStep ==
    \/ CheckArgs \/ Connect \/ SaveImages \/ ResolveRegistry
    \/ NextArchive \/ LoopDone \/ NextEntry
    \/ OpenArchive \/ NextManifest \/ CopyDone \/ PushReturned

\* The main goroutine: Run, and pushImage's loop over the progress channel.
Caller == RunStep \/ (pc = "push" /\ Img!Consumer /\ UNCHANGED runVars)

\* The goroutine running remote.Push; it stops when the process exits.
Goroutine == pc = "push" /\ Img!Producer /\ UNCHANGED runVars

Next == Caller \/ Goroutine

\* No fairness: remote.Push runs without a timeout, so nothing in the code
\* makes the command return; only safety is checked of Run.
Spec == Init /\ [][Next]_vars

-----------------------------------------------------------------------------
TypeOK ==
    /\ inv \in Invocations
    /\ DOMAIN fs \subseteq DOMAIN inv.fs \cup {ImageTar}
    /\ todo \in Seq(DOMAIN inv.fs \cup {ImageTar} \cup ToSet(inv.archives))
    /\ cur \in DOMAIN inv.fs \cup {ImageTar}
    /\ {tempDir, saved, inDir} \subseteq BOOLEAN
    /\ pc \in {"start", "connect", "save", "registry", "loop", "dir", "copy",
               "manifests", "push", "done"}
    /\ result \in {"none", "ok", "error"}
    /\ (result = "none") = (pc # "done")
    /\ Img!TypeOK

\* Archives named on the command line and, for a directory, its entries
\* with an archive name; the images their manifests are tagged with.
TagsOf(e) == ToSet(e.tags) \ {""}
Wanted(i) ==
    ToSet(i.args) \cup
    UNION {IF i.fs[p].dir
           THEN UNION {TagsOf(i.fs[q]) : q \in {q \in ToSet(i.fs[p].entries) :
                                                  i.fs[q].sfx \in {".tar", ".tar.gz"}}}
           ELSE TagsOf(i.fs[p]) : p \in ToSet(i.archives) \cap DOMAIN i.fs}

\* The image remote.Push has just put into the registry.
InFlight == IF pc = "push" /\ outcome = "ok" THEN {tag} ELSE {}

Cmd == INSTANCE PushCommand
         WITH wanted <- Wanted(inv), pushed <- pushed \cup InFlight

\* Run implements the push command: it pushes only images it was asked for,
\* and returns nil only once all of them are in the registry (every archive,
\* every directory entry, every manifest, and every pushImage call having
\* succeeded).
ImplementsPushCommand == Cmd!Spec

\* A push goroutine is left blocked for good only on the way out of the
\* command: once pushImage has returned while its goroutine still runs (an
\* update with an error, or a failed print, leaves it blocked on a full
\* progressChan), Run takes no step but its return, so no later pushImage
\* call starts beside it.
GoroutineStrandedOnlyOnExit ==
    (cons = "returned" /\ prod # "exited" /\ pc # "push") => pc = "done"

=============================================================================
