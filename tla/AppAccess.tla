------------------------------ MODULE AppAccess ------------------------------
(***************************************************************************)
(* What an app may reach (kunkka-core): the manifests below                *)
(* <config>/apps, which the core reads once when it starts                 *)
(* (app_manifest.rs), and the two capabilities that are checked against    *)
(* the manifest at every request and keep no state of their own: files     *)
(* (capability/fs.rs, capability/permissions.rs) and http                  *)
(* (capability/http.rs).  The user may edit the manifests at any time.     *)
(*                                                                         *)
(* A path is the sequence of its components; host names are values, equal  *)
(* when they differ in case only.  The file system and the web are         *)
(* external: a server may redirect to any host, and what an operation      *)
(* finds in a file is left out.  There are no symbolic links.              *)
(*                                                                         *)
(* access is the last request and how it was decided; startedFrom the      *)
(* manifests that lay there when the core started.  No guard reads the     *)
(* second, nor the first once its request has ended.                       *)
(***************************************************************************)
EXTENDS Naturals, Sequences, SequencesExt

CONSTANTS
    ManifestFile,   \* the names ending in .json below <config>/apps
    Manifest,       \* what the user may write in one
    NoManifest,     \* no such file
    Unreadable,     \* a directory, no JSON, or a required field is missing
    Blank,          \* an identifier or a name of spaces only, a padded host
    Component,      \* the names of files and directories, and ".."
    Path,           \* the paths that apps ask for
    Host,           \* the hosts that apps ask for and servers redirect to
    MaxRedirects,   \* MAX_REDIRECTS, 10 in the code
    Parent,         \* the component ".."
    Cwd,            \* where the core was started: a sequence of components
    NoRegistry      \* the core is not running

Root == ""

\* A path as it is written, but for "." and repeated slashes: "/" and "/." have
\* no names, and end in a slash or not.
PathText == [absolute: BOOLEAN, names: Seq(Component), slash: BOOLEAN]

\* What splits a path at its slashes finds no empty name.
ASSUME AccessAssumption ==
    /\ MaxRedirects \in Nat \ {0}
    /\ NoManifest \notin Manifest
    /\ Unreadable \notin Manifest
    /\ Root \notin Component
    /\ Cwd \in Seq(Component)
    /\ Path \subseteq PathText
    /\ \A m \in Manifest : m.paths \subseteq PathText

VARIABLES
    appsDir,        \* the manifest files
    startedFrom,    \* the same when the core started
    registry,       \* AppRegistry::manifests
    access          \* the last request for a file or an address

accessVars == <<appsDir, startedFrom, registry, access>>

NoAccess == [kind |-> "none"]

AccessInit ==
    /\ appsDir = [f \in ManifestFile |-> NoManifest]
    /\ startedFrom = appsDir
    /\ registry = NoRegistry
    /\ access = NoAccess

-----------------------------------------------------------------------------
(* app_manifest.rs.                                                        *)

Written(dir) == {f \in ManifestFile : dir[f] # NoManifest}

\* AppManifest::load_file and from_raw: a scope that is left out is empty,
\* and an empty one grants nothing.
Readable(content) == content # Unreadable

Validate(m) ==
    /\ m.app # Blank
    /\ Blank \notin m.methods \cup m.allow \cup m.ask \cup m.domains \cup m.roles
    /\ \A p \in m.paths : p.absolute
    /\ m.allow \cap m.ask = {}

Loadable(dir) ==
    /\ \A f \in Written(dir) : Readable(dir[f]) /\ Validate(dir[f])
    /\ \A f, g \in Written(dir) : dir[f].app = dir[g].app => f = g

Load(dir) ==
    [a \in {dir[f].app : f \in Written(dir)} |->
        dir[CHOOSE f \in Written(dir) : dir[f].app = a]]

Running == registry # NoRegistry

\* CoreRuntime::prepare
StartCore ==
    /\ ~Running
    /\ Loadable(appsDir)
    /\ registry' = Load(appsDir)
    /\ startedFrom' = appsDir
    /\ access' = NoAccess
    /\ UNCHANGED appsDir

\* One file that cannot be used keeps the core from starting.
StartRefused ==
    /\ ~Running
    /\ ~Loadable(appsDir)
    /\ UNCHANGED accessVars

CoreStops ==
    /\ Running
    /\ registry' = NoRegistry
    /\ access' = NoAccess
    /\ UNCHANGED <<appsDir, startedFrom>>

\* The running core does not look at the files again.
EditManifest(f, content) ==
    /\ appsDir' = [appsDir EXCEPT ![f] = content]
    /\ UNCHANGED <<startedFrom, registry, access>>

-----------------------------------------------------------------------------
(* check_fs_permission.  normalize_path keeps the root as an empty first   *)
(* component, which ".." never takes away; a path that has nothing left is *)
(* the root; a slash at the end is kept but for the root's.                *)

\* A variant for the checks: ".." is passed over like ".".
StepVariant(components, c) == IF c = Parent THEN components ELSE Append(components, c)

Step(components, c) ==
    IF c # Parent THEN Append(components, c)
    ELSE IF Len(components) > 1 THEN Front(components) ELSE components

NormalizePath(p) ==
    LET walked == FoldLeft(Step, IF p.absolute THEN <<Root>> ELSE <<>>, p.names)
        components == IF walked = <<>> THEN <<Root>> ELSE walked
    IN  [components |-> components, slash |-> p.slash /\ components # <<Root>>]

\* An entry with a slash at its end stands for all below it, any other for
\* itself.
Matches(allowed, p) ==
    IF allowed.slash
    THEN IsPrefix(NormalizePath(allowed).components, NormalizePath(p).components)
    ELSE NormalizePath(allowed) = NormalizePath(p)

CheckFsPermission(m, p) == \E allowed \in m.paths : Matches(allowed, p)

-----------------------------------------------------------------------------
(* Requests: the app names itself, the core looks its manifest up.         *)

InFlight == access.kind = "http" /\ access.pending

Get(app) == IF app \in DOMAIN registry THEN {registry[app]} ELSE {}

\* read_file, write_file and list_dir; the operation itself follows at once.
FsRequest(app, p) ==
    /\ Running
    /\ ~InFlight
    /\ access' = [kind |-> "fs", app |-> app, path |-> p,
                  granted |-> \E m \in Get(app) : CheckFsPermission(m, p)]
    /\ UNCHANGED <<appsDir, startedFrom, registry>>

AllowedDomain(app, host) == \E m \in Get(app) : host \in m.domains

\* previous() in the redirect policy has the first address in it: hops
\* redirects were followed, and hops + 1 addresses asked.
HttpRequest(app, host) ==
    /\ Running
    /\ ~InFlight
    /\ access' = [kind |-> "http", app |-> app, hosts |-> {host}, hops |-> 0,
                  granted |-> AllowedDomain(app, host),
                  pending |-> AllowedDomain(app, host)]
    /\ UNCHANGED <<appsDir, startedFrom, registry>>

HttpEnds ==
    /\ InFlight
    /\ access' = [access EXCEPT !.pending = FALSE]
    /\ UNCHANGED <<appsDir, startedFrom, registry>>

\* The server answers, the time is up, or a redirect is not to be followed:
\* the answer is then the redirect itself, or an error.
Responds == HttpEnds

RedirectStopped == HttpEnds /\ access.hops + 1 >= MaxRedirects

RedirectFollowed(host) ==
    /\ InFlight
    /\ access.hops + 1 < MaxRedirects
    /\ AllowedDomain(access.app, host)
    /\ access' = [access EXCEPT !.hosts = @ \cup {host}, !.hops = @ + 1]
    /\ UNCHANGED <<appsDir, startedFrom, registry>>

RedirectRefused(host) ==
    /\ HttpEnds
    /\ access.hops + 1 < MaxRedirects
    /\ ~AllowedDomain(access.app, host)

AccessNext ==
    \/ StartCore \/ StartRefused \/ CoreStops
    \/ \E f \in ManifestFile, content \in Manifest \cup {NoManifest, Unreadable} :
           EditManifest(f, content)
    \/ \E app \in {m.app : m \in Manifest} :
           \/ \E p \in Path : FsRequest(app, p)
           \/ \E host \in Host : HttpRequest(app, host)
    \/ Responds \/ RedirectStopped
    \/ \E host \in Host : RedirectFollowed(host) \/ RedirectRefused(host)

AccessSpec == AccessInit /\ [][AccessNext]_accessVars

-----------------------------------------------------------------------------
(* What a manifest declares, said without the core's normal form.          *)

\* Where the file system gets to: read from the end, each ".." takes one
\* component before it away, and nothing is above the root.
Back(c, rest) ==
    IF c = Parent THEN [rest EXCEPT !.skip = @ + 1]
    ELSE IF rest.skip > 0 THEN [rest EXCEPT !.skip = @ - 1]
    ELSE [rest EXCEPT !.kept = <<c>> \o @]

Reached(p) ==
    FoldRight(Back, IF p.absolute THEN p.names ELSE Cwd \o p.names,
              [skip |-> 0, kept |-> <<>>]).kept

\* A directory has all below it, and itself: the code compares the two without
\* their slashes (permissions.rs:34-41), where docs/SDK/capability-fs.md:126-128
\* has it match with its slash only.  What is not given as a directory is none, which a slash
\* at the end would make of it; the root is one either way.
Covers(entry, p) ==
    IF entry.slash THEN IsPrefix(Reached(entry), Reached(p))
    ELSE Reached(entry) = Reached(p) /\ (p.slash => Reached(p) = <<>>)

Declares(m, p) == \E entry \in m.paths : Covers(entry, p)

\* "", "." and "..": a relative path of which the normal form leaves nothing.
\* It is then the root's, wherever the core was started.
TakenForRoot(p) == ~p.absolute /\ \A i \in DOMAIN p.names : p.names[i] = Parent

NamesRoot(m) == \E entry \in m.paths : Reached(entry) = <<>>

\* Of two files that name one app, neither speaks for it.
SpeaksFor(app) ==
    LET files == {f \in Written(startedFrom) : startedFrom[f].app = app}
    IN  {startedFrom[f] : f \in {g \in files : files = {g}}}

(* An app gets at the files and the hosts that the one manifest naming it  *)
(* declared when the core started, whatever detours a path or a server's   *)
(* redirects take and whatever was edited since; and of what it declared   *)
(* nothing is refused that is asked for by an absolute path or directly.   *)
(* One exception is the normal form's: an app whose manifest names the     *)
(* root gets at the directory the core was started in and at those above   *)
(* it, by a relative path with nothing but ".." in it                      *)
(* (permissions.rs:12-109, http.rs:65-101, app_manifest.rs:331-373).       *)
FileAccessIsAsDeclared ==
    access.kind = "fs" =>
        LET declared == \E m \in SpeaksFor(access.app) : Declares(m, access.path)
            named == \E m \in SpeaksFor(access.app) : NamesRoot(m)
        IN  /\ access.granted => declared \/ (TakenForRoot(access.path) /\ named)
            /\ declared /\ access.path.absolute => access.granted

HostAccessIsAsDeclared ==
    access.kind = "http" =>
        /\ access.granted <=>
              \E m \in SpeaksFor(access.app) : access.hosts \subseteq m.domains
        /\ access.hops < MaxRedirects

AccessIsAsDeclared == FileAccessIsAsDeclared /\ HostAccessIsAsDeclared

(* Why: the registry is that of a start that went well, so one manifest at *)
(* most speaks for an app, and a request was decided, and its redirects    *)
(* are, by the registry there is now.                                      *)
Contents == [ManifestFile -> Manifest \cup {NoManifest, Unreadable}]

FileAccess ==
    [kind: {"fs"}, app: {m.app : m \in Manifest}, path: Path, granted: BOOLEAN]

HostAccess ==
    [kind: {"http"}, app: {m.app : m \in Manifest}, hosts: SUBSET Host, hops: Nat,
     granted: BOOLEAN, pending: BOOLEAN]

AccessIInv ==
    /\ appsDir \in Contents /\ startedFrom \in Contents
    /\ Running => Loadable(startedFrom) /\ registry = Load(startedFrom)
    /\ access \in {NoAccess} \cup FileAccess \cup HostAccess
    /\ access # NoAccess => Running
    /\ access.kind = "fs" =>
          (access.granted <=> \E m \in Get(access.app) : CheckFsPermission(m, access.path))
    /\ access.kind = "http" =>
          /\ access.granted <=> \E m \in Get(access.app) : access.hosts \subseteq m.domains
          /\ access.pending => access.granted
          /\ access.hops < MaxRedirects
=============================================================================
