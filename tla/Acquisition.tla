----------------------------- MODULE Acquisition -----------------------------
(***************************************************************************)
(* What one ingestion job does outside the database: the git commands of   *)
(* clone_repository, the walk of scan_repository with its limits and       *)
(* exclusions, and the removal of the workspace, for all deliveries of the *)
(* job's message.  RepositoryLifecycle has the job's transaction.          *)
(*                                                                         *)
(* A file is [path, size, traits]: its place in the order of paths, what   *)
(* lstat says of its size, and what the scan can find out about it:        *)
(*   pruned      in an excluded or ignored directory, or reached through   *)
(*               a symlink to a directory: the walk never gets there       *)
(*   longPath, deepPath, outside   the path exceeds a limit or resolves    *)
(*               outside the workspace                                     *)
(*   gone        lstat fails                                               *)
(*   symlink, ignored, secret, media, noStat, big   what the name, the     *)
(*               ignore file and stat say                                  *)
(*   unreadable, binary, notUtf8, manyLines   what reading it says         *)
(***************************************************************************)
EXTENDS Naturals, Sequences, FiniteSets, FiniteSetsExt

CONSTANTS
  Checkouts,    \* the file sets a clone may yield
  Refs,         \* kinds of requested_ref: "none", "name" or "sha"
  MaxFiles,     \* ingestion_max_files
  MaxBytes,     \* ingestion_max_total_bytes
  MaxSymlinks,  \* ingestion_max_symlinks
  MaxKills      \* bound: how often a worker dies

FatalTraits == {"longPath", "deepPath", "outside"}
NameTraits == {"ignored", "secret", "media", "noStat", "big"}
ContentTraits == {"unreadable", "binary", "notUtf8", "manyLines"}
Traits == {"pruned", "gone", "symlink"} \cup FatalTraits \cup NameTraits \cup ContentTraits

ASSUME AcquisitionLimits == {MaxFiles, MaxBytes, MaxSymlinks, MaxKills} \subseteq Nat

\* A clone yields finitely many files, each with a path of its own.
ASSUME CheckoutsAreFileSets ==
  \A files \in Checkouts :
    /\ IsFiniteSet(files)
    /\ \A f \in files : f.path \in Nat /\ f.size \in Nat /\ f.traits \subseteq Traits
    /\ \A f, g \in files : f.path = g.path => f = g

VARIABLES
  ref,        \* the ref of the repository's indexing_config
  commands,   \* git commands still to run
  workspace,  \* this delivery's directory exists
  checkout,   \* its files
  visited,    \* files the walk has come to
  rows,       \* files: scanned entries so far
  counts,     \* total_files, total_bytes, symlinks, accepted_count
  leftovers,  \* directories of earlier deliveries
  kills,      \* workers that died
  acquiring,  \* "git", "scan", "removing" or "ended"
  outcome     \* what ingest will record, or "none" before it is known

acquireVars ==
  <<ref, commands, workspace, checkout, visited, rows, counts, leftovers, kills, acquiring,
    outcome>>

\* A ref that looks like a commit is fetched and checked out separately.
GitCommands(r) ==
  <<"clone">> \o (IF r = "sha" THEN <<"fetch", "checkout">> ELSE <<>>) \o <<"rev-parse">>

GitCodes == {"clone_failed", "clone_timeout", "git_unavailable", "commit_resolution_failed"}
ScanCodes == {"path_too_long", "path_too_deep", "path_escape", "file_count_limit",
              "repository_too_large", "symlink_limit"}
Outcomes == {"none", "succeeded", "raised"} \cup GitCodes \cup ScanCodes

NoCounts == [files |-> 0, bytes |-> 0, links |-> 0, accepted |-> 0]

StartJob ==
  /\ ref \in Refs
  /\ commands = GitCommands(ref)
  /\ workspace = FALSE
  /\ checkout = {} /\ visited = {} /\ rows = {}
  /\ counts = NoCounts
  /\ leftovers = 0 /\ kills = 0
  /\ acquiring = "git" /\ outcome = "none"

InGit == acquiring = "git" /\ commands # <<>>

\* The last command leaves the workspace to the scan.
CommandSucceeds ==
  /\ InGit
  /\ commands' = Tail(commands)
  /\ workspace' = TRUE
  /\ IF commands' = <<>> THEN acquiring' = "scan" /\ checkout' \in Checkouts
                         ELSE UNCHANGED <<acquiring, checkout>>
  /\ UNCHANGED <<ref, visited, rows, counts, leftovers, kills, outcome>>

CodeFits(code) ==
  CASE code = "commit_resolution_failed" -> Head(commands) = "rev-parse"
    [] code = "clone_failed"             -> Head(commands) # "rev-parse"
    [] OTHER                             -> TRUE

\* Slip: only a timeout removes the workspace.
SlipCommandFails(code) ==
  /\ InGit
  /\ code \in GitCodes /\ CodeFits(code)
  /\ workspace' = (workspace /\ code # "clone_timeout")
  /\ acquiring' = "ended" /\ outcome' = code
  /\ UNCHANGED <<ref, commands, checkout, visited, rows, counts, leftovers, kills>>

\* A return code, a timeout or an OSError becomes CloneFailureError after the
\* workspace has been removed.
CommandFails(code) ==
  /\ InGit
  /\ code \in GitCodes /\ CodeFits(code)
  /\ workspace' = FALSE
  /\ acquiring' = "ended" /\ outcome' = code
  /\ UNCHANGED <<ref, commands, checkout, visited, rows, counts, leftovers, kills>>

\* Any other exception (undecodable output, the soft time limit), or rmtree
\* failing in one of the handlers: ingest does not know the workspace yet, so
\* no one removes what there is of it.
CommandRaises ==
  /\ InGit
  /\ workspace' \in {workspace, TRUE}
  /\ acquiring' = "ended" /\ outcome' = "raised"
  /\ UNCHANGED <<ref, commands, checkout, visited, rows, counts, leftovers, kills>>
----------------------------------------------------------------------------
Walkable == {f \in checkout : "pruned" \notin f.traits}

\* Slip: a symlink with a harmless name is read like a file.
SlipReason(f) ==
  CASE f.traits \cap NameTraits # {}    -> "name"
    [] f.traits \cap ContentTraits # {} -> "content"
    [] OTHER                            -> "none"

\* excluded_reason, by the kind of check that gives it.
Reason(f) ==
  CASE "gone" \in f.traits              -> "name"
    [] "symlink" \in f.traits           -> "name"
    [] f.traits \cap NameTraits # {}    -> "name"
    [] f.traits \cap ContentTraits # {} -> "content"
    [] OTHER                            -> "none"

Row(f) == [path |-> f.path, excluded |-> Reason(f)]

\* The counters once f has been counted.  A file that lstat cannot find is
\* counted as a file only; accepted_count also counts the files that
\* _scan_file excludes by their content.
Counted(f) ==
  LET found == "gone" \notin f.traits
  IN  [files    |-> counts.files + 1,
       bytes    |-> counts.bytes + (IF found THEN f.size ELSE 0),
       links    |-> counts.links + (IF found /\ "symlink" \in f.traits THEN 1 ELSE 0),
       accepted |-> counts.accepted + (IF Reason(f) = "name" THEN 0 ELSE 1)]

\* Slip: the limit on files is off by one.
SlipRefusal(f) ==
  CASE "longPath" \in f.traits             -> "path_too_long"
    [] "deepPath" \in f.traits             -> "path_too_deep"
    [] "outside" \in f.traits              -> "path_escape"
    [] Counted(f).files > MaxFiles + 1     -> "file_count_limit"
    [] Counted(f).bytes > MaxBytes         -> "repository_too_large"
    [] Counted(f).links > MaxSymlinks      -> "symlink_limit"
    [] OTHER                               -> "none"

\* The checks of the walk in their order.
Refusal(f) ==
  CASE "longPath" \in f.traits             -> "path_too_long"
    [] "deepPath" \in f.traits             -> "path_too_deep"
    [] "outside" \in f.traits              -> "path_escape"
    [] Counted(f).files > MaxFiles         -> "file_count_limit"
    [] Counted(f).bytes > MaxBytes         -> "repository_too_large"
    [] Counted(f).links > MaxSymlinks      -> "symlink_limit"
    [] OTHER                               -> "none"

\* From here on ingest's finally block removes the workspace.
Leave(result) == acquiring' = "removing" /\ outcome' = result

\* os.walk promises no order.
Visit(f) ==
  /\ acquiring = "scan"
  /\ f \in Walkable \ visited
  /\ visited' = visited \cup {f}
  /\ IF Refusal(f) = "none"
       THEN /\ rows' = rows \cup {Row(f)}
            /\ counts' = Counted(f)
            /\ UNCHANGED <<acquiring, outcome>>
       ELSE /\ Leave(Refusal(f))
            /\ UNCHANGED <<rows, counts>>
  /\ UNCHANGED <<ref, commands, workspace, checkout, leftovers, kills>>

WalkEnds ==
  /\ acquiring = "scan"
  /\ visited = Walkable
  /\ Leave("succeeded")
  /\ UNCHANGED <<ref, commands, workspace, checkout, visited, rows, counts, leftovers, kills>>

\* An ignore file that is not UTF-8, a refused transition, a time limit.
ScanRaises ==
  /\ acquiring = "scan"
  /\ Leave("raised")
  /\ UNCHANGED <<ref, commands, workspace, checkout, visited, rows, counts, leftovers, kills>>

RemoveWorkspace ==
  /\ acquiring = "removing"
  /\ workspace' = FALSE
  /\ acquiring' = "ended"
  /\ UNCHANGED <<ref, commands, checkout, visited, rows, counts, leftovers, kills, outcome>>

\* rmtree raises: the exception replaces the outcome and the transaction is
\* rolled back.
RemoveFails ==
  /\ acquiring = "removing"
  /\ acquiring' = "ended" /\ outcome' = "raised"
  /\ UNCHANGED <<ref, commands, workspace, checkout, visited, rows, counts, leftovers, kills>>

\* Slip: the next delivery of the message is lost with the worker.
SlipKilled ==
  /\ acquiring # "ended"
  /\ kills < MaxKills
  /\ kills' = kills + 1
  /\ acquiring' = "ended"
  /\ UNCHANGED <<ref, commands, workspace, checkout, visited, rows, counts, leftovers, outcome>>

\* The worker dies; the next delivery starts over in a directory of its own.
Killed ==
  /\ acquiring # "ended"
  /\ kills < MaxKills
  /\ kills' = kills + 1
  /\ leftovers' = leftovers + (IF workspace THEN 1 ELSE 0)
  /\ commands' = GitCommands(ref)
  /\ workspace' = FALSE
  /\ checkout' = {} /\ visited' = {} /\ rows' = {}
  /\ counts' = NoCounts
  /\ acquiring' = "git" /\ outcome' = "none"
  /\ UNCHANGED ref

AcquireNext ==
  \/ CommandSucceeds
  \/ \E code \in GitCodes : CommandFails(code)
  \/ CommandRaises
  \/ \E f \in checkout : Visit(f)
  \/ WalkEnds \/ ScanRaises \/ RemoveWorkspace \/ RemoveFails
  \/ Killed

Acquired == acquiring = "ended"

AcquireSpec == StartJob /\ [][AcquireNext]_acquireVars
----------------------------------------------------------------------------
(* Properties.                                                             *)

\* A job that is recorded, as succeeded or failed, leaves no directory behind:
\* every directory there is belongs to a worker that died or to an exception
\* that the job let through.
NoWorkspaceLeft ==
  Acquired =>
    leftovers + (IF workspace THEN 1 ELSE 0) <= kills + (IF outcome = "raised" THEN 1 ELSE 0)

\* Whether a repository is accepted does not depend on the order of the walk:
\* it is refused exactly if some file or some total exceeds its limit.
Excessive ==
  LET found == {f \in Walkable : "gone" \notin f.traits}
  IN  \/ \E f \in Walkable : f.traits \cap FatalTraits # {}
      \/ Cardinality(Walkable) > MaxFiles
      \/ MapThenSumSet(LAMBDA f : f.size, found) > MaxBytes
      \/ Cardinality({f \in found : "symlink" \in f.traits}) > MaxSymlinks

OrderDoesNotDecide ==
  /\ outcome = "succeeded" => ~Excessive
  /\ outcome \in ScanCodes => Excessive

\* The files a successful scan hands on are exactly the walked files without
\* any objection, whichever of several objections a file meets first; and
\* revision.file_count is their number plus the files excluded by content.
Harmless(f) == f.traits = {}

ScanSelects ==
  outcome = "succeeded" =>
    LET accepted == {r \in rows : r.excluded = "none"}
        byContent == {r \in rows : r.excluded = "content"}
    IN  /\ {r.path : r \in accepted} = {f.path : f \in {g \in checkout : Harmless(g)}}
        /\ counts.accepted = Cardinality(accepted) + Cardinality(byContent)
        /\ Cardinality(rows) = Cardinality(Walkable)
=============================================================================
