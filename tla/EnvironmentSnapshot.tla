-------------------------- MODULE EnvironmentSnapshot --------------------------
(***************************************************************************)
(* populateConfigFromFS (internal/proxy/config.go): what the request tells *)
(* CommandCode of the project's git repository.  Each field is the output  *)
(* of a git command of its own, and the developer, or the very tools the   *)
(* model called, go on changing the project in between.                    *)
(*                                                                         *)
(* A file is a number, in the order git lists paths; its state is the two  *)
(* columns XY of `git status --porcelain'.  A commit is the set of files   *)
(* it took.  The branches, the names of directories and the date are left  *)
(* out: nothing else the request says depends on them.                     *)
(***************************************************************************)
EXTENDS Integers, Sequences, FiniteSets

CONSTANTS
    FileCount,      \* files of the project
    Codes,          \* XY columns a changed file may have at first
    Edits,          \* and those it may come to have later
    RecentCount,    \* recentCommitCount
    MaxChanges      \* bound: what happens to the project meanwhile

Files == 1 .. FileCount
Clean == <<" ", " ">>
Untracked == <<"?", "?">>
Columns == {" ", "M", "A", "D", "R", "C", "T", "U", "?"}
Categories == {"M", "A", "D", "R", "??"}

Unmerged == {<<"U", "U">>, <<"A", "A">>, <<"D", "D">>, <<"A", "U">>, <<"U", "A">>,
             <<"D", "U">>, <<"U", "D">>}

\* Files that are new, moved or copied in the worktree alone (git add -N).
NewInWorktree == {<<" ", y>> : y \in {"A", "R", "C"}}

\* The pairs of columns that git lists, by git-status(1).
GitCodes ==
    {code \in (Columns \ {"U", "?"}) \X {" ", "M", "T", "D"} :
        code \notin {Clean, <<"D", "M">>, <<"D", "T">>}}
    \cup {<<"D", "R">>, <<"D", "C">>} \cup NewInWorktree \cup Unmerged \cup {Untracked}

ASSUME CountsAreNat == FileCount \in Nat /\ RecentCount \in Nat /\ MaxChanges \in Nat
ASSUME CodesAreGits == Codes \subseteq GitCodes /\ Edits \subseteq Codes

VARIABLES
    worktree,   \* the project: per file, its columns
    log,        \* its commits, the newest last
    changes,    \* what has happened to it, for the bound
    read,       \* the field that is read next, or "none"
    config,     \* the fields read so far
    failed,     \* history: the fields whose git command failed
    listed,     \* history: worktree when status was read, and Clean before
    pending     \* history: files changed when the reading began, and not
                \* reverted since

projectVars == <<worktree, log, changes>>
snapshotVars == <<read, config, failed, listed, pending>>

Worktrees == [Files -> Codes \cup {Clean}]
Fields == {"gitStatus", "recentCommits"}
NoCounts == [c \in Categories |-> 0]
NoConfig == [gitStatus |-> NoCounts, recentCommits |-> {}]

SnapshotTypeOK ==
    /\ worktree \in Worktrees
    /\ log \in Seq(SUBSET Files)
    /\ changes \in 0 .. MaxChanges
    /\ read \in Fields \cup {"none"}
    /\ config \in [gitStatus: [Categories -> 0 .. FileCount],
                   recentCommits: SUBSET SUBSET Files]
    /\ failed \in SUBSET Fields
    /\ listed \in Worktrees
    /\ pending \in SUBSET Files

Changed(tree) == {f \in Files : tree[f] # Clean}

SnapshotInit ==
    /\ worktree \in Worktrees
    /\ log = <<>>
    /\ changes = 0
    /\ read = "none"
    /\ config = NoConfig
    /\ failed = {}
    /\ listed = [f \in Files |-> Clean]
    /\ pending = {}

-------------------------------------------------------------------------------
(***************************************************************************)
(* The project (external): what its developer does.                        *)
(***************************************************************************)

Happens == changes < MaxChanges /\ changes' = changes + 1

Edit(f, code) ==
    /\ Happens
    /\ worktree' = [worktree EXCEPT ![f] = code]
    /\ UNCHANGED <<log, snapshotVars>>

Revert(f) ==
    /\ Happens
    /\ worktree' = [worktree EXCEPT ![f] = Clean]
    /\ pending' = pending \ {f}
    /\ UNCHANGED <<log, read, config, failed, listed>>

Commit(S) ==
    /\ Happens
    /\ S # {} /\ S \subseteq Changed(worktree)
    /\ worktree' = [f \in Files |-> IF f \in S THEN Clean ELSE worktree[f]]
    /\ log' = Append(log, S)
    /\ UNCHANGED snapshotVars

ProjectStep ==
    \/ \E f \in Files, code \in Edits : Edit(f, code)
    \/ \E f \in Files : Revert(f)
    \/ \E S \in SUBSET Files : Commit(S)

-------------------------------------------------------------------------------
(***************************************************************************)
(* What the fields are made of.                                            *)
(***************************************************************************)

\* Tracked files are listed first, so only they can lose a leading space.
Tracked(tree) == {f \in Changed(tree) : tree[f] # Untracked}

\* gitOutput trims the listing: " M f" on its first line becomes "M f", whose
\* second column is the space before the path.
Trimmed(tree, f) ==
    IF tree[f][1] = " " /\ f \in Tracked(tree) /\ \A g \in Tracked(tree) : f <= g
    THEN <<tree[f][2], " ">>
    ELSE tree[f]

\* Seeded defect: deletions are looked for in the worktree's column only.
CategoryUnstaged(code) ==
    LET x == code[1]  y == code[2] IN
    IF x = "?" /\ y = "?" THEN "??"
    ELSE IF x = "U" \/ y = "U" \/ (x = "A" /\ y = "A") \/ (x = "D" /\ y = "D") THEN "M"
    ELSE IF x = "R" THEN "R"
    ELSE IF x \in {"C", "A"} THEN "A"
    ELSE IF x \in {"M", "T"} \/ y \in {"M", "T"} THEN "M"
    ELSE IF y = "D" THEN "D"
    ELSE "none"

\* summarizePorcelain's switch, for one line.
Category(code) ==
    LET x == code[1]  y == code[2] IN
    IF x = "?" /\ y = "?" THEN "??"
    ELSE IF x = "U" \/ y = "U" \/ (x = "A" /\ y = "A") \/ (x = "D" /\ y = "D") THEN "M"
    ELSE IF x = "R" THEN "R"
    ELSE IF x \in {"C", "A"} THEN "A"
    ELSE IF x \in {"M", "T"} \/ y \in {"M", "T"} THEN "M"
    ELSE IF x = "D" \/ y = "D" THEN "D"
    ELSE "none"

\* summarizePorcelain: all zeroes is "Working tree clean".
Summary(tree) ==
    [c \in Categories |->
       Cardinality({f \in Changed(tree) : Category(Trimmed(tree, f)) = c})]

\* `git log -n': the newest commits.
Recent == {log[i] : i \in {j \in DOMAIN log : j > Len(log) - RecentCount}}

-------------------------------------------------------------------------------
(***************************************************************************)
(* The reading.                                                            *)
(***************************************************************************)

\* Seeded defect: the commits are read before the status.
FieldAfterLogFirst(field) ==
    [none |-> "recentCommits", recentCommits |-> "gitStatus",
     gitStatus |-> "none"][field]

\* The fields in the order populateConfigFromFS reads them.
FieldAfter(field) ==
    [none |-> "gitStatus", gitStatus |-> "recentCommits",
     recentCommits |-> "none"][field]

\* isGitRepo holds, and the first git command is next.
BeginReading ==
    /\ read' = FieldAfter("none")
    /\ pending' = Changed(worktree)
    /\ UNCHANGED <<config, failed, listed, projectVars>>

\* A git command; where it fails its output is the empty string, whose summary
\* is the clean one and which has no commits.
ReadField(ok) ==
    /\ read # "none"
    /\ config' = [config EXCEPT ![read] =
          IF read = "gitStatus" THEN IF ok THEN Summary(worktree) ELSE NoCounts
          ELSE IF ok THEN Recent ELSE {}]
    /\ failed' = IF ok THEN failed ELSE failed \cup {read}
    /\ listed' = IF read = "gitStatus" THEN worktree ELSE listed
    /\ read' = FieldAfter(read)
    /\ UNCHANGED <<pending, projectVars>>

-------------------------------------------------------------------------------
(***************************************************************************)
(* Properties.                                                             *)
(***************************************************************************)

\* The category of a column, by the comment on summarizePorcelain: copies
\* count as added, type changes as modified.
CategoryOf == [M |-> "M", T |-> "M", A |-> "A", C |-> "A", D |-> "D", R |-> "R"]

\* What a file counts as: the index decides, and where it has no change the
\* worktree; files in conflict are modified.
Deserved(code) ==
    IF code = Untracked THEN "??"
    ELSE IF code \in Unmerged THEN "M"
    ELSE CategoryOf[IF code[1] = " " THEN code[2] ELSE code[1]]

Deserving(c, S) == {f \in S : Deserved(listed[f]) = c}
Overlooked == {f \in Files : listed[f] \in NewInWorktree}

\* The summary counts each change git listed once and as what it is, though
\* trimming git's output shifts the columns of its first line.  Excepted are
\* files new in the worktree alone: but for the first one that git lists, they
\* are taken for unchanged.
SummaryTrue ==
    "gitStatus" \notin failed =>
        \A c \in Categories :
            /\ Cardinality(Deserving(c, Changed(listed) \ Overlooked)) <= config.gitStatus[c]
            /\ config.gitStatus[c] <= Cardinality(Deserving(c, Changed(listed)))

\* A change made before the reading began is not lost between two commands:
\* it was still there for git status, or its commit is among the recent ones.
\* Excepted are commands that fail, and more commits than are read.
ChangesSeen ==
    read = "none" /\ failed = {} /\ Len(log) <= RecentCount =>
        \A f \in pending : listed[f] # Clean \/ f \in UNION config.recentCommits

-------------------------------------------------------------------------------
(***************************************************************************)
(* The inductive invariant behind them.                                    *)
(***************************************************************************)

\* What was changed when the reading began is still changed, or was when status
\* was read, or is in a commit.
Committed(f) == \E i \in DOMAIN log : f \in log[i]
SeenInv ==
    /\ read = "gitStatus" => \A f \in pending : worktree[f] # Clean \/ Committed(f)
    /\ read = "recentCommits" => \A f \in pending : listed[f] # Clean \/ Committed(f)

\* The status is that of the worktree it was read of, or of none before.
CountInv == "gitStatus" \notin failed => config.gitStatus = Summary(listed)

SnapshotInv == SnapshotTypeOK /\ SeenInv /\ CountInv /\ ChangesSeen
===============================================================================
