------------------------ MODULE RequestBuilding_proofs -------------------------
(***************************************************************************)
(* Proofs about RequestBuilding and its EnvironmentSnapshot, for projects  *)
(* of any number of files, any changes to them and any requests.           *)
(***************************************************************************)
EXTENDS RequestBuilding, FiniteSetTheorems, FunctionTheorems, TLAPS

(***************************************************************************)
(* What the summary counts, file by file.                                  *)
(***************************************************************************)

\* Pairs agree by columns.
LEMMA PairsAgree == \A x, y, v, w : <<x, y>> = <<v, w>> <=> x = v /\ y = w
  OBVIOUS

\* An element of a product of sets is a pair.
LEMMA ProductsArePairs ==
    ASSUME NEW S, NEW T, NEW p \in S \X T
    PROVE  \E x \in S, y \in T : p = <<x, y>>
  OBVIOUS

\* A code that git lists is a pair of columns.
LEMMA CodeIsPair == ASSUME NEW code \in GitCodes PROVE \E x, y \in Columns : code = <<x, y>>
<1>1. CASE code \in (Columns \ {"U", "?"}) \X {" ", "M", "T", "D"}
  <2> DEFINE S == Columns \ {"U", "?"}
             T == {" ", "M", "T", "D"}
  <2> HIDE DEF S, T
  <2>1. code \in S \X T
    BY <1>1 DEF S, T
  <2>2. PICK x \in S, y \in T : code = <<x, y>>
    BY <2>1, ProductsArePairs
  <2>3. x \in Columns /\ y \in Columns
    BY <2>2 DEF S, T, Columns
  <2> QED
    BY <2>2, <2>3
<1>2. CASE code \in NewInWorktree
  BY <1>2 DEF NewInWorktree, Columns
<1>3. CASE code \in {<<"D", "R">>, <<"D", "C">>, Untracked}
  BY <1>3 DEF Untracked, Columns
<1>4. CASE code \in Unmerged
  BY <1>4 DEF Unmerged, Columns
<1> QED
  BY <1>1, <1>2, <1>3, <1>4 DEF GitCodes

\* The pairs git lists, column by column.
LEMMA CodePairs ==
    ASSUME NEW x, NEW y, <<x, y>> \in GitCodes
    PROVE  \/ /\ x \in {" ", "M", "A", "D", "R", "C", "T"} /\ y \in {" ", "M", "T", "D"}
              /\ ~(x = "D" /\ y \in {"M", "T"}) /\ ~(x = " " /\ y = " ")
           \/ x = "D" /\ y \in {"R", "C"}
           \/ x = " " /\ y \in {"A", "R", "C"}
           \/ <<x, y>> \in Unmerged
           \/ <<x, y>> = Untracked
<1>1. CASE /\ <<x, y>> \in (Columns \ {"U", "?"}) \X {" ", "M", "T", "D"}
           /\ <<x, y>> \notin {Clean, <<"D", "M">>, <<"D", "T">>}
  <2>1. x \in Columns \ {"U", "?"} /\ y \in {" ", "M", "T", "D"}
    BY <1>1
  <2>2. ~(x = "D" /\ y \in {"M", "T"}) /\ ~(x = " " /\ y = " ")
    BY <1>1 DEF Clean
  <2> QED
    BY <2>1, <2>2 DEF Columns
<1>2. CASE <<x, y>> \in {<<"D", "R">>, <<"D", "C">>}
  BY <1>2, PairsAgree
<1>3. CASE <<x, y>> \in NewInWorktree
  BY <1>3, PairsAgree DEF NewInWorktree
<1> QED
  BY <1>1, <1>2, <1>3 DEF GitCodes

\* The category of a column, by cases.
LEMMA ColumnCategory ==
    \A column \in {"M", "T", "A", "C", "D", "R"} :
        CategoryOf[column] = IF column = "T" THEN "M" ELSE IF column = "C" THEN "A" ELSE column
  BY DEF CategoryOf

\* What a pair is, by its columns.
LEMMA ColumnsTell ==
    ASSUME NEW x, NEW y
    PROVE  /\ <<x, y>> \in NewInWorktree <=> x = " " /\ y \in {"A", "R", "C"}
           /\ <<x, y>> = Untracked <=> x = "?" /\ y = "?"
           /\ <<x, y>> = Clean <=> x = " " /\ y = " "
           /\ <<x, y>> \in Unmerged <=>
                 \/ x = "U" /\ y \in {"U", "A", "D"}
                 \/ x = "A" /\ y \in {"A", "U"}
                 \/ x = "D" /\ y \in {"D", "U"}
<1>1. <<x, y>> \in NewInWorktree <=> x = " " /\ y \in {"A", "R", "C"}
  BY PairsAgree DEF NewInWorktree
<1>2. (<<x, y>> = Untracked <=> x = "?" /\ y = "?") /\ (<<x, y>> = Clean <=> x = " " /\ y = " ")
  BY PairsAgree DEF Untracked, Clean
<1>3. <<x, y>> \in Unmerged <=>
         \/ x = "U" /\ y \in {"U", "A", "D"}
         \/ x = "A" /\ y \in {"A", "U"}
         \/ x = "D" /\ y \in {"D", "U"}
  BY PairsAgree DEF Unmerged
<1> QED
  BY <1>1, <1>2, <1>3

\* A change is counted as what it is, unless it is new in the worktree alone,
\* and then it is not counted at all.
LEMMA CategoryRight ==
    ASSUME NEW code \in GitCodes
    PROVE  /\ code \notin NewInWorktree => Category(code) = Deserved(code)
           /\ code \in NewInWorktree => Category(code) = "none"
<1>1. PICK x, y \in Columns : code = <<x, y>>
  BY CodeIsPair
<1> DEFINE pair == <<x, y>>
<1>2. CASE <<x, y>> \in Unmerged
  <2>1. Deserved(pair) = "M" /\ pair \notin NewInWorktree
    BY <1>2, ColumnsTell DEF Deserved
  <2>2. Category(pair) = "M"
    BY <1>2, ColumnsTell DEF Category
  <2> QED
    BY <1>1, <2>1, <2>2
<1>3. CASE <<x, y>> = Untracked
  <2>1. Deserved(pair) = "??" /\ pair \notin NewInWorktree
    BY <1>3, ColumnsTell DEF Deserved
  <2>2. Category(pair) = "??"
    BY <1>3, ColumnsTell DEF Category
  <2> QED
    BY <1>1, <2>1, <2>2
<1>4. CASE <<x, y>> \notin Unmerged /\ <<x, y>> # Untracked
  <2>1. Deserved(pair) = CategoryOf[IF x = " " THEN y ELSE x]
    BY <1>4 DEF Deserved
  <2>2. CASE x = " "
    <3>1. y \in {"M", "T", "D", "A", "R", "C"}
      BY <1>1, <1>4, <2>2, CodePairs
    <3>2. pair \in NewInWorktree <=> y \in {"A", "R", "C"}
      BY <2>2, ColumnsTell
    <3>3. Category(pair) = IF y \in {"A", "R", "C"} THEN "none" ELSE CategoryOf[y]
      BY <2>2, <3>1, ColumnCategory DEF Category
    <3> QED
      BY <1>1, <2>1, <2>2, <3>2, <3>3
  <2>3. CASE x # " "
    <3>4. ~(x = "D" /\ y = "D")
      BY <1>4, ColumnsTell
    <3>1. /\ x \in {"M", "A", "D", "R", "C", "T"} /\ y \in {" ", "M", "T", "D", "R", "C"}
          /\ x = "D" => y \notin {"M", "T", "D"}
      BY <1>1, <1>4, <2>3, <3>4, CodePairs
    <3>2. pair \notin NewInWorktree
      BY <2>3, ColumnsTell
    <3>3. Category(pair) = CategoryOf[x]
      BY <3>1, ColumnCategory DEF Category
    <3> QED
      BY <1>1, <2>1, <2>3, <3>2, <3>3
  <2> QED
    BY <2>2, <2>3
<1> QED
  BY <1>2, <1>3, <1>4

\* A first line that lost its leading space says the same of the file.
LEMMA ShiftHarmless ==
    ASSUME NEW code \in GitCodes, code[1] = " "
    PROVE  Category(<<code[2], " ">>) = Deserved(code)
<1>1. PICK x, y \in Columns : code = <<x, y>>
  BY CodeIsPair
<1>2. x = " " /\ code[2] = y
  BY <1>1
<1>3. /\ x \notin {"U", "A", "D"} => <<x, y>> \notin Unmerged
      /\ x # "?" => <<x, y>> # Untracked
  BY ColumnsTell
<1>4. y \in {"M", "T", "D", "A", "R", "C"}
  BY <1>1, <1>2, <1>3, CodePairs
<1>5. Deserved(<<x, y>>) = CategoryOf[y]
  BY <1>2, <1>3 DEF Deserved
<1> QED
  BY <1>1, <1>2, <1>4, <1>5, ColumnCategory DEF Category

\* A listed change is counted as what it is, or is overlooked.
LEMMA LineCounted ==
    ASSUME NEW tree \in Worktrees, NEW f \in Changed(tree)
    PROVE  /\ Category(Trimmed(tree, f)) \in {Deserved(tree[f]), "none"}
           /\ tree[f] \notin NewInWorktree => Category(Trimmed(tree, f)) = Deserved(tree[f])
<1>1. tree[f] \in GitCodes
  BY CodesAreGits DEF Worktrees, Changed
<1>2. CASE Trimmed(tree, f) = tree[f]
  BY <1>1, <1>2, CategoryRight
<1>3. CASE tree[f][1] = " " /\ Trimmed(tree, f) = <<tree[f][2], " ">>
  BY <1>1, <1>3, ShiftHarmless
<1> QED
  BY <1>2, <1>3 DEF Trimmed

\* Sets of files are finite, and a larger one has no fewer.
LEMMA FilesCounted ==
    ASSUME NEW S \in SUBSET Files, NEW T \in SUBSET S
    PROVE  /\ IsFiniteSet(S) /\ Cardinality(S) \in 0 .. FileCount
           /\ Cardinality(T) \in Nat /\ Cardinality(T) <= Cardinality(S)
<1>1. IsFiniteSet(Files) /\ Cardinality(Files) = FileCount
  BY CountsAreNat, FS_Interval DEF Files
<1>2. IsFiniteSet(S) /\ Cardinality(S) <= FileCount
  BY <1>1, FS_Subset
<1>3. IsFiniteSet(T) /\ Cardinality(T) <= Cardinality(S)
  BY <1>2, FS_Subset
<1> QED
  BY <1>2, <1>3, FS_CardinalityType, CountsAreNat

\* A summary has a count for each category.
LEMMA SummaryType ==
    ASSUME NEW tree
    PROVE  Summary(tree) \in [Categories -> 0 .. FileCount]
<1> SUFFICES ASSUME NEW c \in Categories
             PROVE  Cardinality({f \in Changed(tree) : Category(Trimmed(tree, f)) = c})
                        \in 0 .. FileCount
  BY DEF Summary
<1>1. {f \in Changed(tree) : Category(Trimmed(tree, f)) = c} \in SUBSET Files
  BY DEF Changed
<1> QED
  BY <1>1, FilesCounted

\* Nothing changed counts as nothing.
LEMMA CleanSummary == Summary([f \in Files |-> Clean]) = NoCounts
<1>1. Changed([f \in Files |-> Clean]) = {}
  BY DEF Changed
<1>2. \A c \in Categories :
        {f \in Changed([g \in Files |-> Clean]) :
            Category(Trimmed([g \in Files |-> Clean], f)) = c} = {}
  BY <1>1
<1>3. Cardinality({}) = 0
  BY FS_EmptySet
<1> QED
  BY <1>2, <1>3 DEF Summary, NoCounts

\* The count of a listing that was read lies between the two that SummaryTrue
\* compares it with.
LEMMA CountsTrue == SnapshotTypeOK /\ CountInv => SummaryTrue
<1> SUFFICES ASSUME SnapshotTypeOK, CountInv,
                    "gitStatus" \notin failed, NEW c \in Categories
             PROVE  /\ Cardinality(Deserving(c, Changed(listed) \ Overlooked))
                          <= config.gitStatus[c]
                    /\ config.gitStatus[c] <= Cardinality(Deserving(c, Changed(listed)))
  BY DEF SummaryTrue
<1> DEFINE counted == {f \in Changed(listed) : Category(Trimmed(listed, f)) = c}
<1>1. config.gitStatus[c] = Cardinality(counted)
  BY DEF CountInv, Summary
<1>2. \A f \in Changed(listed) :
         /\ Category(Trimmed(listed, f)) \in {Deserved(listed[f]), "none"}
         /\ listed[f] \notin NewInWorktree =>
               Category(Trimmed(listed, f)) = Deserved(listed[f])
  BY LineCounted DEF SnapshotTypeOK
<1>3. c # "none"
  BY DEF Categories
<1>4. counted \subseteq Deserving(c, Changed(listed))
  BY <1>2, <1>3 DEF Deserving
<1>5. Deserving(c, Changed(listed) \ Overlooked) \subseteq counted
  BY <1>2 DEF Deserving, Overlooked, Changed
<1>6. counted \subseteq Files /\ Deserving(c, Changed(listed)) \subseteq Files
  BY DEF Changed, Deserving
<1> HIDE DEF counted
<1> QED
  BY <1>1, <1>4, <1>5, <1>6, FilesCounted

(***************************************************************************)
(* The snapshot: every step of the reading and of the project keeps what   *)
(* is known of it.                                                         *)
(***************************************************************************)

\* git lists no file without a change.
LEMMA CodesAreChanges == Clean \notin GitCodes
<1>1. ASSUME NEW x, NEW y, <<x, y>> \in GitCodes
      PROVE  ~(x = " " /\ y = " ")
  <2>1. /\ <<x, y>> = Untracked => x = "?"
        /\ <<x, y>> \in Unmerged => x \in {"U", "A", "D"}
    BY ColumnsTell
  <2> QED
    BY <1>1, <2>1, CodePairs
<1>2. <<" ", " ">> \notin GitCodes
  BY <1>1
<1> QED
  BY <1>2 DEF Clean

\* A project without changes is one.
LEMMA CleanIsTree == [f \in Files |-> Clean] \in Worktrees
  BY DEF Worktrees

\* Before it is read, nothing is known or pending.
LEMMA SnapshotStarts == SnapshotInit => SnapshotInv /\ read = "none"
<1> SUFFICES ASSUME SnapshotInit PROVE SnapshotInv /\ read = "none"
  OBVIOUS
<1>1. NoConfig \in [gitStatus: [Categories -> 0 .. FileCount],
                    recentCommits: SUBSET SUBSET Files]
  BY CountsAreNat DEF NoConfig, NoCounts
<1>2. SnapshotTypeOK
  BY <1>1, CleanIsTree, CountsAreNat DEF SnapshotInit, SnapshotTypeOK
<1>3. CountInv
  BY CleanSummary DEF SnapshotInit, CountInv, NoConfig
<1> QED
  BY <1>2, <1>3 DEF SnapshotInit, SnapshotInv, SeenInv, ChangesSeen

\* Steps that leave it alone.
LEMMA SnapshotRests ==
    ASSUME SnapshotInv, UNCHANGED <<projectVars, snapshotVars>>
    PROVE  SnapshotInv' /\ read' = read
<1>1. /\ worktree' = worktree /\ log' = log /\ changes' = changes /\ read' = read
      /\ config' = config /\ failed' = failed /\ listed' = listed /\ pending' = pending
  BY DEF projectVars, snapshotVars
<1>2. SnapshotTypeOK'
  BY <1>1 DEF SnapshotInv, SnapshotTypeOK
<1>3. SeenInv' /\ ChangesSeen'
  BY <1>1 DEF SnapshotInv, SeenInv, ChangesSeen, Committed
<1>4. Summary(listed)' = Summary(listed)
  BY <1>1 DEF Summary, Changed, Trimmed, Tracked
<1>5. CountInv'
  BY <1>1, <1>4 DEF SnapshotInv, CountInv
<1> QED
  BY <1>1, <1>2, <1>3, <1>5 DEF SnapshotInv

\* What is pending when the reading begins is what is changed then.
LEMMA ReadingBegins ==
    ASSUME SnapshotInv, read = "none", BeginReading
    PROVE  SnapshotInv' /\ read' # "none"
<1>1. /\ read' = "gitStatus" /\ pending' = Changed(worktree)
      /\ worktree' = worktree /\ log' = log /\ changes' = changes
      /\ config' = config /\ failed' = failed /\ listed' = listed
  BY DEF BeginReading, FieldAfter, projectVars
<1>2. SnapshotTypeOK'
  BY <1>1 DEF SnapshotInv, SnapshotTypeOK, Changed, Fields
<1>3. SeenInv'
  BY <1>1 DEF SeenInv, Changed
<1> QED
  BY <1>1, <1>2, <1>3 DEF SnapshotInv, CountInv, ChangesSeen

\* Few enough commits are all among the recent ones.
LEMMA FewAreRecent ==
    ASSUME SnapshotTypeOK, Len(log) <= RecentCount, NEW f, Committed(f)
    PROVE  f \in UNION Recent
<1>1. PICK i \in DOMAIN log : f \in log[i]
  BY DEF Committed
<1>2. DOMAIN log = 1 .. Len(log) /\ Len(log) \in Nat
  BY DEF SnapshotTypeOK
<1>3. i > Len(log) - RecentCount
  BY <1>1, <1>2, CountsAreNat
<1>4. log[i] \in Recent
  BY <1>1, <1>3 DEF Recent
<1> QED
  BY <1>1, <1>4

\* Commits are sets of files.
LEMMA RecentType == ASSUME SnapshotTypeOK PROVE Recent \in SUBSET SUBSET Files
  BY DEF SnapshotTypeOK, Recent

\* A git command is read.
LEMMA FieldIsRead ==
    ASSUME SnapshotInv, NEW ok \in BOOLEAN, ReadField(ok)
    PROVE  SnapshotInv'
<1>1. /\ read # "none" /\ read' = FieldAfter(read) /\ pending' = pending
      /\ worktree' = worktree /\ log' = log /\ changes' = changes
      /\ failed' = IF ok THEN failed ELSE failed \cup {read}
      /\ listed' = IF read = "gitStatus" THEN worktree ELSE listed
  BY DEF ReadField, projectVars
<1>2. SnapshotTypeOK
  BY DEF SnapshotInv
<1>3. CASE read = "gitStatus"
  <2>1. config' = [config EXCEPT !.gitStatus = IF ok THEN Summary(worktree) ELSE NoCounts]
    BY <1>3 DEF ReadField
  <2>2. NoCounts \in [Categories -> 0 .. FileCount] /\ Summary(worktree) \in [Categories -> 0 .. FileCount]
    BY SummaryType, CountsAreNat DEF NoCounts
  <2>3. /\ config' \in [gitStatus: [Categories -> 0 .. FileCount],
                         recentCommits: SUBSET SUBSET Files]
        /\ config'.gitStatus = IF ok THEN Summary(worktree) ELSE NoCounts
    BY <1>2, <2>1, <2>2 DEF SnapshotTypeOK
  <2>4. read' = "recentCommits" /\ listed' = worktree
    BY <1>1, <1>3 DEF FieldAfter
  <2>5. SnapshotTypeOK'
    BY <1>1, <1>2, <1>3, <2>3, <2>4 DEF SnapshotTypeOK, Fields
  <2>6. SeenInv'
    BY <1>1, <1>3, <2>4 DEF SnapshotInv, SeenInv, Committed
  <2>7. "gitStatus" \notin failed' => ok
    BY <1>1, <1>3
  <2>8. Summary(worktree) = Summary(listed)'
    BY <2>4 DEF Summary, Changed, Trimmed, Tracked
  <2>9. CountInv'
    BY <2>3, <2>4, <2>7, <2>8 DEF CountInv
  <2> QED
    BY <2>4, <2>5, <2>6, <2>9 DEF SnapshotInv, ChangesSeen
<1>4. CASE read = "recentCommits"
  <2>1. config' = [config EXCEPT !.recentCommits = IF ok THEN Recent ELSE {}]
    BY <1>4 DEF ReadField
  <2>2. /\ config' \in [gitStatus: [Categories -> 0 .. FileCount],
                         recentCommits: SUBSET SUBSET Files]
        /\ config'.gitStatus = config.gitStatus
        /\ config'.recentCommits = IF ok THEN Recent ELSE {}
    BY <1>2, <2>1, RecentType DEF SnapshotTypeOK
  <2>3. read' = "none" /\ listed' = listed
    BY <1>1, <1>4 DEF FieldAfter
  <2>4. SnapshotTypeOK'
    BY <1>1, <1>2, <1>4, <2>2, <2>3 DEF SnapshotTypeOK, Fields
  <2>5. CountInv'
    <3>1. Summary(listed)' = Summary(listed)
      BY <2>3 DEF Summary, Changed, Trimmed, Tracked
    <3>2. failed \subseteq failed'
      BY <1>1
    <3> QED
      BY <1>4, <2>2, <3>1, <3>2 DEF SnapshotInv, CountInv
  <2>6. ChangesSeen'
    <3> SUFFICES ASSUME failed' = {}, Len(log) <= RecentCount, NEW f \in pending
                 PROVE  listed[f] # Clean \/ f \in UNION config'.recentCommits
      BY <1>1, <2>3 DEF ChangesSeen
    <3>1. ok
      BY <1>1
    <3>2. listed[f] # Clean \/ Committed(f)
      BY <1>4 DEF SnapshotInv, SeenInv
    <3> QED
      BY <1>2, <2>2, <3>1, <3>2, FewAreRecent
  <2> QED
    BY <2>3, <2>4, <2>5, <2>6 DEF SnapshotInv, SeenInv
<1> QED
  BY <1>1, <1>2, <1>3, <1>4 DEF SnapshotTypeOK, Fields

\* What the developer does while it is read.
LEMMA ProjectMoves ==
    ASSUME SnapshotInv, read # "none", ProjectStep
    PROVE  SnapshotInv' /\ read' = read
<1>1. SnapshotTypeOK
  BY DEF SnapshotInv
<1>2. /\ read' = read /\ config' = config /\ failed' = failed /\ listed' = listed
      /\ changes' \in 0 .. MaxChanges
  <2>1. Happens
    BY DEF ProjectStep, Edit, Revert, Commit
  <2>2. changes' \in 0 .. MaxChanges
    BY <1>1, <2>1, CountsAreNat DEF Happens, SnapshotTypeOK
  <2> QED
    BY <2>2 DEF ProjectStep, Edit, Revert, Commit, snapshotVars
<1>3. CountInv'
  <2>1. Summary(listed)' = Summary(listed)
    BY <1>2 DEF Summary, Changed, Trimmed, Tracked
  <2> QED
    BY <1>2, <2>1 DEF SnapshotInv, CountInv
<1>4. ChangesSeen'
  BY <1>2 DEF ChangesSeen
<1>5. ASSUME NEW f \in Files, NEW code \in Edits, Edit(f, code)
      PROVE  SnapshotTypeOK' /\ SeenInv'
  <2>1. /\ worktree' = [worktree EXCEPT ![f] = code] /\ log' = log /\ pending' = pending
    BY <1>5 DEF Edit, snapshotVars
  <2>2. code \in Codes /\ code # Clean
    <3>1. code \in Codes /\ code \in GitCodes
      BY CodesAreGits
    <3> QED
      BY <3>1, CodesAreChanges
  <2>3. SnapshotTypeOK'
    BY <1>1, <1>2, <2>1, <2>2 DEF SnapshotTypeOK, Worktrees
  <2>4. \A g \in Files : worktree[g] # Clean => worktree'[g] # Clean
    BY <1>1, <2>1, <2>2 DEF SnapshotTypeOK, Worktrees
  <2> QED
    BY <1>1, <1>2, <2>1, <2>3, <2>4 DEF SnapshotInv, SnapshotTypeOK, SeenInv, Committed
<1>6. ASSUME NEW f \in Files, Revert(f)
      PROVE  SnapshotTypeOK' /\ SeenInv'
  <2>1. /\ worktree' = [worktree EXCEPT ![f] = Clean] /\ log' = log
        /\ pending' = pending \ {f}
    BY <1>6 DEF Revert
  <2>2. SnapshotTypeOK'
    BY <1>1, <1>2, <2>1 DEF SnapshotTypeOK, Worktrees
  <2>3. \A g \in Files \ {f} : worktree'[g] = worktree[g]
    BY <1>1, <2>1 DEF SnapshotTypeOK, Worktrees
  <2> QED
    BY <1>1, <1>2, <2>1, <2>2, <2>3 DEF SnapshotInv, SnapshotTypeOK, SeenInv, Committed
<1>7. ASSUME NEW S \in SUBSET Files, Commit(S)
      PROVE  SnapshotTypeOK' /\ SeenInv'
  <2>1. /\ worktree' = [f \in Files |-> IF f \in S THEN Clean ELSE worktree[f]]
        /\ log' = Append(log, S) /\ pending' = pending
    BY <1>7 DEF Commit, snapshotVars
  <2>2. log \in Seq(SUBSET Files) /\ log' \in Seq(SUBSET Files)
    BY <1>1, <2>1 DEF SnapshotTypeOK
  <2>3. SnapshotTypeOK'
    BY <1>1, <1>2, <2>1, <2>2 DEF SnapshotTypeOK, Worktrees
  <2>4. \A f \in Files : Committed(f) => Committed(f)'
    BY <2>1, <2>2 DEF Committed
  <2>5. \A f \in S : Committed(f)'
    <3>1. Len(log) + 1 \in DOMAIN log' /\ log'[Len(log) + 1] = S
      BY <2>1, <2>2
    <3> QED
      BY <3>1 DEF Committed
  <2>6. \A f \in Files \ S : worktree'[f] = worktree[f]
    BY <2>1
  <2> QED
    BY <1>1, <1>2, <2>1, <2>3, <2>4, <2>5, <2>6 DEF SnapshotInv, SnapshotTypeOK, SeenInv
<1> QED
  BY <1>2, <1>3, <1>4, <1>5, <1>6, <1>7 DEF ProjectStep, SnapshotInv

(***************************************************************************)
(* Loops that keep some elements of a sequence: the places of those kept   *)
(* are numbered in order.                                                  *)
(***************************************************************************)

\* The places up to one, and their number.
LEMMA RankCounts ==
    ASSUME NEW n \in Nat, NEW I \in SUBSET (1 .. n)
    PROVE  /\ IsFiniteSet(I) /\ Cardinality(I) \in Nat
           /\ \A i \in I : Rank(I, i) \in 1 .. Cardinality(I)
           /\ \A i, j \in I : i < j => Rank(I, i) < Rank(I, j)
<1> DEFINE Upto(i) == {j \in I : j <= i}
<1>1. IsFiniteSet(I) /\ Cardinality(I) \in Nat
  <2>1. IsFiniteSet(1 .. n)
    BY FS_Interval
  <2> QED
    BY <2>1, FS_Subset, FS_CardinalityType
<1>2. ASSUME NEW S \in SUBSET I
      PROVE  IsFiniteSet(S) /\ Cardinality(S) \in Nat /\ Cardinality(S) <= Cardinality(I)
  BY <1>1, FS_Subset, FS_CardinalityType
<1>3. ASSUME NEW i \in I PROVE Rank(I, i) \in 1 .. Cardinality(I)
  <2>1. Upto(i) \in SUBSET I /\ Upto(i) # {}
    OBVIOUS
  <2> HIDE DEF Upto
  <2>2. Cardinality(Upto(i)) # 0
    BY <1>2, <2>1, FS_EmptySet
  <2> QED
    BY <1>1, <1>2, <2>1, <2>2 DEF Rank, Upto
<1>4. ASSUME NEW i \in I, NEW j \in I, i < j PROVE Rank(I, i) < Rank(I, j)
  <2>1. i \in Nat /\ j \in Nat /\ I \subseteq Nat
    OBVIOUS
  <2>2. j \in Upto(j) /\ j \notin Upto(i)
    BY <1>4, <2>1
  <2>3. Upto(i) \in SUBSET Upto(j) /\ Upto(j) \in SUBSET I
    <3>1. \A l \in I : l <= i => l <= j
      BY <1>4, <2>1
    <3> QED
      BY <3>1
  <2> HIDE DEF Upto
  <2>4. Cardinality(Upto(i)) <= Cardinality(Upto(j)) /\ Cardinality(Upto(i)) # Cardinality(Upto(j))
    BY <1>2, <2>2, <2>3, FS_Subset
  <2>5. Cardinality(Upto(i)) \in Nat /\ Cardinality(Upto(j)) \in Nat
    BY <1>2, <2>3
  <2> QED
    BY <2>4, <2>5 DEF Rank, Upto
<1> QED
  BY <1>1, <1>3, <1>4

\* A set of places numbered in order has as many places, and the numbers are
\* their ranks.
LEMMA RankUnique ==
    ASSUME NEW n \in Nat, NEW I \in SUBSET (1 .. n),
           NEW m \in Nat, NEW f \in [I -> 1 .. m],
           \A i, j \in I : i < j => f[i] < f[j],
           \A k \in 1 .. m : \E i \in I : f[i] = k
    PROVE  Cardinality(I) = m /\ \A i \in I : f[i] = Rank(I, i)
<1>1. ASSUME NEW S \in SUBSET I, NEW k \in 0 .. m,
             \A i \in S : f[i] <= k, \A i \in I : f[i] <= k => i \in S
      PROVE  Cardinality(S) = k
  <2> DEFINE g == [i \in S |-> f[i]]
  <2>1. g \in [S -> 1 .. k]
    BY <1>1
  <2>2. \A i, j \in S : g[i] = g[j] => i = j
    <3> SUFFICES ASSUME NEW i \in S, NEW j \in S, f[i] = f[j], i # j PROVE FALSE
      OBVIOUS
    <3>1. i \in Nat /\ j \in Nat /\ f[i] \in Nat /\ f[j] \in Nat
      OBVIOUS
    <3> QED
      BY <3>1
  <2>3. \A v \in 1 .. k : \E i \in S : g[i] = v
    BY <1>1
  <2>4. g \in Bijection(S, 1 .. k)
    BY <2>1, <2>2, <2>3, Fun_IsBij
  <2>5. ExistsBijection(S, 1 .. k)
    BY <2>4 DEF ExistsBijection
  <2>6. IsFiniteSet(S)
    BY RankCounts, FS_Subset
  <2>7. Cardinality(1 .. k) = Cardinality(S)
    BY <2>5, <2>6, FS_Bijection
  <2>8. k \in Int /\ ~(1 > k + 0 /\ k # 0)
    OBVIOUS
  <2>9. Cardinality(1 .. k) = k
    BY <2>8, FS_Interval
  <2> QED
    BY <2>7, <2>9
<1>2. Cardinality(I) = m
  BY <1>1
<1>3. ASSUME NEW i \in I PROVE f[i] = Rank(I, i)
  <2> DEFINE S == {j \in I : j <= i}
  <2>1. S \in SUBSET I /\ f[i] \in 0 .. m
    OBVIOUS
  <2>2. \A j \in S : f[j] <= f[i]
    OBVIOUS
  <2>3. \A j \in I : f[j] <= f[i] => j \in S
    OBVIOUS
  <2> HIDE DEF S
  <2>4. Cardinality(S) = f[i]
    BY <1>1, <2>1, <2>2, <2>3
  <2> QED
    BY <2>4 DEF S, Rank
<1> QED
  BY <1>2, <1>3

\* Every number up to that of the places is the rank of one.
LEMMA RankOnto ==
    ASSUME NEW n \in Nat, NEW I \in SUBSET (1 .. n), NEW k \in 1 .. Cardinality(I)
    PROVE  \E i \in I : Rank(I, i) = k
<1> DEFINE T == 1 .. Cardinality(I)
           g == [i \in I |-> Rank(I, i)]
<1>1. /\ IsFiniteSet(I) /\ Cardinality(I) \in Nat
      /\ \A i \in I : Rank(I, i) \in T
      /\ \A i, j \in I : i < j => Rank(I, i) < Rank(I, j)
  BY RankCounts
<1>2. IsFiniteSet(T) /\ Cardinality(T) = Cardinality(I)
  BY <1>1, FS_Interval
<1>3. g \in [I -> T]
  BY <1>1
<1>4. \A i, j \in I : g[i] = g[j] => i = j
  <2> SUFFICES ASSUME NEW i \in I, NEW j \in I, g[i] = g[j], i # j PROVE FALSE
    OBVIOUS
  <2>1. i \in Nat /\ j \in Nat /\ Rank(I, i) = Rank(I, j) /\ Rank(I, i) \in Nat
    BY <1>1
  <2> QED
    BY <1>1, <2>1
<1>5. g \in Injection(I, T)
  BY <1>3, <1>4, Fun_IsInj
<1> HIDE DEF g
<1>6. g \in Surjection(I, T)
  BY <1>2, <1>5, FS_Injection
<1>7. \E i \in I : g[i] = k
  <2>1. k \in T
    OBVIOUS
  <2> HIDE DEF T
  <2> QED
    BY <1>6, <2>1 DEF Surjection
<1> QED
  BY <1>7 DEF g

\* What is kept of a sequence.
LEMMA KeptSound ==
    ASSUME NEW S, NEW s \in Seq(S), NEW I \in SUBSET DOMAIN s
    PROVE  /\ Kept(s, I) \in Seq(S)
           /\ Len(Kept(s, I)) = Cardinality(I) /\ Cardinality(I) \in Nat
           /\ DOMAIN Kept(s, I) = 1 .. Cardinality(I)
           /\ \A i \in I : Rank(I, i) \in DOMAIN Kept(s, I) /\ Kept(s, I)[Rank(I, i)] = s[i]
           /\ \A k \in DOMAIN Kept(s, I) : \E i \in I : Rank(I, i) = k
<1>1. DOMAIN s = 1 .. Len(s) /\ Len(s) \in Nat /\ \A i \in DOMAIN s : s[i] \in S
  OBVIOUS
<1>2. /\ Cardinality(I) \in Nat
      /\ \A i \in I : Rank(I, i) \in 1 .. Cardinality(I)
      /\ \A i, j \in I : i < j => Rank(I, i) < Rank(I, j)
      /\ \A k \in 1 .. Cardinality(I) : \E i \in I : Rank(I, i) = k
  BY <1>1, RankCounts, RankOnto
<1> DEFINE at(k) == CHOOSE i \in I : Rank(I, i) = k
<1>3. \A k \in 1 .. Cardinality(I) : at(k) \in I /\ Rank(I, at(k)) = k
  BY <1>2
<1>4. \A i \in I : at(Rank(I, i)) = i
  <2> SUFFICES ASSUME NEW i \in I, at(Rank(I, i)) # i PROVE FALSE
    OBVIOUS
  <2>1. at(Rank(I, i)) \in I /\ Rank(I, at(Rank(I, i))) = Rank(I, i)
    BY <1>2, <1>3
  <2> HIDE DEF at
  <2>2. i \in Nat /\ at(Rank(I, i)) \in Nat /\ Rank(I, i) \in Nat
    BY <1>1, <1>2, <2>1
  <2> QED
    BY <1>2, <2>1, <2>2
<1>5. Kept(s, I) = [k \in 1 .. Cardinality(I) |-> s[at(k)]]
  BY DEF Kept
<1> HIDE DEF at
<1>6. \A k \in 1 .. Cardinality(I) : s[at(k)] \in S
  BY <1>1, <1>3
<1>7. /\ Kept(s, I) \in Seq(S) /\ Len(Kept(s, I)) = Cardinality(I)
      /\ DOMAIN Kept(s, I) = 1 .. Cardinality(I)
  BY <1>2, <1>5, <1>6
<1>8. \A i \in I : Rank(I, i) \in 1 .. Cardinality(I) /\ Kept(s, I)[Rank(I, i)] = s[i]
  BY <1>2, <1>4, <1>5
<1> QED
  BY <1>2, <1>7, <1>8

\* Places that correspond in order have the same ranks.
LEMMA RanksAgree ==
    ASSUME NEW n \in Nat, NEW J \in SUBSET (1 .. n),
           NEW m \in Nat, NEW K \in SUBSET (1 .. m), NEW e \in [J -> K],
           \A i, j \in J : i < j => e[i] < e[j],
           \A k \in K : \E j \in J : e[j] = k
    PROVE  Cardinality(J) = Cardinality(K) /\ \A j \in J : Rank(J, j) = Rank(K, e[j])
<1> DEFINE f == [j \in J |-> Rank(K, e[j])]
<1>1. /\ Cardinality(K) \in Nat
      /\ \A k \in K : Rank(K, k) \in 1 .. Cardinality(K)
      /\ \A i, j \in K : i < j => Rank(K, i) < Rank(K, j)
      /\ \A v \in 1 .. Cardinality(K) : \E k \in K : Rank(K, k) = v
  BY RankCounts, RankOnto
<1>2. /\ f \in [J -> 1 .. Cardinality(K)]
      /\ \A i, j \in J : i < j => f[i] < f[j]
      /\ \A v \in 1 .. Cardinality(K) : \E j \in J : f[j] = v
      /\ \A j \in J : f[j] = Rank(K, e[j])
  <2>1. \A v \in 1 .. Cardinality(K) : \E j \in J : Rank(K, e[j]) = v
    BY <1>1
  <2> QED
    BY <1>1, <2>1
<1> HIDE DEF f
<1>3. Cardinality(J) = Cardinality(K) /\ \A j \in J : f[j] = Rank(J, j)
  <2> DEFINE c == Cardinality(K)
  <2>1. c \in Nat /\ f \in [J -> 1 .. c] /\ \A v \in 1 .. c : \E j \in J : f[j] = v
    BY <1>1, <1>2
  <2>2. \A i, j \in J : i < j => f[i] < f[j]
    BY <1>2
  <2> HIDE DEF c
  <2>3. Cardinality(J) = c /\ \A j \in J : f[j] = Rank(J, j)
    BY ONLY n \in Nat, J \in SUBSET (1 .. n), <2>1, <2>2, RankUnique
  <2> QED
    BY <2>3 DEF c
<1> QED
  BY <1>2, <1>3

(***************************************************************************)
(* What the messages of a request become.                                  *)
(***************************************************************************)

\* What a turn of CommandCode is.
TurnRecords == [role: {"user", "assistant", "tool"}, content: Texts \cup {None}]

\* The places of the turns among messages.
TurnPlaces(messages) == {i \in DOMAIN messages : IsTurn(messages[i])}

\* The turn that a message becomes.
TurnOf(m) == [role |-> m.role, content |-> m.content]

\* The turns of messages, place by place.
LEMMA TurnsSound ==
    ASSUME NEW messages \in Seq(ChatMessages)
    PROVE  /\ Turns(messages) \in Seq(TurnRecords)
           /\ TurnPlaces(messages) \in SUBSET (1 .. Len(messages))
           /\ Len(Turns(messages)) = Cardinality(TurnPlaces(messages))
           /\ Cardinality(TurnPlaces(messages)) \in Nat
           /\ \A i \in TurnPlaces(messages) :
                 /\ Rank(TurnPlaces(messages), i) \in DOMAIN Turns(messages)
                 /\ Turns(messages)[Rank(TurnPlaces(messages), i)] = TurnOf(messages[i])
<1> DEFINE J == TurnPlaces(messages)
           turns == Kept(messages, J)
<1>1. /\ J \in SUBSET DOMAIN messages /\ J \in SUBSET (1 .. Len(messages))
      /\ \A i \in J : IsTurn(messages[i]) /\ messages[i] \in ChatMessages
  BY DEF TurnPlaces
<1>2. Turns(messages) = [i \in DOMAIN turns |-> TurnOf(turns[i])]
  BY DEF Turns, TurnPlaces, TurnOf
<1> HIDE DEF J
<1>3. /\ Len(turns) = Cardinality(J) /\ Cardinality(J) \in Nat
      /\ DOMAIN turns = 1 .. Cardinality(J)
      /\ \A i \in J : Rank(J, i) \in DOMAIN turns /\ turns[Rank(J, i)] = messages[i]
      /\ \A k \in DOMAIN turns : \E i \in J : Rank(J, i) = k
  BY <1>1, KeptSound
<1> HIDE DEF turns
<1>4. ASSUME NEW k \in DOMAIN turns PROVE TurnOf(turns[k]) \in TurnRecords
  <2>1. PICK i \in J : turns[k] = messages[i]
    BY <1>3
  <2> QED
    BY <1>1, <2>1 DEF TurnOf, TurnRecords, IsTurn, ChatMessages
<1>5. /\ Turns(messages) \in Seq(TurnRecords) /\ Len(Turns(messages)) = Cardinality(J)
      /\ DOMAIN Turns(messages) = DOMAIN turns
  BY <1>2, <1>3, <1>4
<1>6. \A i \in J : Turns(messages)[Rank(J, i)] = TurnOf(messages[i])
  BY <1>2, <1>3
<1> QED
  BY <1>1, <1>3, <1>5, <1>6 DEF J

\* An item becomes a message of its role, or the user's, that says one of its texts.
LEMMA ItemTold ==
    ASSUME NEW item \in Items
    PROVE  /\ ItemMessage(item) \in ChatMessages
           /\ ItemMessage(item).role = IF item.role = "" THEN "user" ELSE item.role
           /\ IsTurn(ItemMessage(item)) <=> item.role \in {"user", "assistant", ""}
           /\ ItemMessage(item).content = Or(item.content, Or(item.text, item.input))
<1>1. /\ item.role \in Roles /\ item.content \in Texts \cup {None}
      /\ item.text \in Texts \cup {None} /\ item.input \in Texts \cup {None}
  BY DEF Items
<1> DEFINE content == Or(item.content, Or(item.text, item.input))
           role == IF item.role = "" THEN "user" ELSE item.role
<1>2. content \in Texts \cup {None} /\ role \in Roles
  BY <1>1 DEF Or, Roles
<1>3. ItemMessage(item) = [role |-> role, content |-> content, called |-> FALSE]
  BY DEF ItemMessage, Message
<1>4. role \in {"user", "assistant"} <=> item.role \in {"user", "assistant", ""}
  OBVIOUS
<1>5. role = IF item.role = "" THEN "user" ELSE item.role
  OBVIOUS
<1>6. content = Or(item.content, Or(item.text, item.input))
  OBVIOUS
<1> HIDE DEF content, role
<1>7. IsTurn(ItemMessage(item)) <=> role \in {"user", "assistant"}
  BY <1>3 DEF IsTurn
<1> QED
  <2>1. ItemMessage(item) \in ChatMessages
    BY <1>2, <1>3 DEF ChatMessages
  <2>2. ItemMessage(item).role = role /\ ItemMessage(item).content = content
    BY <1>3
  <2> QED
    BY <1>4, <1>5, <1>6, <1>7, <2>1, <2>2

\* The places of the objects of a list, the objects, and the messages of them.
ObjectPlaces(items) == {i \in DOMAIN items : items[i] # None}
Objects(items) == Kept(items, ObjectPlaces(items))
Forwarded(items) == [i \in DOMAIN Objects(items) |-> ItemMessage(Objects(items)[i])]

\* The objects of a list, place by place.
LEMMA ObjectsKept ==
    ASSUME NEW items \in Seq(Items \cup {None})
    PROVE  /\ ObjectPlaces(items) \in SUBSET (1 .. Len(items))
           /\ Cardinality(ObjectPlaces(items)) \in Nat
           /\ DOMAIN Objects(items) = 1 .. Cardinality(ObjectPlaces(items))
           /\ Objects(items) \in Seq(Items)
           /\ \A i \in ObjectPlaces(items) :
                 /\ Rank(ObjectPlaces(items), i) \in DOMAIN Objects(items)
                 /\ Objects(items)[Rank(ObjectPlaces(items), i)] = items[i]
           /\ \A k \in DOMAIN Objects(items) :
                 \E i \in ObjectPlaces(items) : Rank(ObjectPlaces(items), i) = k
<1> DEFINE I == ObjectPlaces(items)
           objects == Objects(items)
           S == Items \cup {None}
<1>1. I \in SUBSET DOMAIN items /\ I \in SUBSET (1 .. Len(items)) /\ \A i \in I : items[i] \in Items
  BY DEF ObjectPlaces
<1>2. objects = Kept(items, I) /\ items \in Seq(S)
  BY DEF Objects
<1> HIDE DEF I, objects, S
<1>3. /\ Len(objects) = Cardinality(I) /\ Cardinality(I) \in Nat
      /\ objects \in Seq(S)
      /\ DOMAIN objects = 1 .. Cardinality(I)
      /\ \A i \in I : Rank(I, i) \in DOMAIN objects /\ objects[Rank(I, i)] = items[i]
      /\ \A k \in DOMAIN objects : \E i \in I : Rank(I, i) = k
  BY <1>1, <1>2, KeptSound
<1>4. ASSUME NEW k \in DOMAIN objects PROVE objects[k] \in Items
  <2>1. PICK i \in I : Rank(I, i) = k
    BY <1>3
  <2>2. objects[k] = items[i]
    BY <1>3, <2>1
  <2> QED
    BY <1>1, <2>2
<1>5. objects \in Seq(Items)
  BY <1>3, <1>4
<1> QED
  BY <1>1, <1>3, <1>5 DEF I, objects

\* Their messages, place by place.
LEMMA ObjectsForwarded ==
    ASSUME NEW items \in Seq(Items \cup {None})
    PROVE  /\ Forwarded(items) \in Seq(ChatMessages)
           /\ Len(Forwarded(items)) = Cardinality(ObjectPlaces(items))
           /\ DOMAIN Forwarded(items) = 1 .. Cardinality(ObjectPlaces(items))
           /\ \A i \in ObjectPlaces(items) :
                 Forwarded(items)[Rank(ObjectPlaces(items), i)] = ItemMessage(items[i])
<1> DEFINE objects == Objects(items)
           I == ObjectPlaces(items)
<1>1. Forwarded(items) = [i \in DOMAIN objects |-> ItemMessage(objects[i])]
  BY DEF Forwarded
<1>2. /\ Cardinality(I) \in Nat /\ DOMAIN objects = 1 .. Cardinality(I)
      /\ objects \in Seq(Items)
      /\ \A i \in I : Rank(I, i) \in DOMAIN objects /\ objects[Rank(I, i)] = items[i]
  BY ObjectsKept
<1> HIDE DEF objects, I
<1>3. ASSUME NEW k \in DOMAIN objects PROVE ItemMessage(objects[k]) \in ChatMessages
  <2>1. objects[k] \in Items
    BY <1>2
  <2> QED
    BY <2>1, ItemTold
<1>4. Forwarded(items) \in Seq(ChatMessages) /\ Len(Forwarded(items)) = Cardinality(I)
  BY <1>1, <1>2, <1>3
<1>5. /\ DOMAIN Forwarded(items) = 1 .. Cardinality(I)
      /\ \A i \in I : Forwarded(items)[Rank(I, i)] = ItemMessage(items[i])
  BY <1>1, <1>2
<1> QED
  BY <1>4, <1>5 DEF I

\* The messages of an input are messages.
LEMMA InputTyped ==
    ASSUME NEW input \in Inputs
    PROVE  /\ InputMessages(input) \in Seq(ChatMessages)
           /\ Message("user", input.text) \in ChatMessages
           /\ Message("user", None) \in ChatMessages
           /\ InputMessages(input) =
                 IF input.kind = "none" THEN <<>>
                 ELSE IF input.kind = "text" THEN <<Message("user", input.text)>>
                 ELSE IF Objects(input.items) = <<>> THEN <<Message("user", None)>>
                 ELSE Forwarded(input.items)
<1>1. input.items \in Seq(Items \cup {None}) /\ input.text \in Texts \cup {None}
  BY DEF Inputs
<1>2. Message("user", input.text) \in ChatMessages /\ Message("user", None) \in ChatMessages
  BY <1>1 DEF Message, ChatMessages, Roles
<1>3. InputMessages(input) =
        IF input.kind = "none" THEN <<>>
        ELSE IF input.kind = "text" THEN <<Message("user", input.text)>>
        ELSE IF Objects(input.items) = <<>> THEN <<Message("user", None)>>
        ELSE Forwarded(input.items)
  BY DEF InputMessages, Objects, Forwarded, ObjectPlaces
<1>4. Forwarded(input.items) \in Seq(ChatMessages)
  BY <1>1, ObjectsForwarded
<1> QED
  BY <1>2, <1>3, <1>4

\* The instructions, as the shim puts them before the input.
Preamble(r) == IF r.instructions THEN <<Message("system", CHOOSE t \in Texts : TRUE)>> ELSE <<>>

\* They are messages and no turns.
LEMMA PreambleSilent ==
    ASSUME NEW r
    PROVE  /\ Preamble(r) \in Seq(ChatMessages)
           /\ \A i \in DOMAIN Preamble(r) : ~IsTurn(Preamble(r)[i])
<1>1. (CHOOSE t \in Texts : TRUE) \in Texts
  BY TextsExist
<1>2. Message("system", CHOOSE t \in Texts : TRUE) \in ChatMessages
  BY <1>1 DEF Message, ChatMessages, Roles
<1> DEFINE m == Message("system", CHOOSE t \in Texts : TRUE)
<1>3. m \in ChatMessages /\ ~IsTurn(m)
  BY <1>2 DEF Message, IsTurn
<1>4. Preamble(r) = IF r.instructions THEN <<m>> ELSE <<>>
  BY DEF Preamble
<1> HIDE DEF m
<1> QED
  BY <1>3, <1>4

\* The shim makes a chat request.
LEMMA ShimTyped ==
    ASSUME NEW r \in RequestRecords
    PROVE  Shim(r) \in ChatRequests /\ Shim(r).messages = Preamble(r) \o InputMessages(r.input)
<1>1. r.input \in Inputs /\ r.limits \in LimitFields /\ r.choices \in Choices
  BY DEF RequestRecords
<1>2. InputMessages(r.input) \in Seq(ChatMessages)
  BY <1>1, InputTyped
<1>3. Preamble(r) \o InputMessages(r.input) \in Seq(ChatMessages)
  BY <1>2, PreambleSilent
<1>4. r.limits.tokens \in Limits \cup {None} /\ ShimLimit(r.limits) \in Limits \cup {None}
  BY <1>1 DEF LimitFields, ShimLimit, Or
<1>5. Shim(r) = [messages |-> Preamble(r) \o InputMessages(r.input), tokens |-> r.limits.tokens,
                 completion |-> ShimLimit(r.limits), choices |-> r.choices]
  BY DEF Shim, Preamble
<1> QED
  BY <1>1, <1>3, <1>4, <1>5 DEF ChatRequests

\* A message says what a record does, in the user's role if it names none.
SaysAs(m, record) ==
    /\ m.role = IF record.role = "" THEN "user" ELSE record.role
    /\ IF TextsOf(record) = {} THEN m.content = None ELSE m.content \in TextsOf(record)

\* Turns say what records do, one by one.
Tell(turns, said) == Len(turns) = Len(said) /\ \A i \in DOMAIN said : SaysAs(turns[i], said[i])

\* Records whose places correspond, in order, to those of the turns are told.
LEMMA PlacesTold ==
    ASSUME NEW messages \in Seq(ChatMessages),
           NEW S, NEW s \in Seq(S), NEW K \in SUBSET (1 .. Len(s)),
           NEW e \in [K -> TurnPlaces(messages)],
           \A i, j \in K : i < j => e[i] < e[j],
           \A j \in TurnPlaces(messages) : \E i \in K : e[i] = j,
           \A i \in K : SaysAs(messages[e[i]], s[i])
    PROVE  Kept(s, K) \in Seq(S) /\ Tell(Turns(messages), Kept(s, K))
<1> DEFINE J == TurnPlaces(messages)
           said == Kept(s, K)
<1>1. /\ J \in SUBSET (1 .. Len(messages)) /\ Len(messages) \in Nat
      /\ Turns(messages) \in Seq(TurnRecords)
      /\ Len(Turns(messages)) = Cardinality(J)
      /\ \A i \in J : Turns(messages)[Rank(J, i)] = TurnOf(messages[i])
  BY TurnsSound
<1>2. K \in SUBSET DOMAIN s /\ Len(s) \in Nat
  OBVIOUS
<1>3. /\ said \in Seq(S) /\ Len(said) = Cardinality(K)
      /\ \A i \in K : said[Rank(K, i)] = s[i]
      /\ \A k \in DOMAIN said : \E i \in K : Rank(K, i) = k
  BY <1>2, KeptSound
<1> HIDE DEF J, said
<1>4. Cardinality(K) = Cardinality(J) /\ \A i \in K : Rank(K, i) = Rank(J, e[i])
  <2>1. /\ e \in [K -> J] /\ \A i, j \in K : i < j => e[i] < e[j]
        /\ \A j \in J : \E i \in K : e[i] = j
    BY DEF J
  <2> QED
    BY ONLY <1>1, <1>2, <2>1, K \in SUBSET (1 .. Len(s)), RanksAgree
<1>5. ASSUME NEW k \in DOMAIN said PROVE SaysAs(Turns(messages)[k], said[k])
  <2>1. PICK i \in K : Rank(K, i) = k
    BY <1>3
  <2>2. e[i] \in J
    BY DEF J
  <2>3. said[k] = s[i] /\ Turns(messages)[k] = TurnOf(messages[e[i]])
    BY <1>1, <1>3, <1>4, <2>1, <2>2
  <2>4. /\ TurnOf(messages[e[i]]).role = messages[e[i]].role
        /\ TurnOf(messages[e[i]]).content = messages[e[i]].content
    BY DEF TurnOf
  <2>5. SaysAs(TurnOf(messages[e[i]]), s[i])
    BY <2>4 DEF SaysAs
  <2> QED
    BY <2>3, <2>5
<1> QED
  BY <1>1, <1>3, <1>4, <1>5 DEF Tell, said

\* Messages without a turn have none, and those with one turn at the end have it.
LEMMA LastTurn ==
    ASSUME NEW before \in Seq(ChatMessages), \A i \in DOMAIN before : ~IsTurn(before[i])
    PROVE  /\ Turns(before) = <<>>
           /\ \A m \in ChatMessages : IsTurn(m) => Turns(before \o <<m>>) = <<TurnOf(m)>>
<1>1. Turns(before) = <<>>
  <2>1. TurnPlaces(before) = {}
    BY DEF TurnPlaces
  <2>2. Cardinality(TurnPlaces(before)) = 0
    BY <2>1, FS_EmptySet
  <2> QED
    BY <2>2, TurnsSound
<1>2. ASSUME NEW m \in ChatMessages, IsTurn(m) PROVE Turns(before \o <<m>>) = <<TurnOf(m)>>
  <2> DEFINE messages == before \o <<m>>
             n == Len(before) + 1
  <2>1. messages \in Seq(ChatMessages) /\ n \in Nat /\ messages[n] = m
    OBVIOUS
  <2>2. TurnPlaces(messages) = {n}
    <3>1. \A i \in DOMAIN messages : i = n \/ (i \in DOMAIN before /\ messages[i] = before[i])
      OBVIOUS
    <3>2. n \in DOMAIN messages
      OBVIOUS
    <3> QED
      BY <1>2, <2>1, <3>1, <3>2 DEF TurnPlaces
  <2> HIDE DEF messages, n
  <2>3. {j \in {n} : j <= n} = {n}
    BY <2>1
  <2>4. Cardinality({n}) = 1
    BY FS_Singleton
  <2>5. Cardinality(TurnPlaces(messages)) = 1 /\ Rank(TurnPlaces(messages), n) = 1
    BY <2>2, <2>3, <2>4 DEF Rank
  <2>6. Turns(messages) \in Seq(TurnRecords) /\ Len(Turns(messages)) = 1
    BY <2>1, <2>5, TurnsSound
  <2>7. Turns(messages)[1] = TurnOf(m)
    BY <2>1, <2>2, <2>5, TurnsSound
  <2> QED
    BY <2>6, <2>7 DEF messages
<1> QED
  BY <1>1, <1>2

\* A chat message that is a turn says what it said.
LEMMA MessageSays ==
    ASSUME NEW m \in ChatMessages, IsTurn(m)
    PROVE  SaysAs(m, m)
<1>1. m = [role |-> m.role, content |-> m.content, called |-> m.called]
  BY DEF ChatMessages
<1>2. DOMAIN m = {"role", "content", "called"}
  BY <1>1
<1>3. {"content", "text", "input"} \cap DOMAIN m = {"content"}
  BY <1>2
<1>4. TextsOf(m) = {m.content} \ {None}
  BY <1>3 DEF TextsOf
<1>5. m.role # ""
  BY DEF IsTurn
<1> QED
  BY <1>4, <1>5 DEF SaysAs

\* The message of an item says what the item did.
LEMMA ItemSays ==
    ASSUME NEW item \in Items
    PROVE  SaysAs(ItemMessage(item), item)
<1>1. item = [role |-> item.role, content |-> item.content, text |-> item.text,
              input |-> item.input]
  BY DEF Items
<1>2. DOMAIN item = {"role", "content", "text", "input"}
  BY <1>1
<1>3. {"content", "text", "input"} \cap DOMAIN item = {"content", "text", "input"}
  BY <1>2
<1>4. TextsOf(item) = {item.content, item.text, item.input} \ {None}
  BY <1>3 DEF TextsOf
<1>5. /\ ItemMessage(item).role = IF item.role = "" THEN "user" ELSE item.role
      /\ ItemMessage(item).content = Or(item.content, Or(item.text, item.input))
  BY ItemTold
<1> QED
  BY <1>4, <1>5 DEF SaysAs, Or

\* The items of a list that are turns.
SaidPlaces(items) ==
    {i \in DOMAIN items : items[i] # None /\ items[i].role \in {"user", "assistant", ""}}

\* Behind messages that are no turns, the items' messages that are turns are
\* those of the items that are.
LEMMA PlacesBehind ==
    ASSUME NEW items \in Seq(Items \cup {None}), NEW before \in Seq(ChatMessages),
           \A i \in DOMAIN before : ~IsTurn(before[i])
    PROVE  LET messages == before \o Forwarded(items)
               I == ObjectPlaces(items)
           IN /\ messages \in Seq(ChatMessages) /\ SaidPlaces(items) \in SUBSET I
              /\ \A i \in SaidPlaces(items) :
                    /\ Len(before) + Rank(I, i) \in TurnPlaces(messages)
                    /\ SaysAs(messages[Len(before) + Rank(I, i)], items[i])
              /\ \A j \in TurnPlaces(messages) :
                    \E i \in SaidPlaces(items) : Len(before) + Rank(I, i) = j
<1> DEFINE M == Forwarded(items)
           messages == before \o M
           n == Len(before)
           I == ObjectPlaces(items)
           c == Cardinality(I)
           K == SaidPlaces(items)
<1>1. /\ K \in SUBSET I
      /\ \A i \in I : items[i] \in Items /\ (i \in K <=> items[i].role \in {"user", "assistant", ""})
  <2>1. K \in SUBSET I
    BY DEF SaidPlaces, ObjectPlaces
  <2>2. ASSUME NEW i \in I
        PROVE  items[i] \in Items /\ (i \in K <=> items[i].role \in {"user", "assistant", ""})
    <3>1. i \in DOMAIN items /\ items[i] # None
      BY DEF ObjectPlaces
    <3>2. items[i] \in Items
      BY <3>1
    <3>3. i \in K <=> items[i].role \in {"user", "assistant", ""}
      BY <3>1 DEF SaidPlaces
    <3> QED
      BY <3>2, <3>3
  <2> QED
    BY <2>1, <2>2
<1>2. /\ c \in Nat /\ \A i \in I : Rank(I, i) \in 1 .. c
      /\ \A k \in 1 .. c : \E i \in I : Rank(I, i) = k
  BY ObjectsKept
<1>3. /\ M \in Seq(ChatMessages) /\ Len(M) = c /\ DOMAIN M = 1 .. c
      /\ \A i \in I : M[Rank(I, i)] = ItemMessage(items[i])
  BY ObjectsForwarded
<1> HIDE DEF M, I, K, c
<1>4. /\ messages \in Seq(ChatMessages) /\ n \in Nat
      /\ DOMAIN messages = 1 .. n + c
      /\ \A k \in 1 .. c : n + k \in DOMAIN messages /\ messages[n + k] = M[k]
      /\ \A i \in 1 .. n : messages[i] = before[i] /\ i \in DOMAIN before
  BY <1>2, <1>3
<1> HIDE DEF messages, n
<1>5. ASSUME NEW i \in I
      PROVE  /\ n + Rank(I, i) \in DOMAIN messages
             /\ messages[n + Rank(I, i)] = ItemMessage(items[i])
             /\ IsTurn(messages[n + Rank(I, i)]) <=> i \in K
             /\ SaysAs(messages[n + Rank(I, i)], items[i])
  <2>1. /\ n + Rank(I, i) \in DOMAIN messages
        /\ messages[n + Rank(I, i)] = ItemMessage(items[i]) /\ items[i] \in Items
    BY <1>1, <1>2, <1>3, <1>4
  <2> QED
    BY <1>1, <2>1, ItemTold, ItemSays
<1>6. ASSUME NEW j \in TurnPlaces(messages) PROVE \E i \in K : n + Rank(I, i) = j
  <2>1. j \in 1 .. n + c /\ IsTurn(messages[j])
    BY <1>4 DEF TurnPlaces
  <2>2. j \notin 1 .. n
    BY <1>4, <2>1
  <2>3. j - n \in 1 .. c
    BY <1>2, <1>4, <2>1, <2>2
  <2>4. PICK i \in I : Rank(I, i) = j - n
    BY <1>2, <2>3
  <2>5. n + Rank(I, i) = j
    BY <1>4, <2>1, <2>4
  <2> QED
    BY <1>5, <2>1, <2>5
<1>7. \A i \in K : n + Rank(I, i) \in TurnPlaces(messages) /\ SaysAs(messages[n + Rank(I, i)], items[i])
  BY <1>1, <1>5 DEF TurnPlaces
<1> QED
  BY <1>1, <1>4, <1>6, <1>7 DEF messages, n, I, K, M

\* A Responses list with objects: what its items of the user and of the
\* assistant say is told, behind instructions that are not.
LEMMA ListTold ==
    ASSUME NEW items \in Seq(Items \cup {None}), NEW before \in Seq(ChatMessages),
           \A i \in DOMAIN before : ~IsTurn(before[i])
    PROVE  /\ Kept(items, SaidPlaces(items)) \in Seq(Items \cup {None})
           /\ Tell(Turns(before \o Forwarded(items)), Kept(items, SaidPlaces(items)))
<1> DEFINE messages == before \o Forwarded(items)
           n == Len(before)
           I == ObjectPlaces(items)
           K == SaidPlaces(items)
           e == [i \in K |-> n + Rank(I, i)]
           S == Items \cup {None}
<1>1. /\ messages \in Seq(ChatMessages) /\ K \in SUBSET I
      /\ \A i \in K : e[i] \in TurnPlaces(messages) /\ SaysAs(messages[e[i]], items[i])
      /\ \A j \in TurnPlaces(messages) : \E i \in K : e[i] = j
  BY PlacesBehind
<1>2. /\ I \in SUBSET (1 .. Len(items)) /\ Len(items) \in Nat /\ n \in Nat
      /\ items \in Seq(S)
  BY ObjectsKept
<1> HIDE DEF messages, n, I, K, S
<1>3. /\ \A i \in I : Rank(I, i) \in Nat
      /\ \A i, j \in I : i < j => Rank(I, i) < Rank(I, j)
  <2>1. /\ Cardinality(I) \in Nat /\ \A i \in I : Rank(I, i) \in 1 .. Cardinality(I)
        /\ \A i, j \in I : i < j => Rank(I, i) < Rank(I, j)
    BY ONLY <1>2, RankCounts
  <2> QED
    BY <2>1
<1>4. \A i, j \in K : i < j => e[i] < e[j]
  BY <1>1, <1>2, <1>3
<1>5. e \in [K -> TurnPlaces(messages)]
  BY <1>1
<1> HIDE DEF e
<1>6. K \in SUBSET (1 .. Len(items))
  BY <1>1, <1>2
<1>7. Kept(items, K) \in Seq(S) /\ Tell(Turns(messages), Kept(items, K))
  BY ONLY <1>1, <1>2, <1>4, <1>5, <1>6, PlacesTold
<1> QED
  BY <1>7 DEF messages, K, S

\* A chat request's turns are told as they are.
LEMMA ChatTold ==
    ASSUME NEW messages \in Seq(ChatMessages)
    PROVE  /\ Kept(messages, TurnPlaces(messages)) \in Seq(ChatMessages)
           /\ Tell(Turns(messages), Kept(messages, TurnPlaces(messages)))
<1> DEFINE K == TurnPlaces(messages)
           e == [i \in K |-> i]
<1>1. K \in SUBSET (1 .. Len(messages)) /\ e \in [K -> TurnPlaces(messages)]
  BY DEF TurnPlaces
<1>2. \A i, j \in K : i < j => e[i] < e[j]
  OBVIOUS
<1>3. \A j \in TurnPlaces(messages) : \E i \in K : e[i] = j
  OBVIOUS
<1>4. ASSUME NEW i \in K PROVE SaysAs(messages[e[i]], messages[i])
  <2>1. messages[i] \in ChatMessages /\ IsTurn(messages[i]) /\ e[i] = i
    BY DEF TurnPlaces
  <2> QED
    BY <2>1, MessageSays
<1> HIDE DEF K, e
<1>5. Kept(messages, K) \in Seq(ChatMessages) /\ Tell(Turns(messages), Kept(messages, K))
  BY ONLY messages \in Seq(ChatMessages), <1>1, <1>2, <1>3, <1>4, PlacesTold
<1> QED
  BY <1>5 DEF K

\* A text is told as the user's.
LEMMA TextTold ==
    ASSUME NEW text, NEW before \in Seq(ChatMessages),
           Message("user", text) \in ChatMessages,
           \A i \in DOMAIN before : ~IsTurn(before[i])
    PROVE  /\ Tell(Turns(before \o <<Message("user", text)>>), <<Message("", text)>>)
           /\ Turns(before \o <<Message("user", text)>>) = <<[role |-> "user", content |-> text]>>
<1> DEFINE m == Message("user", text)
           said == Message("", text)
           turn == [role |-> "user", content |-> text]
<1>1. IsTurn(m) /\ TurnOf(m) = turn
  BY DEF Message, IsTurn, TurnOf
<1>2. Turns(before \o <<m>>) = <<turn>>
  BY <1>1, LastTurn
<1>3. said = [role |-> "", content |-> text, called |-> FALSE]
  BY DEF Message
<1>4. DOMAIN said = {"role", "content", "called"}
  BY <1>3
<1>5. {"content", "text", "input"} \cap DOMAIN said = {"content"}
  BY <1>4
<1>6. said.content = text /\ said.role = "" /\ turn.content = text /\ turn.role = "user"
  BY DEF Message
<1> HIDE DEF turn, said
<1>7. SaysAs(turn, said)
  <2>1. TextsOf(said) = {said.content} \ {None}
    BY <1>5 DEF TextsOf
  <2> QED
    BY <1>6, <2>1 DEF SaysAs
<1>8. Tell(<<turn>>, <<said>>)
  BY <1>7 DEF Tell
<1> QED
  BY <1>2, <1>8 DEF turn, said

\* The messages of a request, by either route.
Forwards == IF request.route = "chat" THEN request.messages ELSE Shim(request).messages

\* A Responses list without objects.
NothingListed ==
    /\ request.route = "responses" /\ request.input.kind = "list"
    /\ \A i \in DOMAIN request.input.items : request.input.items[i] = None

\* What a request says is told, but for a list without objects.
LEMMA RequestTold ==
    ASSUME request \in RequestRecords
    PROVE  /\ Said # <<>> <=> Len(Said) # 0
           /\ \/ Tell(Turns(Forwards), Said)
              \/ /\ NothingListed /\ Said = <<>>
                 /\ Turns(Forwards) = <<[role |-> "user", content |-> None]>>
<1> DEFINE before == Preamble(request)
           input == request.input
<1>1. /\ request.route \in {"chat", "responses"} /\ request.messages \in Seq(ChatMessages)
      /\ input \in Inputs
  BY DEF RequestRecords
<1>2. input.items \in Seq(Items \cup {None}) /\ input.kind \in {"none", "list", "text"}
  BY <1>1 DEF Inputs
<1>3. before \in Seq(ChatMessages) /\ \A i \in DOMAIN before : ~IsTurn(before[i])
  BY PreambleSilent
<1>4. CASE request.route = "chat"
  <2>1. Said = Kept(request.messages, TurnPlaces(request.messages)) /\ Forwards = request.messages
    BY <1>4 DEF Said, TurnPlaces, Forwards
  <2>2. Said \in Seq(ChatMessages) /\ Tell(Turns(Forwards), Said)
    BY <1>1, <2>1, ChatTold
  <2> QED
    BY <2>2
<1>5. CASE request.route = "responses"
  <2>1. Forwards = before \o InputMessages(input)
    BY <1>5, ShimTyped DEF Forwards
  <2> HIDE DEF before
  <2>2. CASE input.kind = "none"
    <3>1. Said = <<>> /\ InputMessages(input) = <<>>
      BY <1>1, <1>5, <2>2, InputTyped DEF Said
    <3>2. Forwards = before
      BY <1>3, <2>1, <3>1
    <3>3. Turns(Forwards) = <<>>
      BY <1>3, <3>2, LastTurn
    <3> QED
      BY <3>1, <3>3 DEF Tell
  <2>3. CASE input.kind = "text"
    <3>1. /\ Said = <<Message("", input.text)>>
          /\ InputMessages(input) = <<Message("user", input.text)>>
          /\ Message("user", input.text) \in ChatMessages
      BY <1>1, <1>5, <2>3, InputTyped DEF Said
    <3>2. Tell(Turns(Forwards), Said)
      BY <1>3, <2>1, <3>1, TextTold
    <3>3. Said # <<>>
      BY <3>1
    <3>4. \A x : Len(<<x>>) = 1
      OBVIOUS
    <3>5. Len(Said) = 1
      BY <3>1, <3>4, Zenon
    <3> QED
      BY <3>2, <3>3, <3>5
  <2>4. CASE input.kind = "list"
    <3>1. Said = Kept(input.items, SaidPlaces(input.items))
      BY <1>5, <2>4 DEF Said, SaidPlaces
    <3>2. Said \in Seq(Items \cup {None})
      BY <1>2, <1>3, <3>1, ListTold
    <3>3. CASE Objects(input.items) = <<>>
      <4>1. /\ InputMessages(input) = <<Message("user", None)>>
            /\ Message("user", None) \in ChatMessages
        BY <1>1, <2>4, <3>3, InputTyped
      <4>2. Turns(Forwards) = <<[role |-> "user", content |-> None]>>
        BY <1>3, <2>1, <4>1, TextTold
      <4>3. ObjectPlaces(input.items) = {}
        BY <1>2, <3>3, ObjectsKept
      <4>4. NothingListed
        BY <1>5, <2>4, <4>3 DEF NothingListed, ObjectPlaces
      <4>5. SaidPlaces(input.items) = {}
        BY <4>4 DEF NothingListed, SaidPlaces
      <4>6. Len(Said) = 0
        <5>1. Len(Said) = Cardinality(SaidPlaces(input.items))
          <6> DEFINE S == Items \cup {None}
          <6>1. input.items \in Seq(S) /\ {} \in SUBSET DOMAIN input.items
            BY <1>2
          <6> HIDE DEF S
          <6>2. Len(Kept(input.items, {})) = Cardinality({})
            BY ONLY <6>1, KeptSound
          <6> QED
            BY <3>1, <4>5, <6>2
        <5> QED
          BY <4>5, <5>1, FS_EmptySet
      <4>7. Said = <<>>
        BY <3>2, <4>6
      <4> QED
        BY <4>2, <4>4, <4>6, <4>7
    <3>4. CASE Objects(input.items) # <<>>
      <4>1. Forwards = before \o Forwarded(input.items)
        BY <1>1, <2>1, <2>4, <3>4, InputTyped
      <4>2. Tell(Turns(Forwards), Said)
        BY <1>2, <1>3, <3>1, <4>1, ListTold
      <4> QED
        BY <3>2, <4>2
    <3> QED
      BY <3>3, <3>4
  <2> QED
    BY <1>2, <2>2, <2>3, <2>4
<1> QED
  BY <1>1, <1>4, <1>5

\* The turns of the body are those of the request's messages: PromptKept follows.
LEMMA PromptTold == TypeOK /\ PromptInv => PromptKept
<1> SUFFICES ASSUME TypeOK, PromptInv PROVE PromptKept
  OBVIOUS
<1>1. request \in RequestRecords
  BY DEF TypeOK
<1>2. phase # "received" => chat.messages = Forwards
  BY DEF PromptInv, Forwards
<1>3. /\ phase = "refused" => Turns(Forwards) = <<>>
      /\ phase = "sent" => body.messages = Turns(Forwards) /\ Turns(Forwards) # <<>>
  BY <1>2 DEF PromptInv
<1>4. /\ Said # <<>> <=> Len(Said) # 0
      /\ \/ Tell(Turns(Forwards), Said)
         \/ /\ NothingListed /\ Said = <<>>
            /\ Turns(Forwards) = <<[role |-> "user", content |-> None]>>
  BY <1>1, RequestTold
<1>5. Turns(Forwards) = <<>> <=> Len(Turns(Forwards)) = 0
  <2>1. Forwards \in Seq(ChatMessages)
    BY <1>1, ShimTyped DEF Forwards, RequestRecords, ChatRequests
  <2> QED
    BY <2>1, TurnsSound
<1>6. CASE Tell(Turns(Forwards), Said)
  <2>1. Len(Turns(Forwards)) = Len(Said) /\ \A i \in DOMAIN Said : SaysAs(Turns(Forwards)[i], Said[i])
    BY <1>6 DEF Tell
  <2>2. phase = "refused" => Said = <<>>
    BY <1>3, <1>4, <1>5, <2>1
  <2>3. phase = "sent" => Said # <<>>
    BY <1>3, <1>4, <1>5, <2>1
  <2> QED
    BY <1>3, <2>1, <2>2, <2>3 DEF PromptKept, SaysAs
<1>7. CASE /\ NothingListed /\ Said = <<>>
           /\ Turns(Forwards) = <<[role |-> "user", content |-> None]>>
  BY <1>3, <1>7 DEF PromptKept, NothingListed
<1> QED
  BY <1>4, <1>6, <1>7

(***************************************************************************)
(* The handler.                                                            *)
(***************************************************************************)

\* The handler's steps before and after the reading leave the snapshot alone.
LEMMA HandlerKeeps ==
    ASSUME IInv, UNCHANGED <<projectVars, snapshotVars>>,
           phase # "reading", phase' # "reading"
    PROVE  ReadingInv' /\ SnapshotInv'
  BY SnapshotRests DEF IInv, ReadingInv

\* Steps that change neither the requests nor the body keep what is known of them.
LEMMA RequestsRest ==
    ASSUME IInv, UNCHANGED <<request, flags, chat, body>>,
           phase' = phase \/ {phase, phase'} \subseteq {"reading", "built"}
    PROVE  /\ ChoicesInv' /\ PromptInv'
           /\ SnapshotTypeOK' => TypeOK'
<1>1. WorkingDir(chat)' = WorkingDir(chat)
  BY DEF WorkingDir
<1>2. ChoicesInv'
  BY <1>1 DEF IInv, ChoicesInv
<1>3. PromptInv'
  BY DEF IInv, PromptInv
<1>4. SnapshotTypeOK' => TypeOK'
  BY DEF IInv, TypeOK
<1> QED
  BY <1>2, <1>3, <1>4

\* Both routes pass the choices and the messages on.
LEMMA AcceptKeeps == IInv /\ (AcceptChat \/ AcceptResponses) => IInv'
<1> SUFFICES ASSUME IInv, AcceptChat \/ AcceptResponses PROVE IInv'
  OBVIOUS
<1>1. /\ phase = "received" /\ phase' = "checking"
      /\ UNCHANGED <<request, flags, body>> /\ UNCHANGED <<projectVars, snapshotVars>>
  BY DEF AcceptChat, AcceptResponses
<1>2. ReadingInv' /\ SnapshotInv'
  BY <1>1, HandlerKeeps
<1>3. request \in RequestRecords /\ request.route \in {"chat", "responses"}
  BY DEF IInv, TypeOK, RequestRecords
<1>4. /\ chat' \in ChatRequests
      /\ chat'.messages = Forwards
      /\ chat'.choices = request.choices
      /\ chat'.tokens = request.limits.tokens
      /\ chat'.completion = IF request.route = "chat" THEN request.limits.completion
                            ELSE ShimLimit(request.limits)
  <2>1. CASE AcceptChat
    <3>1. /\ request.messages \in Seq(ChatMessages) /\ request.choices \in Choices
          /\ request.limits \in LimitFields
      BY <1>3 DEF RequestRecords
    <3>2. chat' = [messages |-> request.messages, tokens |-> request.limits.tokens,
                   completion |-> request.limits.completion, choices |-> request.choices]
          /\ request.route = "chat"
      BY <2>1 DEF AcceptChat
    <3> QED
      BY <3>1, <3>2 DEF ChatRequests, LimitFields, Forwards
  <2>2. CASE AcceptResponses
    <3>1. chat' = Shim(request) /\ request.route = "responses"
      BY <2>2 DEF AcceptResponses
    <3>2. chat' \in ChatRequests
      BY <1>3, <3>1, ShimTyped
    <3> QED
      BY <3>1, <3>2 DEF Shim, Forwards
  <2> QED
    BY <2>1, <2>2
<1>5. ShimLimit(request'.limits) = ShimLimit(request.limits)
  BY <1>1
<1>6. ChoicesInv'
  BY <1>1, <1>4, <1>5 DEF ChoicesInv
<1>7. Forwards = IF request'.route = "chat" THEN request'.messages ELSE Shim(request').messages
  BY <1>1 DEF Forwards
<1>8. PromptInv'
  BY <1>1, <1>4, <1>7 DEF PromptInv
<1>9. TypeOK'
  BY <1>1, <1>2, <1>4 DEF IInv, TypeOK, SnapshotInv
<1> QED
  BY <1>2, <1>6, <1>8, <1>9 DEF IInv

\* Without a message there is no turn.
LEMMA NoMessages == Turns(<<>>) = <<>>
<1> DEFINE before == <<>>
<1>1. before \in Seq(ChatMessages) /\ \A i \in DOMAIN before : ~IsTurn(before[i])
  OBVIOUS
<1> HIDE DEF before
<1>2. Turns(before) = <<>>
  BY <1>1, LastTurn
<1> QED
  BY <1>2 DEF before

\* The checks change nothing but the phase, and refuse what has no turns.
LEMMA CheckKeeps == IInv /\ (CheckMessages \/ Generate) => IInv'
<1> SUFFICES ASSUME IInv, CheckMessages \/ Generate PROVE IInv'
  OBVIOUS
<1>1. /\ UNCHANGED <<request, flags, chat, body>> /\ UNCHANGED <<projectVars, snapshotVars>>
      /\ \/ /\ phase = "checking"
            /\ phase' = IF chat.messages = <<>> THEN "refused" ELSE "building"
         \/ /\ phase = "built"
            /\ phase' = IF body.messages = <<>> THEN "refused" ELSE "sent"
  BY DEF CheckMessages, Generate
<1>2. ReadingInv' /\ SnapshotInv'
  BY <1>1, HandlerKeeps
<1>3. ChoicesInv'
  BY <1>1 DEF IInv, ChoicesInv, WorkingDir
<1>4. PromptInv'
  <2>1. PromptInv
    BY DEF IInv
  <2>2. CASE phase = "checking"
    BY <1>1, <2>1, <2>2, NoMessages DEF PromptInv
  <2>3. CASE phase = "built"
    BY <1>1, <2>1, <2>3 DEF PromptInv
  <2> QED
    BY <1>1, <2>2, <2>3
<1>5. TypeOK'
  BY <1>1, <1>2 DEF IInv, TypeOK, SnapshotInv
<1> QED
  BY <1>2, <1>3, <1>4, <1>5 DEF IInv

\* The body is made of the chat request.
LEMMA BuildKeeps ==
    ASSUME IInv, NEW source, Build(source), phase' \in {"reading", "built"}
    PROVE  ChoicesInv' /\ PromptInv' /\ (SnapshotTypeOK' => TypeOK')
<1>1. /\ UNCHANGED <<request, flags, chat>> /\ phase = "building"
      /\ source = IF chat.choices.config = "full" THEN "client" ELSE "disk"
  BY DEF Build
<1>2. chat.choices = request.choices /\ chat \in ChatRequests
  BY <1>1 DEF IInv, ChoicesInv, PromptInv
<1>3. body' = [messages |-> Turns(chat.messages), limit |-> MaxTokens(chat),
               tools |-> ConvertTools(chat.choices.tools), config |-> source,
               dir |-> IF source = "client" THEN "client" ELSE WorkingDir(chat),
               taste |-> ResolveTasteLearning(chat.choices.taste, flags.taste)]
  BY DEF Build
<1>4. WorkingDir(chat)' = WorkingDir(chat)
  BY <1>1 DEF WorkingDir
<1>5. ChoicesInv'
  BY <1>1, <1>2, <1>3, <1>4 DEF IInv, ChoicesInv
<1>6. PromptInv'
  BY <1>1, <1>3 DEF IInv, PromptInv
<1>7. body' \in Bodies
  <2>1. /\ chat.messages \in Seq(ChatMessages) /\ chat.choices \in Choices
        /\ chat.tokens \in Limits \cup {None} /\ chat.completion \in Limits \cup {None}
        /\ flags.dir \in {None, "flag"} /\ flags.taste \in {None} \cup BOOLEAN
    BY <1>2 DEF IInv, TypeOK, ChatRequests, FlagRecords
  <2>2. chat.choices.dir \in {None, "client"} /\ chat.choices.taste \in {None} \cup BOOLEAN
    BY <2>1 DEF Choices
  <2>3. Turns(chat.messages) \in
            Seq([role: {"user", "assistant", "tool"}, content: Texts \cup {None}])
    BY <2>1, TurnsSound DEF TurnRecords
  <2>4. MaxTokens(chat) \in Limits \cup {DefaultLimit}
    BY <2>1 DEF MaxTokens, Or
  <2>5. WorkingDir(chat) \in {"client", "flag", "cwd"}
    BY <2>1, <2>2 DEF WorkingDir, Or
  <2>6. ResolveTasteLearning(chat.choices.taste, flags.taste) \in BOOLEAN
    BY <2>1, <2>2 DEF ResolveTasteLearning, Or
  <2>7. ConvertTools(chat.choices.tools) \in SUBSET {"chat", "native"}
    BY DEF ConvertTools
  <2>8. source \in {"client", "disk"}
    BY <1>1
  <2> QED
    BY <1>3, <2>3, <2>4, <2>5, <2>6, <2>7, <2>8 DEF Bodies
<1>8. SnapshotTypeOK' => TypeOK'
  BY <1>1, <1>7 DEF IInv, TypeOK
<1> QED
  BY <1>5, <1>6, <1>8

\* IInv is inductive.
LEMMA InitInv == Init => IInv
<1> SUFFICES ASSUME Init PROVE IInv
  OBVIOUS
<1>1. SnapshotInv /\ read = "none"
  BY SnapshotStarts DEF Init
<1>2. phase = "received" /\ chat = None /\ body = None /\ request \in RequestRecords
      /\ flags \in FlagRecords
  BY RequestsAreRequests, FlagsAreFlags DEF Init
<1>3. TypeOK
  BY <1>1, <1>2 DEF TypeOK, SnapshotInv
<1> QED
  BY <1>1, <1>2, <1>3 DEF IInv, ChoicesInv, PromptInv, ReadingInv

LEMMA NextInv == IInv /\ [Next]_vars => IInv'
<1> SUFFICES ASSUME IInv, [Next]_vars PROVE IInv'
  OBVIOUS
<1>1. CASE AcceptChat \/ AcceptResponses
  BY <1>1, AcceptKeeps
<1>2. CASE CheckMessages \/ Generate
  BY <1>2, CheckKeeps
<1>3. CASE BuildFromClient \/ BuildOutsideGit
  <2>1. /\ phase = "building" /\ phase' = "built"
        /\ UNCHANGED <<projectVars, snapshotVars>>
    BY <1>3 DEF BuildFromClient, BuildOutsideGit, Build
  <2>2. ReadingInv' /\ SnapshotInv'
    BY <2>1, HandlerKeeps
  <2>3. ChoicesInv' /\ PromptInv' /\ (SnapshotTypeOK' => TypeOK')
    BY <1>3, <2>1, BuildKeeps DEF BuildFromClient, BuildOutsideGit
  <2> QED
    BY <2>2, <2>3 DEF IInv, SnapshotInv
<1>4. CASE BuildFromGit
  <2>1. Build("disk") /\ phase = "building" /\ phase' = "reading" /\ BeginReading
    BY <1>4 DEF BuildFromGit, Build
  <2>2. read = "none"
    BY <2>1 DEF IInv, ReadingInv
  <2>3. SnapshotInv' /\ read' # "none"
    BY <2>1, <2>2, ReadingBegins DEF IInv
  <2>4. ChoicesInv' /\ PromptInv' /\ (SnapshotTypeOK' => TypeOK')
    BY <2>1, BuildKeeps
  <2> QED
    BY <2>1, <2>3, <2>4 DEF IInv, ReadingInv, SnapshotInv
<1>5. ASSUME NEW ok \in BOOLEAN, GitAnswers(ok) PROVE IInv'
  <2>1. /\ phase = "reading" /\ ReadField(ok)
        /\ phase' = IF read' = "none" THEN "built" ELSE "reading"
        /\ UNCHANGED <<request, flags, chat, body>>
    BY <1>5 DEF GitAnswers
  <2>2. SnapshotInv'
    BY <2>1, FieldIsRead DEF IInv
  <2>3. ChoicesInv' /\ PromptInv' /\ (SnapshotTypeOK' => TypeOK')
    BY <2>1, RequestsRest
  <2> QED
    BY <2>1, <2>2, <2>3 DEF IInv, ReadingInv, SnapshotInv
<1>6. CASE WorkGoesOn
  <2>1. /\ phase = "reading" /\ ProjectStep
        /\ UNCHANGED <<request, flags, chat, body, phase>>
    BY <1>6 DEF WorkGoesOn
  <2>2. read # "none"
    BY <2>1 DEF IInv, ReadingInv
  <2>3. SnapshotInv' /\ read' = read
    BY <2>1, <2>2, ProjectMoves DEF IInv
  <2>4. ChoicesInv' /\ PromptInv' /\ (SnapshotTypeOK' => TypeOK')
    BY <2>1, RequestsRest
  <2> QED
    BY <2>1, <2>3, <2>4 DEF IInv, ReadingInv, SnapshotInv
<1>7. CASE UNCHANGED vars
  <2>1. /\ UNCHANGED <<request, flags, chat, body, phase>>
        /\ UNCHANGED <<projectVars, snapshotVars>>
    BY <1>7 DEF vars
  <2>2. SnapshotInv' /\ read' = read
    BY <2>1, SnapshotRests DEF IInv
  <2>3. ChoicesInv' /\ PromptInv' /\ (SnapshotTypeOK' => TypeOK')
    BY <2>1, RequestsRest
  <2> QED
    BY <2>1, <2>2, <2>3 DEF IInv, ReadingInv, SnapshotInv
<1> QED
  BY <1>1, <1>2, <1>3, <1>4, <1>5, <1>6, <1>7 DEF Next

-------------------------------------------------------------------------------
(***************************************************************************)
(* The theorems.                                                           *)
(***************************************************************************)

\* IInv holds of every request, project and operator (HandleChatCompletions,
\* HandleResponses and populateConfigFromFS).
THEOREM Invariance == Spec => []IInv
<1>1. Init => IInv
  BY InitInv
<1>2. IInv /\ [Next]_vars => IInv'
  BY NextInv
<1> QED
  BY <1>1, <1>2, PTL DEF Spec

\* Every request becomes a chat request and a body of the types that api declares
\* (api.OpenAIChatRequest, api.CCRequestBody), whichever route it came by.
THEOREM TypeCorrectness == Spec => []TypeOK
<1>1. IInv => TypeOK
  BY DEF IInv
<1> QED
  BY <1>1, Invariance, PTL

\* What the client says reaches CommandCode whole, in order and in its role, for
\* conversations of any length and items in any spelling (responsesInputToMessages,
\* ConvertMessages, and the two refusals of the handlers).
THEOREM PromptWhole == Spec => []PromptKept
<1>1. IInv => PromptKept
  BY PromptTold DEF IInv
<1> QED
  BY <1>1, Invariance, PTL

\* git's trimmed listing is summarized as what it lists, for any number of
\* files in any states git has (summarizePorcelain, gitOutput).
THEOREM SummaryIsTrue == Spec => []SummaryTrue
<1>1. IInv => SummaryTrue
  BY CountsTrue DEF IInv, SnapshotInv
<1> QED
  BY <1>1, Invariance, PTL

\* No change made before the reading is lost between its commands, whatever
\* happens to the project meanwhile (populateConfigFromFS).
THEOREM NoChangeLost == Spec => []ChangesSeen
<1>1. IInv => ChangesSeen
  BY DEF IInv, SnapshotInv
<1> QED
  BY <1>1, Invariance, PTL

\* The client's choices are not overruled, nor the operator's by a default
\* (ResolveTasteLearning, BuildCCRequestWithWorkingDir, responsesToChatRequest).
THEOREM ChoicesKept == Spec => []ClientDecides
<1>1. IInv => ClientDecides
  <2> SUFFICES ASSUME IInv, phase = "sent" PROVE ClientDecides
    BY DEF ClientDecides
  <2> DEFINE limits == request.limits
             choices == request.choices
  <2>1. /\ chat.choices = choices /\ chat.tokens = limits.tokens
        /\ chat.completion = IF request.route = "chat" THEN limits.completion
                             ELSE ShimLimit(limits)
        /\ body.config = IF choices.config = "full" THEN "client" ELSE "disk"
        /\ body.dir = IF body.config = "client" THEN "client" ELSE WorkingDir(chat)
        /\ body.limit = MaxTokens(chat)
        /\ body.tools = ConvertTools(choices.tools)
        /\ body.taste = ResolveTasteLearning(choices.taste, flags.taste)
    BY DEF IInv, ChoicesInv
  <2>2. /\ request.route \in {"chat", "responses"}
        /\ choices.dir \in {None, "client"} /\ flags.dir \in {None, "flag"}
    BY DEF IInv, TypeOK, RequestRecords, FlagRecords, Choices
  <2>3. /\ choices.taste # None => body.taste = choices.taste
        /\ choices.taste = None /\ flags.taste # None => body.taste = flags.taste
    BY <2>1 DEF ResolveTasteLearning, Or
  <2>4. /\ choices.dir # None \/ choices.config = "full" => body.dir = "client"
        /\ body.dir = "cwd" => flags.dir = None
        /\ choices.config = "full" <=> body.config = "client"
    BY <2>1, <2>2 DEF WorkingDir, Or
  <2>5. choices.tools \cap {"chat", "native"} \subseteq body.tools
    BY <2>1 DEF ConvertTools
  <2>6. limits.completion # None => body.limit = limits.completion
    BY <2>1 DEF MaxTokens, ShimLimit, Or
  <2> DEFINE given == ({limits.tokens, limits.completion}
                       \cup (IF request.route = "responses" THEN {limits.output} ELSE {}))
                      \ {None}
  <2>7. body.limit \in IF given = {} THEN {DefaultLimit} ELSE given
    <3>1. CASE request.route = "chat"
      BY <2>1, <3>1 DEF MaxTokens, Or
    <3>2. CASE request.route = "responses"
      BY <2>1, <3>2 DEF MaxTokens, ShimLimit, Or
    <3> QED
      BY <2>2, <3>1, <3>2
  <2> QED
    BY <2>3, <2>4, <2>5, <2>6, <2>7 DEF ClientDecides
<1> QED
  BY <1>1, Invariance, PTL
===============================================================================
