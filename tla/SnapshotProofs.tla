--------------------------- MODULE SnapshotProofs ---------------------------
(***************************************************************************)
(* Machine-checked proofs about snapshots: SourceTools, whose workers read *)
(* one through the shared cache, and SnapshotService, which builds them.   *)
(*                                                                         *)
(* The first part is for any repository tree, any number of workers, page  *)
(* and window sizes, process starts and calls.  Its invariant, ToolsInv,   *)
(* has five parts: types; what the stage of a call says about the call,    *)
(* whatever happened before (ShapeInv); who has the temporary files open   *)
(* as long as no process crashed (HeldInv); what makes the cache sound as  *)
(* long as no hazard of the shared directory occurred (CacheInv); and what *)
(* the caller has been told so far (ToldInv).                              *)
(*                                                                         *)
(* The second part is for any set of analyses and workers and any number   *)
(* of attempts and troubles; its invariant is SnapshotInv.                 *)
(***************************************************************************)
EXTENDS SourceTools, SnapshotService, FiniteSetTheorems, TLAPS

-----------------------------------------------------------------------------
(* The source tools: the invariant                                         *)

\* Where a worker calls a tool, fetches files, writes coverage.json, has a file
\* of the cache open, and is the one that removes the directory.
Calling == Pcs \ (CacheFree \cup {"cleanup"})
Fetching == {"fetch", "write", "replace"}
Covering == {"cover", "coveropen", "coverwrite", "coverreplace"}
Writing == {"write", "replace", "coverwrite", "coverreplace"}
Removing(w) == job[w].pc = "cleanup" /\ job[w].q # {1, 2, 3}

\* An answer after which the caller asks for the rest, and one after which not.
Continued(w) == job[w].pc = "answered" /\ job[w].more
Ended(w) == job[w].pc = "answered" /\ ~job[w].more

\* The two classes of text files are used by their definitions throughout.
USE DEF StoredText, ShownText

\* A file the snapshot stores as text; a file that is complete in the cache.
TextFile(p) == p \in Leaves /\ StoredText(p)
IsFull(p) == disk[p].target.st = "full"

\* Every text file below the directory that the SQL shows is in the cache.
Complete(dir) == \A p \in Leaves : dir \in Above[p] /\ ShownText(p) => IsFull(p)

\* The file a worker that writes has open.
FileOf(w) == IF job[w].pc \in {"coverwrite", "coverreplace"} THEN Coverage ELSE Min(job[w].todo)

\* What the stage of a call says about its fields, whatever happened before.
Shape(w) ==
  /\ job[w].pc \in Fetching => /\ job[w].todo # {} /\ job[w].tool \in {"read", "search"}
                               /\ \A p \in job[w].todo : StoredText(p)
  /\ job[w].pc \in Fetching /\ job[w].tool = "read" => job[w].todo = {job[w].at}
  /\ job[w].pc \in Covering \cup {"rg", "lock"} => job[w].tool = "search"
  /\ job[w].pc = "lines" => job[w].tool = "read"
  /\ job[w].tool = "read" /\ job[w].pc # "failed" => job[w].at \in Paths
  /\ job[w].tool = "list" => job[w].q \subseteq Paths
  /\ job[w].pc \in Calling \/ Continued(w) =>
       job[w].from # -1 /\ (job[w].tool = "read" => job[w].from # 0)
  /\ job[w].handle # "none" => job[w].pc \in Writing
  /\ job[w].pc = "cleanup" => job[w].q # {} /\ job[w].q \subseteq {1, 2, 3}

\* Only text files are in the cache, under either name.
OnlyText ==
  \A p \in Paths : disk[p].tmp.st # "none" \/ disk[p].target.st # "none" => TextFile(p)

\* What holds of the calls and the cache whatever crashed, collided or was removed.
ShapeInv == OnlyText /\ \A w \in Workers : Shape(w)

\* What a call relies on, as long as nothing disturbed it.
Sound(w) ==
  /\ job[w].pc \in Writing => job[w].handle = "tmp"
  /\ job[w].pc = "replace" => disk[Min(job[w].todo)].tmp = Full({})
  /\ job[w].pc = "coverreplace" => disk[Coverage].tmp = Full(job[w].data)
  /\ job[w].pc \in Fetching /\ job[w].tool = "search" =>
       \A p \in Leaves \ job[w].todo : job[w].at \in Above[p] /\ ShownText(p) => IsFull(p)
  /\ job[w].pc \in Covering \cup {"rg"} => Complete(job[w].at)
  /\ job[w].pc \in Covering \ {"cover"} => \A dir \in job[w].data : Complete(dir)
  /\ job[w].pc = "lines" => IsFull(job[w].at)

\* No two workers have one file open: nothing is truncated under a writer.
Apart ==
  \A v, w \in Workers :
    v # w /\ job[v].pc \in Writing /\ job[w].pc \in Writing => FileOf(v) # FileOf(w)

\* A cleanup that has removed something runs beside no call and no other cleanup.
Alone ==
  \A v, w \in Workers :
    v # w /\ Removing(v) => job[w].pc \notin Calling /\ ~Removing(w)

\* What a cleanup has removed is gone: the files (1), coverage.json (2).
Removed ==
  \A w \in Workers :
    Removing(w) => /\ 1 \notin job[w].q => \A p \in Paths : disk[p].target = Absent
                   /\ 2 \notin job[w].q => disk[Coverage].target = Absent

\* No file is truncated under its final name.
NotTorn == \A f \in Files : disk[f].target.st # "torn"

\* A directory listed in coverage.json is in the cache, except between the removal
\* of the files and that of coverage.json.
Covered ==
  \/ \E w \in Workers : Removing(w) /\ 1 \notin job[w].q
  \/ \A dir \in disk[Coverage].target.val : Complete(dir)

\* A cache nothing has disturbed; the invariant about it.
Calm ==
  /\ NotTorn /\ Covered /\ Removed /\ Alone /\ Apart
  /\ \A w \in Workers : Sound(w)

CacheInv == broken = {} => Calm

\* The rows the SQL of a listing selects, the paths of the items told so far, and
\* the item of a line.
Rows(w) == {p \in job[w].q : visible_path_sql(p)}
PathsOf(items) == {i.path : i \in items}
LineItem(p, n) == Item(p, n, Min({Lines[p][n], MaxBytes}), FALSE)

\* The rows of a listing that are no secret paths.
Shown(w) == {p \in Rows(w) : ~is_secret_path(p)}

\* What was seen has no gap; what was not seen is behind a row that is not shown.
Gapless(seen, shown) == seen \subseteq shown /\ \A p \in seen, r \in shown : r < p => r \in seen
Behind(seen, rows, shown) == \A r \in shown \ seen : \E s \in rows \ shown : s < r

\* A listing has told the rows before its cursor, none of them secret; when it ends,
\* without a gap, all but rows behind a secret one.
ListTold(w) ==
  job[w].tool = "list" =>
    /\ job[w].pc = "call" \/ Continued(w) =>
         /\ job[w].from \in Nat /\ PathsOf(job[w].got) = First(Rows(w), job[w].from)
         /\ PathsOf(job[w].got) \subseteq Shown(w)
    /\ Ended(w) => /\ Gapless(PathsOf(job[w].got), Shown(w))
                   /\ Behind(PathsOf(job[w].got), Rows(w), Shown(w))

\* The last line the caller of read_file asked for in the first call.
Asked(w) == IF job[w].end = 0 THEN job[w].first + DefaultLines - 1 ELSE job[w].end

\* A reader has been told the lines before next_start_line; at the end, all it asked for.
ReadTold(w) ==
  broken = {} /\ job[w].tool = "read" =>
    /\ job[w].pc \in Calling \/ Continued(w) =>
         /\ job[w].first <= job[w].from
         /\ \A n \in job[w].first .. job[w].from - 1 :
              n <= Len(Lines[job[w].at]) => LineItem(job[w].at, n) \in job[w].got
    /\ Ended(w) => \A n \in job[w].first .. Asked(w) :
                     n <= Len(Lines[job[w].at]) => LineItem(job[w].at, n) \in job[w].got

\* A search of one page has been told nothing before its answer; a complete answer
\* names the text files below the directory that the SQL shows, other matches are in
\* text files that are stored, and one in a temporary file is of another process.
SearchTold(w) ==
  job[w].tool = "search" =>
    /\ job[w].pc \in Calling /\ ~job[w].paged => job[w].from = 0 /\ job[w].got = {} /\ ~job[w].cut
    /\ broken = {} /\ Ended(w) /\ ~job[w].paged /\ ~job[w].cut =>
         /\ \A p \in Under(job[w].at) : ShownText(p) => Item(p, 0, 0, FALSE) \in job[w].got
         /\ \A i \in job[w].got : i.path \in Under(job[w].at) /\ StoredText(i.path)
         /\ \A i \in job[w].got : i.tmp = TRUE => starts > 1

\* The three together, for every worker.
ToldInv == \A w \in Workers : ListTold(w) /\ ReadTold(w) /\ SearchTold(w)

\* A temporary file has somebody who has it open, a truncated source file somebody
\* who is about to write it.
Held(f) ==
  /\ disk[f].tmp.st # "none" => \E v \in Workers : job[v].handle = "tmp" /\ FileOf(v) = f
  /\ f \in Paths /\ disk[f].tmp.st = "torn" =>
       \E v \in Workers : job[v].handle = "tmp" /\ job[v].pc = "write" /\ FileOf(v) = f
  /\ f \in Paths /\ disk[f].target.st = "torn" =>
       \E v \in Workers : job[v].handle = "target" /\ job[v].pc = "write" /\ FileOf(v) = f

\* That holds until a process has crashed: then more were started than are up.
HeldInv ==
  /\ Cardinality(Up) <= starts
  /\ Cardinality(Up) = starts => \A f \in Files : Held(f)

-----------------------------------------------------------------------------
(* Numbers.  What a definition by recursion or CHOOSE gives is obtained      *)
(* from a smallest or a largest element of a set.                           *)

\* A set of naturals has a smallest element.
LEMMA Smallest ==
  ASSUME NEW T \in SUBSET Nat, T # {}
  PROVE  \E x \in T : \A y \in T : x <= y
<1> DEFINE R == OpToRel(<, Nat)
<1>1. IsWellFoundedOn(R, Nat)
  BY NatLessThanWellFounded DEF OpToRel
<1>2. \A a, b \in Nat : a < b => <<a, b>> \in R
  BY DEF OpToRel
<1> HIDE DEF R
<1>3. PICK x \in T : \A y \in T : ~ (<<y, x>> \in R)
  BY <1>1, WFMin
<1>4. \A y \in T : ~ (y < x)
  BY <1>2, <1>3
<1>5. QED BY <1>4

\* A set of integers with a bound has a largest element.
LEMMA Largest ==
  ASSUME NEW b \in Int, NEW T \in SUBSET Int, T # {}, \A x \in T : x <= b
  PROVE  \E x \in T : \A y \in T : y <= x
<1> DEFINE U == {b - x : x \in T}
<1>1. \A x \in T : b - x \in Nat
  OBVIOUS
<1>2. U \in SUBSET Nat /\ U # {}
  BY <1>1
<1>3. PICK u \in U : \A v \in U : u <= v
  BY <1>2, Smallest
<1>4. PICK x \in T : u = b - x
  BY <1>3
<1>5. \A y \in T : b - x <= b - y
  BY <1>3, <1>4
<1>6. QED BY <1>5

\* Min of FiniteSetsExt is the smallest element.
LEMMA MinOfSet ==
  ASSUME NEW T \in SUBSET Nat, T # {}
  PROVE  Min(T) \in T /\ \A y \in T : Min(T) <= y
BY Smallest DEF Min

\* The smaller of two numbers.
LEMMA MinOfTwo ==
  ASSUME NEW a \in Int, NEW b \in Int
  PROVE  /\ Min({a, b}) \in {a, b} /\ Min({a, b}) <= a /\ Min({a, b}) <= b
         /\ Min({a}) = a
<1>1. \E x \in {a, b} : \A y \in {a, b} : x <= y
  OBVIOUS
<1>2. QED BY <1>1 DEF Min

\* The largest of a bounded set.
LEMMA MaxOfSet ==
  ASSUME NEW b \in Int, NEW T \in SUBSET Int, T # {}, \A x \in T : x <= b
  PROVE  Max(T) \in T /\ \A y \in T : y <= Max(T)
<1>1. PICK x \in T : \A y \in T : y <= x
  BY Largest
<1>2. \A y \in T : x >= y
  BY <1>1
<1>3. \E z \in T : \A y \in T : z >= y
  BY <1>2
<1>4. Max(T) \in T /\ \A y \in T : Max(T) >= y
  BY <1>3 DEF Max
<1>5. QED BY <1>4

-----------------------------------------------------------------------------
(* Paths                                                                   *)

\* The directories above a path: the least set that has its parent and, with a
\* path, the path's parent.
Reached(p) ==
  {d \in Paths \cup {Root} :
     \A C \in SUBSET (Paths \cup {Root}) :
        Parent[p] \in C /\ (\A x \in C \cap Paths : Parent[x] \in C) => d \in C}

\* What the recursive definition of Above says.
LEMMA AboveEquation ==
  ASSUME NEW p \in Paths
  PROVE  Above[p] = IF Parent[p] = Root THEN {Root} ELSE {Parent[p]} \cup Above[Parent[p]]
<1> DEFINE Solves(f) == f = [x \in Paths |-> IF Parent[x] = Root THEN {Root}
                                              ELSE {Parent[x]} \cup f[Parent[x]]]
           G == [x \in Paths |-> Reached(x)]
<1>1. \A x \in Paths : Parent[x] \in Paths \cup {Root} /\ Root \notin Paths
  BY SourceToolsAssumption DEF Root
<1>2. ASSUME NEW x \in Paths, Parent[x] = Root
      PROVE  Reached(x) = {Root}
  <2>1. {Root} \in SUBSET (Paths \cup {Root}) /\ \A y \in {Root} \cap Paths : Parent[y] \in {Root}
    BY <1>1
  <2>2. Reached(x) \subseteq {Root}
    BY <1>2, <2>1 DEF Reached
  <2>3. Root \in Reached(x)
    BY <1>2 DEF Reached
  <2>4. QED BY <2>2, <2>3
<1>3. ASSUME NEW x \in Paths, NEW r \in Paths, Parent[x] = r
      PROVE  Reached(x) = {r} \cup Reached(r)
  <2> DEFINE C == {r} \cup Reached(r)
  <2>1. C \in SUBSET (Paths \cup {Root})
    BY DEF Reached
  <2>2. ASSUME NEW y \in C \cap Paths
        PROVE  Parent[y] \in C
    <3>1. Parent[y] \in Paths \cup {Root}
      BY <1>1
    <3>2. CASE y = r
      BY <3>1, <3>2 DEF Reached
    <3>3. CASE y \in Reached(r)
      <4>1. ASSUME NEW D \in SUBSET (Paths \cup {Root}), Parent[r] \in D,
                   \A z \in D \cap Paths : Parent[z] \in D
            PROVE  Parent[y] \in D
        BY <3>3, <4>1 DEF Reached
      <4>2. QED BY <3>1, <4>1 DEF Reached
    <3>4. QED BY <3>2, <3>3
  <2>3. Reached(x) \subseteq C
    <3> HIDE DEF C
    <3>1. r \in C
      BY DEF C
    <3>2. QED BY <1>3, <2>1, <2>2, <3>1 DEF Reached
  <2>4. r \in Reached(x)
    BY <1>3 DEF Reached
  <2>5. Reached(r) \subseteq Reached(x)
    BY <1>3 DEF Reached
  <2>6. QED BY <2>3, <2>4, <2>5
<1>4. \A x \in Paths : Reached(x) = IF Parent[x] = Root THEN {Root}
                                      ELSE {Parent[x]} \cup Reached(Parent[x])
  BY <1>1, <1>2, <1>3
<1>5. Solves(G)
  <2> HIDE DEF Reached
  <2>1. \A x \in Paths : Parent[x] # Root => G[Parent[x]] = Reached(Parent[x])
    BY <1>1
  <2>2. \A x \in Paths : G[x] = IF Parent[x] = Root THEN {Root}
                                ELSE {Parent[x]} \cup G[Parent[x]]
    BY <1>4, <2>1
  <2>3. QED BY <2>2
<1>6. Solves(Above)
  <2> HIDE DEF G
  <2>1. Above = CHOOSE f : Solves(f)
    BY DEF Above
  <2> HIDE DEF Solves
  <2>2. QED BY <1>5, <2>1
<1>7. QED BY <1>6

\* What is above a directory above a path is above the path.
LEMMA AboveTransitive ==
  ASSUME NEW p \in Paths, NEW d \in Paths, d \in Above[p], NEW c \in Above[d]
  PROVE  c \in Above[p]
<1> DEFINE T == {x \in Paths : d \in Above[x] /\ c \notin Above[x]}
<1>1. ASSUME T # {}
      PROVE  FALSE
  <2>1. T \in SUBSET Nat
    BY SourceToolsAssumption
  <2>2. PICK x \in T : \A y \in T : x <= y
    BY <1>1, <2>1, Smallest
  <2>3. x \in Paths /\ d \in Above[x] /\ c \notin Above[x] /\ d # Root
    BY <2>2, SourceToolsAssumption DEF Root
  <2>4. Parent[x] # Root /\ Above[x] = {Parent[x]} \cup Above[Parent[x]]
    <3>1. Above[x] = IF Parent[x] = Root THEN {Root} ELSE {Parent[x]} \cup Above[Parent[x]]
      BY <2>3, AboveEquation
    <3>2. QED BY <2>3, <3>1
  <2>5. Parent[x] \in Paths /\ Parent[x] < x
    BY <2>3, <2>4, SourceToolsAssumption
  <2>6. d \in Above[Parent[x]] /\ c \notin Above[Parent[x]]
    BY <2>3, <2>4
  <2>7. Parent[x] \in T
    BY <2>5, <2>6
  <2>8. QED BY <2>1, <2>2, <2>5, <2>7
<1>2. QED BY <1>1

\* What a candidate tree has at a path.
LEMMA TreeFacts ==
  ASSUME TypeOK, NEW p \in Paths
  PROVE  /\ tree[p] \in Entries
         /\ tree[p].kind = "directory" <=> p \in Directories
         /\ StoredText(p) => p \in Leaves
BY SourceToolsAssumption DEF TypeOK, Leaves

\* The files that are stored and neither binary nor large are the text files.
LEMMA ReadableText ==
  ASSUME TypeOK, NEW p \in Paths
  PROVE  Readable(p) <=> TextFile(p)
<1>1. tree[p] \in Entries /\ (StoredText(p) => p \in Leaves)
  BY TreeFacts
<1>2. tree[p].class \in {"plain", "secret", "nested", "hidden"}
  BY <1>1 DEF Entries
<1>3. Readable(p) <=> StoredText(p)
  BY <1>2 DEF Readable, scan, FileRecord, is_secret_path
<1>4. QED BY <1>1, <1>3 DEF TextFile

\* text_files_under_prefix selects the text files below the directory that are shown.
LEMMA TextFilesUnder ==
  ASSUME TypeOK, NEW dir
  PROVE  text_files_under_prefix(dir) = {p \in Leaves : dir \in Above[p] /\ ShownText(p)}
<1>1. \A p \in Paths : Readable(p) <=> TextFile(p)
  BY ReadableText
<1>2. \A p \in Paths : TextFile(p) => scan(p).entry_kind = "file"
  BY DEF TextFile, scan, FileRecord, is_secret_path
<1>3. \A p \in Paths : TextFile(p) /\ visible_path_sql(p) <=> p \in Leaves /\ ShownText(p)
  BY DEF TextFile, visible_path_sql
<1>4. Leaves \subseteq Paths
  BY DEF Leaves
<1>5. QED BY <1>1, <1>2, <1>3, <1>4 DEF text_files_under_prefix, Under

-----------------------------------------------------------------------------
(* Pages: ORDER BY path LIMIT n                                            *)

\* A page that is not empty has a last row.
LEMMA LargestRow ==
  ASSUME NEW S \in SUBSET Nat, IsFiniteSet(S), S # {}
  PROVE  \E x \in S : \A y \in S : y <= x
<1> DEFINE Below(i) == {j \in S : j < i}
           K == {Cardinality(Below(i)) : i \in S}
<1>1. Cardinality(S) \in Nat
  BY FS_CardinalityType
<1>2. ASSUME NEW i \in S
      PROVE  /\ Below(i) \in SUBSET S /\ IsFiniteSet(Below(i))
             /\ Cardinality(Below(i)) \in Nat /\ Cardinality(Below(i)) <= Cardinality(S)
  BY FS_Subset, FS_CardinalityType
<1>3. K \in SUBSET Int /\ K # {} /\ \A k \in K : k <= Cardinality(S)
  <2>1. \A i \in S : Cardinality(Below(i)) \in Int /\ Cardinality(Below(i)) <= Cardinality(S)
    BY <1>2
  <2> HIDE DEF Below
  <2>2. \A k \in K : \E i \in S : k = Cardinality(Below(i))
    OBVIOUS
  <2>3. K # {}
    OBVIOUS
  <2> HIDE DEF K
  <2>4. QED BY <2>1, <2>2, <2>3
<1>4. PICK k \in K : \A l \in K : l <= k
  <2> HIDE DEF K
  <2>1. Cardinality(S) \in Int
    BY <1>1
  <2>2. QED BY <1>3, <2>1, Largest
<1>5. PICK x \in S : k = Cardinality(Below(x))
  BY <1>4
<1>6. ASSUME NEW y \in S, ~ (y <= x)
      PROVE  FALSE
  <2>1. x \in Nat /\ y \in Nat
    OBVIOUS
  <2>2. Below(x) \cup {x} \subseteq Below(y) /\ x \notin Below(x)
    <3>1. \A j \in S : j \in Nat /\ (j < x => j < y) /\ x < y /\ ~ (x < x)
      BY <1>6, <2>1
    <3>2. QED BY <3>1
  <2>3. Cardinality(Below(x) \cup {x}) = Cardinality(Below(x)) + 1
    BY <1>2, <2>2, FS_AddElement
  <2>4. Cardinality(Below(x) \cup {x}) <= Cardinality(Below(y))
    BY <1>2, <2>2, FS_Subset
  <2>5. Cardinality(Below(y)) <= Cardinality(Below(x))
    BY <1>4, <1>5
  <2>6. QED BY <1>2, <2>3, <2>4, <2>5
<1>7. QED BY <1>6

\* The first n rows are n rows or all of them, and a row before one of them is one.
LEMMA FirstRows ==
  ASSUME NEW S \in SUBSET Nat, IsFiniteSet(S), NEW n \in Nat
  PROVE  /\ First(S, n) \subseteq S
         /\ IsFiniteSet(First(S, n)) /\ Cardinality(First(S, n)) \in Nat
         /\ Cardinality(First(S, n)) <= n
         /\ Cardinality(First(S, n)) = n \/ First(S, n) = S
         /\ \A i \in First(S, n), j \in S : j <= i => j \in First(S, n)
<1> DEFINE Below(i) == {j \in S : j < i}
           F == {i \in S : Cardinality(Below(i)) < n}
<1>0. First(S, n) = F
  BY DEF First
<1>1. ASSUME NEW T \in SUBSET S
      PROVE  IsFiniteSet(T) /\ Cardinality(T) \in Nat
  BY <1>1, FS_Subset, FS_CardinalityType
<1>2. F \in SUBSET S /\ \A i \in S : Below(i) \in SUBSET S
  OBVIOUS
<1>3. \A i \in F : Cardinality(Below(i)) < n
  OBVIOUS
<1>4. \A i \in S : i \notin F => n <= Cardinality(Below(i))
  BY <1>1, <1>2
<1>5. \A i \in S : i \in Nat
  OBVIOUS
<1>6. ASSUME NEW i \in F, NEW j \in S, j <= i
      PROVE  j \in F
  <2>1. Below(j) \subseteq Below(i)
    <3>1. i \in Nat /\ j \in Nat
      BY <1>2, <1>5
    <3>2. \A k \in S : k < j => k < i
      BY <1>5, <1>6, <3>1
    <3>3. QED BY <3>2
  <2>2. Cardinality(Below(j)) <= Cardinality(Below(i))
    BY <1>1, <1>2, <2>1, FS_Subset
  <2>3. QED BY <1>1, <1>2, <1>3, <2>2
<1> HIDE DEF F
<1>7. Cardinality(F) <= n
  <2>1. CASE F = {}
    BY <2>1, FS_EmptySet
  <2>2. CASE F # {}
    <3>1. PICK x \in F : \A y \in F : y <= x
      BY <1>1, <1>2, <2>2, LargestRow
    <3>2. F = Below(x) \cup {x} /\ x \notin Below(x)
      <4>1. x \in S /\ x \in Nat /\ ~ (x < x)
        BY <1>2, <1>5, <3>1
      <4>2. \A j \in S : j < x => j \in F
        BY <1>5, <1>6, <4>1
      <4>3. \A j \in F : j \in S /\ (j < x \/ j = x)
        BY <1>2, <1>5, <3>1, <4>1
      <4>4. QED BY <3>1, <4>1, <4>2, <4>3
    <3>3. Cardinality(F) = Cardinality(Below(x)) + 1
      BY <1>1, <1>2, <3>1, <3>2, FS_AddElement
    <3>4. QED BY <1>1, <1>2, <1>3, <3>1, <3>3
  <2>3. QED BY <2>1, <2>2
<1>8. ASSUME F # S
      PROVE  n <= Cardinality(F)
  <2>1. PICK m \in S \ F : \A y \in S \ F : m <= y
    BY <1>2, <1>5, <1>8, Smallest
  <2>2. Below(m) \subseteq F
    <3>1. \A j \in S : j < m => ~ (m <= j)
      BY <1>5, <2>1
    <3>2. QED BY <2>1, <3>1
  <2>3. Cardinality(Below(m)) <= Cardinality(F)
    BY <1>1, <1>2, <2>2, FS_Subset
  <2>4. QED BY <1>1, <1>2, <1>4, <2>1, <2>3
<1>9. IsFiniteSet(F) /\ Cardinality(F) \in Nat
  BY <1>1, <1>2
<1>10. Cardinality(F) = n \/ F = S
  BY <1>7, <1>8, <1>9
<1>11. QED BY <1>0, <1>2, <1>6, <1>7, <1>9, <1>10

\* The first b rows that follow the first a are the rest of the first a + b.
LEMMA NextRows ==
  ASSUME NEW S \in SUBSET Nat, IsFiniteSet(S), NEW a \in Nat, NEW b \in Nat
  PROVE  First(S, a + b) = First(S, a) \cup First(S \ First(S, a), b)
<1> DEFINE A == First(S, a)
           R == S \ A
           Below(i) == {j \in S : j < i}
           Rest(i) == {j \in R : j < i}
<1>1. /\ A \subseteq S /\ IsFiniteSet(A) /\ Cardinality(A) \in Nat
      /\ Cardinality(A) = a \/ A = S
      /\ \A i \in A, j \in S : j <= i => j \in A
  BY FirstRows
<1>2. \A i \in S : Cardinality(Below(i)) \in Nat /\ IsFiniteSet(Below(i))
  BY FS_Subset, FS_CardinalityType
<1>3. A = {i \in S : Cardinality(Below(i)) < a}
  BY DEF First
<1> HIDE DEF A
<1>4. ASSUME NEW i \in R
      PROVE  Cardinality(Below(i)) < a + b <=> Cardinality(Rest(i)) < b
  <2>1. i \in S /\ i \in Nat /\ Cardinality(A) = a /\ \A j \in A : j \in Nat
    BY <1>1
  <2>2. \A j \in A : j < i
    BY <1>1, <2>1
  <2>3. Below(i) = A \cup Rest(i) /\ A \cap Rest(i) = {}
    BY <1>1, <2>2
  <2>4. IsFiniteSet(Rest(i)) /\ Cardinality(Rest(i)) \in Nat
    BY <1>2, <2>1, <2>3, FS_Subset, FS_CardinalityType
  <2>5. Cardinality(A \cup Rest(i)) = Cardinality(A) + Cardinality(Rest(i)) - Cardinality(A \cap Rest(i))
    BY <1>1, <2>4, FS_Union
  <2>6. Cardinality(A \cap Rest(i)) = 0
    BY <2>3, FS_EmptySet
  <2>7. Cardinality(Below(i)) = a + Cardinality(Rest(i))
    <3>1. Cardinality(Below(i)) = Cardinality(A \cup Rest(i))
      BY <2>3
    <3> HIDE DEF Below, Rest
    <3>2. QED BY <2>1, <2>4, <2>5, <2>6, <3>1
  <2> HIDE DEF Below, Rest
  <2>8. QED BY <2>4, <2>7
<1>5. First(R, b) = {i \in R : Cardinality(Rest(i)) < b}
  BY DEF First
<1>6. First(S, a + b) = {i \in S : Cardinality(Below(i)) < a + b}
  BY DEF First
<1>7. \A i \in A : i \in S /\ Cardinality(Below(i)) < a + b
  <2>1. \A i \in A : i \in S /\ Cardinality(Below(i)) < a /\ Cardinality(Below(i)) \in Nat
    BY <1>2, <1>3
  <2> HIDE DEF Below
  <2>2. QED BY <2>1
<1> HIDE DEF Below, Rest
<1>8. QED BY <1>1, <1>4, <1>5, <1>6, <1>7 DEF A

\* The first rows of a page are the first rows.
LEMMA FirstOfFirst ==
  ASSUME NEW S \in SUBSET Nat, IsFiniteSet(S), NEW m \in Nat
  PROVE  First(First(S, m + 1), m) = First(S, m)
<1> DEFINE F == First(S, m + 1)
           Below(i) == {j \in S : j < i}
<1>1. F \subseteq S /\ \A i \in F, j \in S : j <= i => j \in F
  BY FirstRows
<1>2. F = {i \in S : Cardinality(Below(i)) < m + 1}
  BY DEF First
<1> HIDE DEF F
<1>3. \A i \in F : {j \in F : j < i} = Below(i)
  <2>1. \A i \in F, j \in S : j < i => j \in F
    BY <1>1
  <2>2. QED BY <1>1, <2>1
<1>4. First(F, m) = {i \in F : Cardinality(Below(i)) < m}
  BY <1>3 DEF First
<1>5. First(S, m) = {i \in S : Cardinality(Below(i)) < m}
  BY DEF First
<1>6. \A i \in S : Cardinality(Below(i)) \in Nat
  BY FS_Subset, FS_CardinalityType
<1> HIDE DEF Below
<1>7. \A i \in S : Cardinality(Below(i)) < m => i \in F
  BY <1>2, <1>6
<1>8. QED BY <1>1, <1>4, <1>5, <1>7 DEF F

\* A page drops the rows that are not shown and has one row of look-ahead.  If it
\* is full nothing was dropped; if not, it is the last.
LEMMA PageOfRows ==
  ASSUME NEW R \in SUBSET Nat, IsFiniteSet(R), NEW S \in SUBSET R, NEW a \in Nat, NEW m \in Nat,
         First(R, a) \subseteq S
  PROVE  LET F == First(R, a)
             T == First(R \ F, m + 1) \cap S
         IN  /\ Cardinality(T) > m => /\ First(R, a + m) = F \cup First(T, m)
                                      /\ First(R, a + m) \subseteq S
             /\ ~ (Cardinality(T) > m) => Gapless(F \cup T, S) /\ Behind(F \cup T, R, S)
<1>0. PICK F, T : F = First(R, a) /\ F \subseteq S /\ T = First(R \ F, m + 1) \cap S
  OBVIOUS
<1> DEFINE L == First(R \ F, m + 1)
<1>1. F \subseteq R /\ \A i \in F, j \in R : j <= i => j \in F
  BY <1>0, FirstRows
<1>2. R \ F \in SUBSET Nat /\ IsFiniteSet(R \ F) /\ m + 1 \in Nat
  <2>1. R \ F \in SUBSET R
    OBVIOUS
  <2>2. IsFiniteSet(R \ F)
    BY <2>1, FS_Subset
  <2>3. R \ F \in SUBSET Nat
    OBVIOUS
  <2>4. m + 1 \in Nat
    OBVIOUS
  <2>5. QED BY <2>2, <2>3, <2>4
<1>3. /\ L \subseteq R \ F /\ IsFiniteSet(L) /\ Cardinality(L) \in Nat
      /\ Cardinality(L) <= m + 1
      /\ Cardinality(L) = m + 1 \/ L = R \ F
      /\ \A i \in L, j \in R \ F : j <= i => j \in L
  BY <1>2, FirstRows
<1> HIDE DEF L
<1>4. T = L \cap S
  BY <1>0 DEF L
<1>5. /\ T \in SUBSET L /\ Cardinality(T) \in Nat /\ Cardinality(T) <= Cardinality(L)
      /\ Cardinality(L) = Cardinality(T) => L = T
  <2>1. T \in SUBSET L
    BY <1>4
  <2>2. QED BY <1>3, <2>1, FS_Subset, FS_CardinalityType
<1>6. ASSUME Cardinality(T) > m
      PROVE  First(R, a + m) = F \cup First(T, m) /\ First(R, a + m) \subseteq S
  <2>1. Cardinality(L) = Cardinality(T)
    BY <1>3, <1>5, <1>6
  <2>2. T = L
    BY <1>5, <2>1
  <2>3. First(T, m) = First(R \ F, m)
    BY <1>2, <2>2, FirstOfFirst DEF L
  <2>4. First(R, a + m) = F \cup First(R \ F, m)
    BY <1>0, NextRows
  <2>5. First(T, m) \subseteq S
    BY <1>4 DEF First
  <2>6. QED BY <1>0, <2>3, <2>4, <2>5
<1>7. ASSUME ~ (Cardinality(T) > m)
      PROVE  Gapless(F \cup T, S) /\ Behind(F \cup T, R, S)
  <2>1. ASSUME NEW p \in F \cup T, NEW r \in S, r < p
        PROVE  r \in F \cup T
    <3>1. r \in R /\ r \in Nat /\ p \in Nat /\ r <= p
      BY <1>1, <1>3, <1>5, <2>1
    <3>2. QED BY <1>1, <1>3, <1>4, <2>1, <3>1
  <2>2. ASSUME NEW r \in S \ (F \cup T)
        PROVE  \E s \in R \ S : s < r
    <3>1. r \in R \ F /\ r \notin L
      BY <1>4
    <3>2. Cardinality(L) = m + 1 /\ T # L
      BY <1>3, <1>5, <1>7, <3>1
    <3>3. PICK s \in L : s \notin S
      BY <1>4, <1>5, <3>2
    <3>4. ~ (r <= s)
      BY <1>3, <3>1
    <3>5. r \in Nat /\ s \in Nat /\ s \in R
      BY <1>3, <3>1
    <3>6. s < r
      BY <3>4, <3>5
    <3>7. QED BY <3>3, <3>5, <3>6
  <2>3. F \cup T \subseteq S
    BY <1>0, <1>4
  <2>4. QED BY <2>1, <2>2, <2>3 DEF Gapless, Behind
<1>8. QED BY <1>0, <1>6, <1>7

-----------------------------------------------------------------------------
(* Types                                                                   *)

\* The jobs of a worker that has none, that is down, removes or has failed.
LEMMA SomeJobs ==
  /\ NoJob \in Jobs
  /\ [NoJob EXCEPT !.pc = "down"] \in Jobs
  /\ [NoJob EXCEPT !.pc = "cleanup", !.q = {1, 2, 3}] \in Jobs
  /\ \A t \in {"none", "list", "read", "search"} :
       [NoJob EXCEPT !.pc = "failed", !.tool = t] \in Jobs
<1>1. {} \in SUBSET (Paths \cup 1 .. 3) /\ {1, 2, 3} \in SUBSET (Paths \cup 1 .. 3)
  OBVIOUS
<1>2. NoJob \in Jobs
  BY <1>1 DEF NoJob, Jobs, Pcs
<1>3. [NoJob EXCEPT !.pc = "down"] \in Jobs
  BY <1>2 DEF Jobs, Pcs
<1>4. [NoJob EXCEPT !.pc = "cleanup", !.q = {1, 2, 3}] \in Jobs
  BY <1>1, <1>2 DEF Jobs, Pcs
<1>5. ASSUME NEW t \in {"none", "list", "read", "search"}
      PROVE  [NoJob EXCEPT !.pc = "failed", !.tool = t] \in Jobs
  BY <1>2 DEF Jobs, Pcs
<1>6. QED BY <1>2, <1>3, <1>4, <1>5

\* Paths, directories and cache files.
LEMMA PathFacts ==
  /\ Root = 0 /\ Coverage = 0 /\ 0 \notin Paths /\ Leaves \subseteq Paths
  /\ Directories \subseteq Paths /\ Paths \subseteq Nat /\ IsFiniteSet(Paths)
  /\ Coverage \in Files /\ Paths \subseteq Files /\ Files = Paths \cup {0}
  /\ \A dir : Under(dir) \subseteq Paths
BY SourceToolsAssumption DEF Root, Coverage, Leaves, Directories, Files, Under

\* A worker's call is replaced by another.
LEMMA SetType ==
  ASSUME TypeOK, NEW w \in Workers, NEW j \in Jobs, Set(w, j)
  PROVE  job' \in [Workers -> Jobs]
BY DEF TypeOK, Set

\* A call that fails leaves a typed job.
LEMMA ErrorType ==
  ASSUME TypeOK, NEW w \in Workers, Error(w)
  PROVE  job' \in [Workers -> Jobs]
<1>1. job[w].tool \in {"none", "list", "read", "search"}
  BY DEF TypeOK, Jobs
<1>2. QED BY <1>1, SomeJobs, SetType DEF Error

\* A call that answers leaves a typed job when its items are typed.
LEMMA AnswerType ==
  ASSUME TypeOK, NEW w \in Workers, NEW next \in Nat \cup {-1}, NEW cut \in BOOLEAN,
         NEW items \in SUBSET [path : Paths, line : Nat, size : Nat, tmp : BOOLEAN],
         Answer(w, items, next, cut)
  PROVE  job' \in [Workers -> Jobs]
<1> DEFINE j == [job[w] EXCEPT !.pc = "answered", !.got = @ \cup items, !.more = next # -1,
                          !.from = next, !.cut = @ \/ cut]
<1>1. job[w] \in Jobs
  BY DEF TypeOK
<1>2. (next # -1) \in BOOLEAN /\ (job[w].cut \/ cut) \in BOOLEAN
  OBVIOUS
<1>3. job[w].got \cup items \in SUBSET [path : Paths, line : Nat, size : Nat, tmp : BOOLEAN]
  BY <1>1 DEF Jobs
<1>4. ASSUME NEW m \in BOOLEAN, NEW c \in BOOLEAN,
             NEW g \in SUBSET [path : Paths, line : Nat, size : Nat, tmp : BOOLEAN]
      PROVE  [job[w] EXCEPT !.pc = "answered", !.got = g, !.more = m, !.from = next, !.cut = c] \in Jobs
  BY <1>1 DEF Jobs, Pcs
<1>5. j \in Jobs
  BY <1>2, <1>3, <1>4, Zenon
<1>6. QED BY <1>5, SetType DEF Answer

\* The first line, the last and the next of a window, and their order.
LEMMA RangeFacts ==
  ASSUME NEW p, NEW start \in Nat, NEW last \in Int
  PROVE  LET actual == _read_line_range(p, start, last)
         IN  /\ actual \in Int /\ start - 1 <= actual /\ (actual <= last \/ actual = start - 1)
             /\ \A n \in start .. actual : n <= last
<1> DEFINE T == {start - 1} \cup {e \in start .. last : e = start \/ Bytes(p, start, e) <= MaxBytes}
<1>1. T \in SUBSET Int /\ T # {}
  OBVIOUS
<1>2. \A x \in T : x = start - 1 \/ (x \in start .. last)
  OBVIOUS
<1>3. _read_line_range(p, start, last) = Max(T)
  BY DEF _read_line_range
<1>4. start - 1 \in T
  OBVIOUS
<1> HIDE DEF T
<1>5. PICK b \in Int : \A x \in T : x <= b
  <2>1. CASE last <= start
    <3>1. start \in Int /\ \A x \in T : x <= start
      BY <1>2, <2>1
    <3>2. QED BY <3>1
  <2>2. CASE start <= last
    <3>1. \A x \in T : x <= last
      BY <1>2, <2>2
    <3>2. QED BY <3>1
  <2>3. QED BY <2>1, <2>2
<1>6. Max(T) \in T /\ \A y \in T : y <= Max(T)
  BY <1>1, <1>5, MaxOfSet
<1> DEFINE m == Max(T)
<1> HIDE DEF m
<1>7. m \in T /\ m \in Int /\ \A y \in T : y <= m
  BY <1>1, <1>6 DEF m
<1>8. start - 1 <= m /\ (m <= last \/ m = start - 1)
  BY <1>2, <1>4, <1>7
<1>9. \A n \in start .. m : n <= last
  BY <1>7, <1>8
<1>10. QED BY <1>3, <1>7, <1>8, <1>9 DEF m

\* A call that begins.
LEMMA BeginType ==
  ASSUME TypeOK, NEW w \in Workers, NEW tool \in {"list", "read", "search"},
         NEW place \in Paths \cup {Root}, NEW q \in SUBSET Paths, NEW from \in Nat, NEW end \in Nat,
         Begin(w, tool, place, q, from, end)
  PROVE  TypeOK'
<1> DEFINE stage == IF place \in Paths /\ ~Permitted(place) THEN "failed" ELSE "call"
           j == [NoJob EXCEPT !.pc = stage, !.tool = tool, !.at = place, !.q = q, !.first = from,
                            !.from = from, !.end = end]
<1>1. stage \in Pcs /\ q \in SUBSET (Paths \cup 1 .. 3) /\ from \in Nat \cup {-1}
  BY DEF Pcs
<1> HIDE DEF stage
<1>2. j \in Jobs
  <2>1. NoJob \in Jobs
    BY SomeJobs
  <2>2. QED BY <1>1, <2>1 DEF Jobs
<1>3. Set(w, j)
  BY DEF Begin, stage
<1> HIDE DEF j
<1>4. job' \in [Workers -> Jobs]
  BY <1>2, <1>3, SetType
<1>5. broken' \subseteq {"collision", "cleanup"}
  BY DEF Begin, Arrives, TypeOK
<1>6. calls' \in 0 .. MaxCalls
  BY SourceToolsAssumption DEF Begin, TypeOK
<1>7. QED BY <1>4, <1>5, <1>6 DEF Begin, TypeOK

\* The steps in which a caller, or the process, acts.
LEMMA CallerTypes ==
  ASSUME TypeOK, NEW w \in Workers,
         \/ ListFiles(w) \/ SearchFile(w) \/ ReadFile(w) \/ Search(w)
         \/ Continue(w) \/ GiveUp(w) \/ Crash(w) \/ Start(w)
  PROVE  TypeOK'
<1>1. CASE ListFiles(w)
  <2>1. PICK dir \in Directories \cup {Root}, recursive \in BOOLEAN :
          Begin(w, "list", dir, IF recursive THEN Under(dir)
                                ELSE {p \in Paths : Parent[p] = dir}, 0, 0)
    BY <1>1 DEF ListFiles
  <2> DEFINE q == IF recursive THEN Under(dir) ELSE {p \in Paths : Parent[p] = dir}
  <2>2. q \in SUBSET Paths /\ dir \in Paths \cup {Root}
    BY PathFacts
  <2>3. Begin(w, "list", dir, q, 0, 0)
    BY <2>1
  <2> HIDE DEF q
  <2>4. QED BY <2>2, <2>3, BeginType
<1>2. CASE SearchFile(w)
  <2>1. PICK q \in Queries : Begin(w, "list", Root, q, 0, 0)
    BY <1>2 DEF SearchFile
  <2>2. q \in SUBSET Paths
    BY <2>1, SourceToolsAssumption
  <2>3. QED BY <2>1, <2>2, BeginType
<1>3. CASE ReadFile(w)
  <2>1. PICK p \in Paths, window \in Windows : Begin(w, "read", p, {}, window[1], window[2])
    BY <1>3 DEF ReadFile
  <2>2. window[1] \in Nat /\ window[2] \in Nat
    BY <2>1, SourceToolsAssumption
  <2>3. QED BY <2>1, <2>2, BeginType
<1>4. CASE Search(w)
  <2>1. PICK dir \in Directories \cup {Root} : Begin(w, "search", dir, {}, 0, 0)
    BY <1>4 DEF Search
  <2>2. dir \in Paths \cup {Root}
    BY PathFacts
  <2>3. QED BY <2>1, <2>2, BeginType
<1>5. CASE Continue(w)
  <2>1. [job[w] EXCEPT !.pc = "call", !.more = FALSE, !.paged = TRUE] \in Jobs
    <3>1. job[w] \in Jobs
      BY DEF TypeOK
    <3>2. QED BY <3>1 DEF Jobs, Pcs
  <2>2. job' \in [Workers -> Jobs]
    BY <1>5, <2>1, SomeJobs, SetType DEF Continue
  <2>3. broken' \subseteq {"collision", "cleanup"}
    BY <1>5 DEF Continue, Arrives, TypeOK
  <2>4. QED BY <1>5, <2>2, <2>3 DEF Continue, TypeOK
<1>6. CASE GiveUp(w)
  <2>1. job' \in [Workers -> Jobs]
    BY <1>6, SomeJobs, SetType DEF GiveUp
  <2>2. QED BY <1>6, <2>1 DEF GiveUp, TypeOK
<1>7. CASE Crash(w)
  <2>1. job' \in [Workers -> Jobs]
    BY <1>7, SomeJobs, SetType DEF Crash
  <2>2. QED BY <1>7, <2>1 DEF Crash, TypeOK
<1>8. CASE Start(w)
  <2>1. job' \in [Workers -> Jobs]
    BY <1>8, SomeJobs, SetType DEF Start
  <2>2. starts' \in 0 .. MaxStarts
    BY <1>8, SourceToolsAssumption DEF Start, TypeOK
  <2>3. QED BY <1>8, <2>1, <2>2 DEF Start, TypeOK
<1>9. QED BY <1>1, <1>2, <1>3, <1>4, <1>5, <1>6, <1>7, <1>8

\* The steps that neither answer nor touch a file.
LEMMA StageTypes ==
  ASSUME TypeOK, NEW w \in Workers, Shape(w),
         \/ SearchText(w) \/ PrefixLock(w) \/ FetchFails(w) \/ MarkRead(w) \/ EnsureFile(w)
  PROVE  TypeOK'
<1>1. job[w] \in Jobs
  BY DEF TypeOK
<1>2. job' \in [Workers -> Jobs]
  <2>1. CASE SearchText(w)
    <3>1. [job[w] EXCEPT !.pc = "rg"] \in Jobs
      BY <1>1 DEF Jobs, Pcs
    <3>2. [job[w] EXCEPT !.pc = "lock", !.lock = locks] \in Jobs
      BY <1>1 DEF Jobs, Pcs, TypeOK
    <3>3. QED BY <2>1, <3>1, <3>2, SetType, ErrorType DEF SearchText
  <2>2. CASE PrefixLock(w)
    <3> DEFINE rows == text_files_under_prefix(job[w].at)
               stage == IF rows = {} THEN "cover" ELSE "fetch"
    <3>1. [job[w] EXCEPT !.pc = "rg", !.lock = 0] \in Jobs
      BY <1>1 DEF Jobs, Pcs
    <3>2. rows \in SUBSET Leaves /\ stage \in Pcs
      BY TextFilesUnder DEF Pcs
    <3> HIDE DEF rows, stage
    <3>3. [job[w] EXCEPT !.pc = stage, !.todo = rows] \in Jobs
      BY <1>1, <3>2 DEF Jobs
    <3>4. \/ Error(w) \/ Set(w, [job[w] EXCEPT !.pc = "rg", !.lock = 0])
          \/ Set(w, [job[w] EXCEPT !.pc = stage, !.todo = rows])
      BY <2>2 DEF PrefixLock, rows, stage
    <3>5. QED BY <3>1, <3>3, <3>4, SetType, ErrorType
  <2>3. CASE FetchFails(w)
    BY <2>3, ErrorType DEF FetchFails
  <2>4. CASE MarkRead(w)
    <3>1. disk[Coverage].target \in Contents
      BY PathFacts DEF TypeOK
    <3>2. disk[Coverage].target.val \in SUBSET (Paths \cup {Root})
      BY <3>1 DEF Contents, Absent, Torn, Full
    <3>3. CoverageWith(job[w].at) \in SUBSET (Paths \cup {Root})
      BY <1>1, <3>2 DEF CoverageWith, Jobs
    <3>4. [job[w] EXCEPT !.pc = "coveropen", !.data = CoverageWith(job[w].at)] \in Jobs
      BY <1>1, <3>3 DEF Jobs, Pcs
    <3>5. QED BY <2>4, <3>4, SetType, ErrorType DEF MarkRead
  <2>5. CASE EnsureFile(w)
    <3>1. [job[w] EXCEPT !.pc = "lines"] \in Jobs
      BY <1>1 DEF Jobs, Pcs
    <3>2. ASSUME job[w].at \in Leaves
          PROVE  [job[w] EXCEPT !.pc = "fetch", !.todo = {job[w].at}] \in Jobs
      BY <1>1, <3>2 DEF Jobs, Pcs
    <3>3. ASSUME Readable(job[w].at)
          PROVE  job[w].at \in Leaves
      BY <2>5, <3>3, ReadableText DEF EnsureFile, Shape, TextFile
    <3>4. QED BY <2>5, <3>1, <3>2, <3>3, SetType, ErrorType DEF EnsureFile
  <2>6. QED BY <2>1, <2>2, <2>3, <2>4, <2>5
<1>3. UNCHANGED <<tree, disk, locks, starts, calls, broken>>
  BY DEF SearchText, PrefixLock, FetchFails, MarkRead, EnsureFile
<1>4. QED BY <1>2, <1>3 DEF TypeOK

\* What list_files and search_file answer: a page of the rows that were asked for.
LEMMA ListedAnswer ==
  ASSUME TypeOK, NEW w \in Workers, Shape(w), Listed(w)
  PROVE  LET page == _page_rows(_visible_file_rows(list_files(job[w].q, job[w].from)), job[w].from)
         IN  /\ Answer(w, {Item(p, 0, 0, FALSE) : p \in page[1]}, page[2], FALSE)
             /\ job[w].from \in Nat /\ page[1] \subseteq Paths
             /\ page[2] \in Nat \cup {-1}
<1> DEFINE shown == _visible_file_rows(list_files(job[w].q, job[w].from))
           page == _page_rows(shown, job[w].from)
<1>1. job[w].q \subseteq Paths /\ job[w].from \in Nat
  BY DEF Listed, Shape, TypeOK, Jobs, Calling, Pcs, CacheFree
<1>2. shown \subseteq Paths
  BY <1>1 DEF _visible_file_rows, list_files, First
<1> HIDE DEF shown
<1>3. page[1] \subseteq Paths /\ page[2] \in Nat \cup {-1}
  <2>1. First(shown, MaxResults) \subseteq Paths
    BY <1>2 DEF First
  <2>2. job[w].from + MaxResults \in Nat
    BY <1>1, SourceToolsAssumption
  <2>3. page = <<First(shown, MaxResults), job[w].from + MaxResults>> \/ page = <<shown, -1>>
    BY DEF _page_rows
  <2> HIDE DEF page
  <2>4. QED BY <1>2, <2>1, <2>2, <2>3
<1>4. Answer(w, {Item(p, 0, 0, FALSE) : p \in page[1]}, page[2], FALSE)
  BY DEF Listed, shown
<1>5. QED BY <1>1, <1>3, <1>4 DEF shown

\* The last line a call of read_file is asked for.
WindowEnd(w) == IF job[w].end = 0 THEN job[w].from + DefaultLines - 1 ELSE job[w].end

\* What read_file answers: the lines from the first on, and when it does not say
\* that they were cut off and the cached file is complete, all that were asked for.
LEMMA ReadAnswer ==
  ASSUME TypeOK, NEW w \in Workers, Shape(w), ReadLines(w), ~Error(w)
  PROVE  /\ job[w].at \in Paths /\ job[w].from \in Nat \ {0}
         /\ \E actual \in Int, next \in Nat \cup {-1} :
              /\ Answer(w, {LineItem(job[w].at, n) : n \in job[w].from .. actual}, next, FALSE)
              /\ job[w].from - 1 <= actual
              /\ next # -1 => next = actual + 1
              /\ \A n \in job[w].from .. actual : n <= Len(Lines[job[w].at])
              /\ next = -1 /\ IsFull(job[w].at) =>
                   \A n \in job[w].from .. WindowEnd(w) : n <= Len(Lines[job[w].at]) => n <= actual
<1> DEFINE p == job[w].at
           start == job[w].from
           end == WindowEnd(w)
           bounded == Min({end, start + MaxLines - 1})
           count == IF disk[p].target.st = "full" THEN Len(Lines[p]) ELSE 0
           last == Min({bounded, count})
           actual == _read_line_range(p, start, last)
           truncated == \/ actual < last
                        \/ start <= last /\ Lines[p][start] > MaxBytes
                        \/ end > bounded
           next == next_start_line(actual, truncated)
<1>1. p \in Paths /\ start \in Nat \ {0} /\ Len(Lines[p]) \in Nat
  BY SourceToolsAssumption DEF ReadLines, Shape, TypeOK, Jobs, Calling, Pcs, CacheFree
<1>2. end \in Int
  BY <1>1, SourceToolsAssumption DEF WindowEnd, TypeOK, Jobs
<1>3. Answer(w, {LineItem(p, n) : n \in start .. actual}, next, FALSE)
  BY DEF ReadLines, WindowEnd, LineItem
<1> HIDE DEF p, start, end
<1>4. start + MaxLines - 1 \in Int /\ count \in Nat
  BY <1>1, SourceToolsAssumption
<1> HIDE DEF count
<1>5. bounded \in Int /\ bounded <= end /\ (bounded = end \/ end > bounded)
  <2> DEFINE m == start + MaxLines - 1
  <2> HIDE DEF m
  <2>1. m \in Int
    BY <1>4 DEF m
  <2>2. Min({end, m}) \in {end, m} /\ Min({end, m}) <= end
    BY <1>2, <2>1, MinOfTwo
  <2>3. Min({end, m}) \in Int /\ (Min({end, m}) = end \/ end > Min({end, m}))
    BY <1>2, <2>1, <2>2
  <2>4. QED BY <2>2, <2>3 DEF m
<1> HIDE DEF bounded
<1>6. last \in {bounded, count} /\ last <= bounded /\ last <= count
  <2>1. bounded \in Int /\ count \in Int
    BY <1>4, <1>5
  <2>2. QED BY <2>1, MinOfTwo
<1> HIDE DEF last
<1>7. last \in Int
  BY <1>4, <1>5, <1>6
<1>8. /\ actual \in Int /\ start - 1 <= actual
      /\ \A n \in start .. actual : n <= last
  BY <1>1, <1>7, RangeFacts
<1> HIDE DEF actual
<1>9. next = IF truncated THEN actual + 1 ELSE -1
  BY DEF next_start_line
<1>10. next \in Nat \cup {-1} /\ (next # -1 => next = actual + 1)
  <2> HIDE DEF truncated
  <2>1. actual + 1 \in Nat
    BY <1>1, <1>8
  <2>2. QED BY <1>9, <2>1
<1>11. ASSUME NEW n \in start .. actual
       PROVE  n <= Len(Lines[p])
  <2>1. count <= Len(Lines[p])
    BY <1>1 DEF count
  <2>2. n \in Int /\ n <= last
    BY <1>1, <1>8
  <2>3. QED BY <1>1, <1>4, <1>6, <1>7, <2>1, <2>2
<1>12. ASSUME next = -1, IsFull(p), NEW n \in start .. end, n <= Len(Lines[p])
       PROVE  n <= actual
  <2>1. ~truncated
    <3> HIDE DEF truncated
    <3>1. actual + 1 # -1
      BY <1>1, <1>8
    <3>2. QED BY <1>9, <1>12, <3>1
  <2>2. ~ (actual < last) /\ ~ (end > bounded)
    BY <2>1
  <2>3. count = Len(Lines[p])
    BY <1>12 DEF IsFull, count
  <2>4. n <= last
    BY <1>2, <1>4, <1>5, <1>6, <1>12, <2>2, <2>3
  <2>5. QED BY <1>7, <1>8, <1>12, <2>2, <2>4
<1> HIDE DEF next
<1>13. QED BY <1>1, <1>3, <1>8, <1>10, <1>11, <1>12 DEF p, start, end

\* The matches of ripgrep: one for each file it can read, under either name.
There(w) == {p \in Under(job[w].at) : disk[p].tmp.st # "none" \/ disk[p].target.st # "none"}
Matches(w) ==
  {Item(p, 0, 0, FALSE) : p \in {f \in There(w) : disk[f].target.st = "full"}}
  \cup {Item(p, 0, 0, TRUE) : p \in {f \in There(w) : disk[f].tmp.st = "full"}}

\* They are finitely many items.
LEMMA MatchTypes ==
  ASSUME NEW w \in Workers
  PROVE  /\ Matches(w) \in SUBSET [path : Paths, line : Nat, size : Nat, tmp : BOOLEAN]
         /\ IsFiniteSet(Matches(w)) /\ Cardinality(Matches(w)) \in Nat
<1>1. There(w) \subseteq Paths
  BY PathFacts DEF There
<1>2. \A p \in Paths, b \in BOOLEAN :
        Item(p, 0, 0, b) \in [path : Paths, line : Nat, size : Nat, tmp : BOOLEAN]
  BY DEF Item
<1>3. Matches(w) \in SUBSET [path : Paths, line : Nat, size : Nat, tmp : BOOLEAN]
  BY <1>1, <1>2 DEF Matches
<1>4. ASSUME NEW b \in BOOLEAN, NEW T \in SUBSET Paths
      PROVE  IsFiniteSet({Item(p, 0, 0, b) : p \in T})
  <2> DEFINE f == [p \in T |-> Item(p, 0, 0, b)]
             I == {Item(p, 0, 0, b) : p \in T}
  <2>1. f \in Surjection(T, I)
    BY DEF Surjection
  <2>2. IsFiniteSet(T)
    BY PathFacts, FS_Subset
  <2> HIDE DEF f, I
  <2>3. IsFiniteSet(I)
    BY <2>1, <2>2, FS_Surjection
  <2>4. QED BY <2>3 DEF I
<1>5. IsFiniteSet(Matches(w))
  <2> DEFINE A == {f \in There(w) : disk[f].target.st = "full"}
             B == {f \in There(w) : disk[f].tmp.st = "full"}
  <2>1. A \in SUBSET Paths /\ B \in SUBSET Paths
    BY <1>1
  <2>2. Matches(w) = {Item(p, 0, 0, FALSE) : p \in A} \cup {Item(p, 0, 0, TRUE) : p \in B}
    BY DEF Matches
  <2> HIDE DEF A, B
  <2>3. IsFiniteSet({Item(p, 0, 0, FALSE) : p \in A}) /\ IsFiniteSet({Item(p, 0, 0, TRUE) : p \in B})
    BY <1>4, <2>1
  <2>4. QED BY <2>2, <2>3, FS_Union
<1>6. QED BY <1>3, <1>5, FS_CardinalityType

\* What search_text answers: some matches, and all of them when it is the first
\* page, there is no other and the output limit was not hit.
LEMMA RipgrepAnswer ==
  ASSUME TypeOK, NEW w \in Workers, Shape(w), Ripgrep(w), ~Error(w)
  PROVE  \E page \in SUBSET Matches(w), next \in Nat \cup {-1}, cut \in BOOLEAN :
           /\ Answer(w, page, next, cut)
           /\ job[w].from = 0 /\ next = -1 /\ ~cut => page = Matches(w)
<1> DEFINE c == Cardinality(Matches(w))
           offset == job[w].from
           K(seen) == Max({0, Min({MaxResults, seen - offset})})
           N(seen) == IF seen > offset + K(seen) /\ K(seen) > 0 THEN offset + K(seen) ELSE -1
<1>1. offset \in Nat
  BY DEF Ripgrep, Shape, TypeOK, Jobs, Calling, Pcs, CacheFree
<1>2. c \in Nat /\ IsFiniteSet(Matches(w))
  BY MatchTypes
<1>3. PICK seen \in 0 .. c : \E page \in kSubset(K(seen), Matches(w)) :
             Answer(w, page, N(seen), seen < c)
  BY DEF Ripgrep, There, Matches
<1> DEFINE k == K(seen)
           m == Min({MaxResults, seen - offset})
<1>4. PICK page \in kSubset(k, Matches(w)) : Answer(w, page, N(seen), seen < c)
  BY <1>3
<1>5. page \in SUBSET Matches(w) /\ Cardinality(page) = k
  BY <1>4 DEF kSubset
<1>6. m \in Int /\ (m = MaxResults \/ m = seen - offset) /\ m <= MaxResults /\ m <= seen - offset
  <2> DEFINE d == seen - offset
  <2> HIDE DEF d
  <2>1. MaxResults \in Int /\ d \in Int
    BY <1>1, <1>2, <1>3, SourceToolsAssumption DEF d
  <2>2. Min({MaxResults, d}) \in {MaxResults, d} /\ Min({MaxResults, d}) <= MaxResults /\ Min({MaxResults, d}) <= d
    BY <2>1, MinOfTwo
  <2>3. QED BY <2>1, <2>2 DEF d
<1> HIDE DEF m
<1>7. k \in {0, m} /\ 0 <= k /\ m <= k
  <2> DEFINE T == {0, m}
  <2>1. T \in SUBSET Int /\ T # {}
    BY <1>6
  <2>2. \E b \in Int : \A x \in T : x <= b
    <3>1. CASE m <= 0
      <4>1. 0 \in Int /\ \A x \in T : x <= 0
        BY <1>6, <3>1
      <4>2. QED BY <4>1
    <3>2. CASE 0 <= m
      <4>1. m \in Int /\ \A x \in T : x <= m
        BY <1>6, <3>2
      <4>2. QED BY <4>1
    <3>3. QED BY <1>6, <3>1, <3>2
  <2>3. k = Max(T)
    BY DEF m
  <2> HIDE DEF k
  <2>4. Max(T) \in T /\ \A y \in T : y <= Max(T)
    <3>1. PICK b \in Int : \A x \in T : x <= b
      BY <2>2
    <3> HIDE DEF T
    <3>2. QED BY <2>1, <3>1, MaxOfSet
  <2>5. QED BY <2>3, <2>4
<1>8. N(seen) = IF seen > offset + k /\ k > 0 THEN offset + k ELSE -1
  OBVIOUS
<1> HIDE DEF k, N
<1>9. k \in Nat
  BY <1>6, <1>7
<1>10. N(seen) \in Nat \cup {-1}
  BY <1>1, <1>8, <1>9
<1>11. (seen < c) \in BOOLEAN
  OBVIOUS
<1>12. ASSUME offset = 0, N(seen) = -1, ~ (seen < c)
       PROVE  page = Matches(w)
  <2>1. seen = c /\ offset + k # -1
    BY <1>1, <1>2, <1>3, <1>9, <1>12
  <2>2. ~ (seen > k) \/ ~ (k > 0)
    BY <1>8, <1>9, <1>12, <2>1
  <2>3. k = c
    <3>1. MaxResults > 0 /\ MaxResults \in Nat
      BY SourceToolsAssumption
    <3>2. QED BY <1>2, <1>6, <1>7, <1>9, <1>12, <2>1, <2>2, <3>1
  <2>4. Cardinality(page) = Cardinality(Matches(w))
    BY <1>5, <2>3
  <2>5. QED BY <1>2, <1>5, <2>4, FS_Subset
<1> HIDE DEF c, offset
<1> DEFINE cut == seen < c
<1>13. cut \in BOOLEAN /\ (cut <=> seen < c) /\ Answer(w, page, N(seen), cut)
  BY <1>4, <1>11
<1>14. offset = 0 /\ N(seen) = -1 /\ ~cut => page = Matches(w)
  BY <1>12
<1> HIDE DEF cut
<1>15. QED BY <1>5, <1>10, <1>13, <1>14 DEF offset

\* Answers keep the types.
LEMMA AnswerTypes ==
  ASSUME TypeOK, NEW w \in Workers, Shape(w), Listed(w) \/ ReadLines(w) \/ Ripgrep(w)
  PROVE  TypeOK'
<1>1. UNCHANGED <<tree, disk, locks, starts, calls, broken>>
  BY DEF Listed, ReadLines, Ripgrep
<1>2. job' \in [Workers -> Jobs]
  <2>1. CASE Error(w)
    BY <2>1, ErrorType
  <2>2. CASE Listed(w)
    <3> DEFINE page == _page_rows(_visible_file_rows(list_files(job[w].q, job[w].from)), job[w].from)
               items == {Item(p, 0, 0, FALSE) : p \in page[1]}
    <3>1. Answer(w, items, page[2], FALSE) /\ page[1] \subseteq Paths /\ page[2] \in Nat \cup {-1}
      BY <2>2, ListedAnswer
    <3> HIDE DEF page
    <3>2. items \in SUBSET [path : Paths, line : Nat, size : Nat, tmp : BOOLEAN]
      <4>1. \A p \in Paths : Item(p, 0, 0, FALSE) \in [path : Paths, line : Nat, size : Nat, tmp : BOOLEAN]
        BY DEF Item
      <4>2. QED BY <3>1, <4>1
    <3> HIDE DEF items
    <3>3. QED BY <3>1, <3>2, AnswerType
  <2>3. CASE ReadLines(w) /\ ~Error(w)
    <3>1. PICK actual \in Int, next \in Nat \cup {-1} :
             /\ Answer(w, {LineItem(job[w].at, n) : n \in job[w].from .. actual}, next, FALSE)
             /\ \A n \in job[w].from .. actual : n <= Len(Lines[job[w].at])
      BY <2>3, ReadAnswer
    <3>2. job[w].at \in Paths /\ job[w].from \in Nat \ {0}
      BY <2>3, ReadAnswer
    <3> DEFINE items == {LineItem(job[w].at, n) : n \in job[w].from .. actual}
    <3>3. ASSUME NEW n \in job[w].from .. actual
          PROVE  LineItem(job[w].at, n) \in [path : Paths, line : Nat, size : Nat, tmp : BOOLEAN]
      <4> DEFINE l == Lines[job[w].at]
                 a == l[n]
      <4>1. l \in Seq(Nat) /\ n <= Len(l)
        BY <3>1, <3>2, SourceToolsAssumption
      <4>2. n \in Nat /\ n \in 1 .. Len(l)
        BY <3>2, <4>1
      <4>3. a \in Nat /\ MaxBytes \in Nat
        <5>1. MaxBytes \in Nat
          BY SourceToolsAssumption
        <5> HIDE DEF l
        <5>2. QED BY <4>1, <4>2, <5>1
      <4> HIDE DEF a
      <4>4. Min({a, MaxBytes}) \in Nat
        <5>1. a \in Int /\ MaxBytes \in Int
          BY <4>3
        <5>2. QED BY <4>3, <5>1, MinOfTwo
      <4>5. QED BY <3>2, <4>2, <4>4 DEF LineItem, Item, a
    <3>4. items \in SUBSET [path : Paths, line : Nat, size : Nat, tmp : BOOLEAN]
      BY <3>3
    <3>5. Answer(w, items, next, FALSE)
      BY <3>1
    <3> HIDE DEF items
    <3>6. QED BY <3>4, <3>5, AnswerType
  <2>4. CASE Ripgrep(w) /\ ~Error(w)
    <3>1. PICK page \in SUBSET Matches(w), next \in Nat \cup {-1}, cut \in BOOLEAN :
            Answer(w, page, next, cut)
      BY <2>4, RipgrepAnswer
    <3>2. page \in SUBSET [path : Paths, line : Nat, size : Nat, tmp : BOOLEAN]
      BY <3>1, MatchTypes
    <3>3. QED BY <3>1, <3>2, AnswerType
  <2>5. QED BY <2>1, <2>2, <2>3, <2>4
<1>3. QED BY <1>1, <1>2 DEF TypeOK

\* The steps that change a file of the cache.
LEMMA FileTypes ==
  ASSUME TypeOK, NEW w \in Workers, Shape(w),
         \/ Fetch(w) \/ WriteFile(w) \/ ReplaceFile(w)
         \/ MarkOpen(w) \/ MarkWrite(w) \/ MarkReplace(w)
  PROVE  TypeOK'
<1>1. job[w] \in Jobs /\ disk \in [Files -> [tmp : Contents, target : Contents]]
  BY DEF TypeOK
<1>2. job[w].pc \in Fetching => Min(job[w].todo) \in job[w].todo /\ Min(job[w].todo) \in Files
  <2>1. job[w].todo \in SUBSET Nat /\ job[w].todo \subseteq Files
    BY <1>1, PathFacts DEF Jobs
  <2>2. QED BY <2>1, MinOfSet DEF Shape
<1>3. Coverage \in Files
  BY PathFacts
<1>4. Torn \in Contents /\ Absent \in Contents /\ Full({}) \in Contents /\ Full(job[w].data) \in Contents
  BY <1>1 DEF Contents, Jobs
<1>5. ASSUME NEW f \in Files, NEW j \in Jobs, OpenTmp(w, f, j), UNCHANGED <<tree, locks, starts, calls>>
      PROVE  TypeOK'
  <2>1. disk' \in [Files -> [tmp : Contents, target : Contents]]
    BY <1>1, <1>4, <1>5 DEF OpenTmp
  <2>2. broken' \subseteq {"collision", "cleanup"}
    BY <1>5 DEF OpenTmp, TypeOK
  <2>3. [j EXCEPT !.handle = "tmp"] \in Jobs
    BY <1>5 DEF Jobs
  <2>4. job' \in [Workers -> Jobs]
    BY <1>5, <2>3, SetType DEF OpenTmp
  <2>5. QED BY <1>5, <2>1, <2>2, <2>4 DEF TypeOK
<1>6. ASSUME NEW f \in Files, NEW j \in Jobs, NEW content \in Contents, WriteTmp(w, f, content, j),
             UNCHANGED <<tree, locks, starts, calls>>
      PROVE  TypeOK'
  <2>1. PICK result \in Contents :
           disk' = CASE job[w].handle = "tmp"    -> [disk EXCEPT ![f].tmp = result]
                     [] job[w].handle = "target" -> [disk EXCEPT ![f].target = result]
                     [] OTHER                    -> disk
    BY <1>4, <1>6 DEF WriteTmp
  <2>2. disk' \in [Files -> [tmp : Contents, target : Contents]]
    BY <1>1, <2>1
  <2>3. job' \in [Workers -> Jobs]
    BY <1>6, SetType DEF WriteTmp
  <2>4. broken' = broken
    BY <1>6 DEF WriteTmp
  <2>5. QED BY <1>6, <2>2, <2>3, <2>4 DEF TypeOK
<1>7. ASSUME NEW f \in Files, NEW j \in Jobs, Replace(w, f, j), UNCHANGED <<tree, locks, starts, calls>>
      PROVE  TypeOK'
  <2>1. disk' \in [Files -> [tmp : Contents, target : Contents]]
    BY <1>1, <1>4, <1>7 DEF Replace
  <2>2. ASSUME NEW v \in Workers
        PROVE  job'[v] \in Jobs
    <3>1. job[v] \in Jobs /\ [j EXCEPT !.handle = "none"] \in Jobs
      BY <1>7 DEF TypeOK, Jobs
    <3>2. [job[v] EXCEPT !.handle = "target"] \in Jobs /\ [job[v] EXCEPT !.handle = "gone"] \in Jobs
      BY <3>1 DEF Jobs
    <3>3. [job[v] EXCEPT !.handle = IF @ = "tmp" THEN "target" ELSE "gone"] \in Jobs
      BY <3>1, <3>2
    <3>4. job'[v] = IF v = w THEN [j EXCEPT !.handle = "none"]
                     ELSE IF v \in Writers(f)
                     THEN [job[v] EXCEPT !.handle = IF @ = "tmp" THEN "target" ELSE "gone"]
                     ELSE job[v]
      BY <1>7 DEF Replace
    <3>5. QED BY <3>1, <3>3, <3>4
  <2>3. job' \in [Workers -> Jobs]
    BY <1>7, <2>2 DEF Replace
  <2>4. broken' = broken
    BY <1>7 DEF Replace
  <2>5. QED BY <1>7, <2>1, <2>3, <2>4 DEF TypeOK
<1>8. CASE Fetch(w)
  <2>1. [job[w] EXCEPT !.pc = "write"] \in Jobs
    BY <1>1 DEF Jobs, Pcs
  <2>2. QED BY <1>2, <1>5, <1>8, <2>1 DEF Fetch, Fetching
<1>9. CASE WriteFile(w)
  <2>1. [job[w] EXCEPT !.pc = "replace"] \in Jobs
    BY <1>1 DEF Jobs, Pcs
  <2>2. QED BY <1>2, <1>4, <1>6, <1>9, <2>1 DEF WriteFile, Fetching
<1>10. CASE ReplaceFile(w)
  <2> DEFINE f == Min(job[w].todo)
             rest == job[w].todo \ {f}
             stage == IF rest # {} THEN "fetch" ELSE IF job[w].tool = "read" THEN "lines" ELSE "cover"
  <2>1. rest \in SUBSET Leaves /\ stage \in Pcs
    BY <1>1 DEF Jobs, Pcs
  <2>2. f \in Files
    BY <1>2, <1>10 DEF ReplaceFile, Fetching
  <2>3. \/ Replace(w, f, [job[w] EXCEPT !.todo = rest, !.pc = stage])
        \/ Error(w) /\ UNCHANGED <<disk, broken>>
    BY <1>10 DEF ReplaceFile
  <2>4. UNCHANGED <<tree, locks, starts, calls>>
    BY <1>10 DEF ReplaceFile
  <2> HIDE DEF f, rest, stage
  <2>5. [job[w] EXCEPT !.todo = rest, !.pc = stage] \in Jobs
    BY <1>1, <2>1 DEF Jobs
  <2>6. CASE Error(w) /\ UNCHANGED <<disk, broken>>
    BY <2>4, <2>6, ErrorType DEF TypeOK
  <2>7. QED BY <1>7, <2>2, <2>3, <2>4, <2>5, <2>6
<1>11. CASE MarkOpen(w)
  <2>1. [job[w] EXCEPT !.pc = "coverwrite"] \in Jobs
    BY <1>1 DEF Jobs, Pcs
  <2>2. QED BY <1>3, <1>5, <1>11, <2>1 DEF MarkOpen
<1>12. CASE MarkWrite(w)
  <2>1. [job[w] EXCEPT !.pc = "coverreplace"] \in Jobs
    BY <1>1 DEF Jobs, Pcs
  <2>2. QED BY <1>3, <1>4, <1>6, <1>12, <2>1 DEF MarkWrite
<1>13. CASE MarkReplace(w)
  <2>1. [job[w] EXCEPT !.pc = "rg", !.data = {}, !.lock = 0] \in Jobs
    BY <1>1 DEF Jobs, Pcs
  <2>2. UNCHANGED <<tree, locks, starts, calls>>
    BY <1>13 DEF MarkReplace
  <2>3. CASE Error(w) /\ UNCHANGED <<disk, broken>>
    BY <2>2, <2>3, ErrorType DEF TypeOK
  <2>4. QED BY <1>3, <1>7, <1>13, <2>1, <2>2, <2>3 DEF MarkReplace
<1>14. QED BY <1>8, <1>9, <1>10, <1>11, <1>12, <1>13

\* A step of cleanup.
LEMMA CleanupTypes ==
  ASSUME TypeOK, NEW w \in Workers, Shape(w), Cleanup(w)
  PROVE  TypeOK'
<1>1. job[w] \in Jobs /\ disk \in [Files -> [tmp : Contents, target : Contents]]
  BY DEF TypeOK
<1>2. PICK part \in job[w].q :
        LET gone == CASE part = 1 -> Paths [] part = 2 -> {Coverage} [] OTHER -> {}
            rest == job[w].q \ {part}
            writing == UNION {Writers(f) : f \in gone}
        IN  /\ disk' = [f \in Files |-> IF f \in gone THEN [tmp |-> Absent, target |-> Absent]
                                        ELSE disk[f]]
            /\ locks' = IF part = 3 THEN locks + 1 ELSE locks
            /\ job' = [v \in Workers |->
                         IF v = w
                         THEN IF rest = {} THEN NoJob ELSE [job[w] EXCEPT !.q = rest]
                         ELSE IF v \in writing THEN [job[v] EXCEPT !.handle = "gone"]
                         ELSE job[v]]
  BY DEF Cleanup
<1> DEFINE gone == CASE part = 1 -> Paths [] part = 2 -> {Coverage} [] OTHER -> {}
           rest == job[w].q \ {part}
           writing == UNION {Writers(f) : f \in gone}
<1> HIDE DEF gone, rest, writing
<1>3. disk' \in [Files -> [tmp : Contents, target : Contents]]
  <2>1. Absent \in Contents
    BY DEF Contents
  <2>2. disk' = [f \in Files |-> IF f \in gone THEN [tmp |-> Absent, target |-> Absent] ELSE disk[f]]
    BY <1>2 DEF gone
  <2>3. QED BY <1>1, <2>1, <2>2
<1>4. ASSUME NEW v \in Workers
      PROVE  job'[v] \in Jobs
  <2>1. job[v] \in Jobs
    BY DEF TypeOK
  <2>2. rest \in SUBSET (Paths \cup 1 .. 3)
    BY <1>1 DEF rest, Jobs
  <2>3. [job[w] EXCEPT !.q = rest] \in Jobs
    BY <1>1, <2>2 DEF Jobs
  <2>4. [job[v] EXCEPT !.handle = "gone"] \in Jobs
    BY <2>1 DEF Jobs
  <2>5. job'[v] = IF v = w
                  THEN IF rest = {} THEN NoJob ELSE [job[w] EXCEPT !.q = rest]
                  ELSE IF v \in writing THEN [job[v] EXCEPT !.handle = "gone"]
                  ELSE job[v]
    BY <1>2 DEF rest, writing, gone
  <2>6. NoJob \in Jobs
    BY SomeJobs
  <2>7. QED BY <2>1, <2>3, <2>4, <2>5, <2>6
<1>5. job' \in [Workers -> Jobs]
  BY <1>2, <1>4
<1>6. locks' \in Nat
  BY <1>2 DEF TypeOK
<1>7. broken' \subseteq {"collision", "cleanup"} /\ UNCHANGED <<tree, starts, calls>>
  BY DEF Cleanup, TypeOK
<1>8. QED BY <1>3, <1>5, <1>6, <1>7 DEF TypeOK

\* Every step keeps the types.
LEMMA StepTypes ==
  ASSUME TypeOK, NEW w \in Workers, Shape(w), Step(w)
  PROVE  TypeOK'
BY CallerTypes, StageTypes, AnswerTypes, FileTypes, CleanupTypes DEF Step

-----------------------------------------------------------------------------
(* The shape of a call                                                     *)

\* Set changes the call of one worker.
LEMMA JobOf ==
  ASSUME TypeOK, NEW w \in Workers, NEW j, Set(w, j)
  PROVE  job'[w] = j /\ \A v \in Workers \ {w} : job'[v] = job[v]
BY DEF TypeOK, Set

\* A cleanup ends or has a directory fewer to remove.
LEMMA CleanupJob ==
  ASSUME NEW w \in Workers, Cleanup(w)
  PROVE  \E rest : job'[w] = IF rest = {} THEN NoJob ELSE [job[w] EXCEPT !.q = rest]
<1> DEFINE left(p) == job[w].q \ {p}
           next(p) == IF left(p) = {} THEN NoJob ELSE [job[w] EXCEPT !.q = left(p)]
           gone(p) == CASE p = 1 -> Paths [] p = 2 -> {Coverage} [] OTHER -> {}
           writing(p) == UNION {Writers(f) : f \in gone(p)}
<1>1. PICK part \in job[w].q :
        job' = [v \in Workers |-> IF v = w THEN next(part)
                                 ELSE IF v \in writing(part) THEN [job[v] EXCEPT !.handle = "gone"]
                                      ELSE job[v]]
  BY Zenon DEF Cleanup
<1> HIDE DEF next, writing
<1>2. job'[w] = next(part)
  BY <1>1
<1> USE DEF next
<1> HIDE DEF left
<1>3. job'[w] = IF left(part) = {} THEN NoJob ELSE [job[w] EXCEPT !.q = left(part)]
  BY <1>2
<1>4. QED BY <1>3, Zenon

\* A step of one worker leaves the call of another alone, or renames or removes
\* the file it is writing.
LEMMA Others ==
  ASSUME TypeOK, NEW w \in Workers, Step(w), NEW v \in Workers \ {w}
  PROVE  \/ job'[v] = job[v]
         \/ /\ job[v].handle # "none"
            /\ \E h \in {"target", "gone"} : job'[v] = [job[v] EXCEPT !.handle = h]
<1>1. ASSUME NEW j, Set(w, j)
      PROVE  job'[v] = job[v]
  BY <1>1, JobOf
<1>2. CASE Error(w)
  BY <1>1, <1>2 DEF Error
<1>3. CASE \E items, next, cut : Answer(w, items, next, cut)
  BY <1>1, <1>3 DEF Answer
<1>4. CASE \E tool, place, q, from, end : Begin(w, tool, place, q, from, end)
  BY <1>1, <1>4 DEF Begin
<1>5. CASE \E f, j : OpenTmp(w, f, j)
  BY <1>1, <1>5 DEF OpenTmp
<1>6. CASE \E f, content, j : WriteTmp(w, f, content, j)
  BY <1>1, <1>6 DEF WriteTmp
<1>7. CASE \E f, j : Replace(w, f, j)
  <2>1. PICK f, j : Replace(w, f, j)
    BY <1>7
  <2>2. job'[v] = IF v \in Writers(f)
                  THEN [job[v] EXCEPT !.handle = IF @ = "tmp" THEN "target" ELSE "gone"]
                  ELSE job[v]
    BY <2>1 DEF Replace
  <2>3. v \in Writers(f) => job[v].handle # "none"
    BY DEF Writers
  <2>4. QED BY <2>2, <2>3
<1>8. CASE Cleanup(w)
  <2>1. PICK gone : job'[v] = IF v \in UNION {Writers(f) : f \in gone}
                              THEN [job[v] EXCEPT !.handle = "gone"] ELSE job[v]
    <3>1. PICK part \in job[w].q :
             LET gone == CASE part = 1 -> Paths [] part = 2 -> {Coverage} [] OTHER -> {}
                 rest == job[w].q \ {part}
                 writing == UNION {Writers(f) : f \in gone}
             IN  job' = [u \in Workers |->
                         IF u = w
                         THEN IF rest = {} THEN NoJob ELSE [job[w] EXCEPT !.q = rest]
                         ELSE IF u \in writing THEN [job[u] EXCEPT !.handle = "gone"]
                         ELSE job[u]]
      BY <1>8 DEF Cleanup
    <3> DEFINE gone == CASE part = 1 -> Paths [] part = 2 -> {Coverage} [] OTHER -> {}
    <3>2. job'[v] = IF v \in UNION {Writers(f) : f \in gone}
                    THEN [job[v] EXCEPT !.handle = "gone"] ELSE job[v]
      BY <3>1
    <3> HIDE DEF gone
    <3>3. QED BY <3>2
  <2>2. \A f : v \in Writers(f) => job[v].handle # "none"
    BY DEF Writers
  <2>3. QED BY <2>1, <2>2
<1>9. CASE \E j : Set(w, j)
  BY <1>1, <1>9
<1>10. QED
  <2>1. ListFiles(w) \/ SearchFile(w) \/ ReadFile(w) \/ Search(w) =>
          \E tool, place, q, from, end : Begin(w, tool, place, q, from, end)
    BY DEF ListFiles, SearchFile, ReadFile, Search
  <2>2. Listed(w) \/ ReadLines(w) \/ Ripgrep(w) =>
          Error(w) \/ \E items, next, cut : Answer(w, items, next, cut)
    <3>1. Listed(w) => \E items, next, cut : Answer(w, items, next, cut)
      BY DEF Listed
    <3>2. ReadLines(w) => Error(w) \/ \E items, next, cut : Answer(w, items, next, cut)
      BY DEF ReadLines
    <3>3. Ripgrep(w) => Error(w) \/ \E items, next, cut : Answer(w, items, next, cut)
      BY DEF Ripgrep
    <3>4. QED BY <3>1, <3>2, <3>3
  <2>3. SearchText(w) \/ PrefixLock(w) \/ FetchFails(w) \/ MarkRead(w) \/ EnsureFile(w) =>
          Error(w) \/ \E j : Set(w, j)
    BY DEF SearchText, PrefixLock, FetchFails, MarkRead, EnsureFile
  <2>4. Continue(w) \/ GiveUp(w) \/ Crash(w) \/ Start(w) => \E j : Set(w, j)
    BY DEF Continue, GiveUp, Crash, Start
  <2>5. Fetch(w) \/ MarkOpen(w) => \E f, j : OpenTmp(w, f, j)
    BY DEF Fetch, MarkOpen
  <2>6. WriteFile(w) \/ MarkWrite(w) => \E f, content, j : WriteTmp(w, f, content, j)
    BY DEF WriteFile, MarkWrite
  <2>7. ReplaceFile(w) \/ MarkReplace(w) => Error(w) \/ \E f, j : Replace(w, f, j)
    BY DEF ReplaceFile, MarkReplace
  <2>8. QED BY <1>2, <1>3, <1>4, <1>5, <1>6, <1>7, <1>8, <1>9, <2>1, <2>2, <2>3, <2>4,
               <2>5, <2>6, <2>7 DEF Step

\* The commit never changes, and what has been disturbed stays so.
LEMMA TreeStays ==
  ASSUME NEW w \in Workers, Step(w)
  PROVE  tree' = tree /\ broken \subseteq broken'
<1>1. CASE ListFiles(w) \/ SearchFile(w) \/ ReadFile(w) \/ Search(w)
  BY <1>1 DEF ListFiles, SearchFile, ReadFile, Search, Begin, Arrives
<1>2. CASE Listed(w) \/ ReadLines(w) \/ Ripgrep(w)
  BY <1>2 DEF Listed, ReadLines, Ripgrep
<1>3. CASE SearchText(w) \/ PrefixLock(w) \/ FetchFails(w) \/ MarkRead(w) \/ EnsureFile(w) \/ GiveUp(w)
  BY <1>3 DEF SearchText, PrefixLock, FetchFails, MarkRead, EnsureFile, GiveUp
<1>4. CASE Continue(w) \/ Crash(w) \/ Start(w) \/ Cleanup(w)
  BY <1>4 DEF Continue, Arrives, Crash, Start, Cleanup
<1>5. CASE Fetch(w) \/ MarkOpen(w) \/ WriteFile(w) \/ MarkWrite(w)
  BY <1>5 DEF Fetch, MarkOpen, WriteFile, MarkWrite, OpenTmp, WriteTmp
<1>6. CASE ReplaceFile(w) \/ MarkReplace(w)
  BY <1>6 DEF ReplaceFile, MarkReplace, Replace
<1>7. QED BY <1>1, <1>2, <1>3, <1>4, <1>5, <1>6 DEF Step

\* A step leaves the shape of the other calls.
LEMMA OthersShape ==
  ASSUME TypeOK, NEW w \in Workers, Step(w), NEW v \in Workers \ {w}, Shape(v)
  PROVE  Shape(v)'
<1>1. job[v] \in Jobs
  BY DEF TypeOK
<1>2. CASE job'[v] = job[v]
  BY <1>2, TreeStays DEF Shape, Continued
<1>3. CASE /\ job[v].handle # "none"
           /\ \E h \in {"target", "gone"} : job'[v] = [job[v] EXCEPT !.handle = h]
  <2>1. PICK h \in {"target", "gone"} : job'[v] = [job[v] EXCEPT !.handle = h]
    BY <1>3
  <2>2. /\ job'[v].pc = job[v].pc /\ job'[v].tool = job[v].tool /\ job'[v].at = job[v].at
        /\ job'[v].todo = job[v].todo /\ job'[v].q = job[v].q /\ job'[v].from = job[v].from
        /\ job'[v].more = job[v].more
    BY <1>1, <2>1 DEF Jobs
  <2>3. job[v].pc \in Writing
    BY <1>3 DEF Shape
  <2>4. QED BY <2>2, <2>3, TreeStays DEF Shape, Continued
<1>4. QED BY <1>2, <1>3, Others

\* A worker with no call, or one that failed, has nothing to show.
LEMMA FreeShape ==
  ASSUME NEW w \in Workers,
         \/ job'[w] = NoJob \/ job'[w] = [NoJob EXCEPT !.pc = "down"]
         \/ job'[w] = [NoJob EXCEPT !.pc = "cleanup", !.q = {1, 2, 3}]
         \/ \E t : job'[w] = [NoJob EXCEPT !.pc = "failed", !.tool = t]
  PROVE  Shape(w)'
<1>1. /\ job'[w].handle = "none" /\ job'[w].pc \in {"idle", "down", "cleanup", "failed"}
      /\ job'[w].pc # "failed" => job'[w].tool = "none"
      /\ job'[w].pc # "cleanup" => job'[w].q = {}
      /\ job'[w].pc = "cleanup" => job'[w].q = {1, 2, 3}
  <2>1. CASE job'[w] = NoJob
    BY <2>1 DEF NoJob
  <2>2. CASE job'[w] = [NoJob EXCEPT !.pc = "down"]
    BY <2>2 DEF NoJob
  <2>3. CASE job'[w] = [NoJob EXCEPT !.pc = "cleanup", !.q = {1, 2, 3}]
    BY <2>3 DEF NoJob
  <2>4. CASE \E t : job'[w] = [NoJob EXCEPT !.pc = "failed", !.tool = t]
    BY <2>4 DEF NoJob
  <2>5. QED BY <2>1, <2>2, <2>3, <2>4
<1>2. 1 \in {1, 2, 3}
  OBVIOUS
<1>3. QED BY <1>1, <1>2 DEF Shape, Continued, Calling, CacheFree, Fetching, Covering, Pcs

\* The shape of a call that has failed.
LEMMA ErrorShape ==
  ASSUME TypeOK, NEW w \in Workers, Error(w)
  PROVE  Shape(w)'
BY JobOf, FreeShape DEF Error

\* The shape of a call that has been answered.
LEMMA AnswerShape ==
  ASSUME TypeOK, NEW w \in Workers, Shape(w), tree' = tree,
         NEW items, NEW next \in Nat \cup {-1}, NEW cut \in BOOLEAN,
         job[w].pc \in {"call", "lines", "rg"}, job[w].tool = "read" => next # 0,
         Answer(w, items, next, cut)
  PROVE  Shape(w)'
<1>1. job[w] \in Jobs
  BY DEF TypeOK
<1> DEFINE g == job[w].got \cup items
           m == next # -1
           c == job[w].cut \/ cut
<1>2. job'[w] = [job[w] EXCEPT !.pc = "answered", !.got = g, !.more = m, !.from = next, !.cut = c]
  BY JobOf DEF Answer
<1> HIDE DEF g, m, c
<1>3. /\ job'[w].pc = "answered" /\ job'[w].tool = job[w].tool /\ job'[w].q = job[w].q
      /\ job'[w].at = job[w].at /\ job'[w].more = m /\ job'[w].from = next
      /\ job'[w].handle = job[w].handle
  BY <1>1, <1>2 DEF Jobs
<1>4. m => next # -1
  BY DEF m
<1>5. job[w].handle = "none"
  BY DEF Shape, Writing
<1>6. job'[w].more => job'[w].from # -1
  BY <1>3, <1>4
<1>7. job[w].tool = "read" => job[w].at \in Paths
  BY DEF Shape
<1>8. QED BY <1>3, <1>5, <1>6, <1>7 DEF Shape, Continued, Calling, CacheFree, Fetching, Covering, Pcs

\* The shape of a call that begins.
LEMMA BeginShape ==
  ASSUME TypeOK, NEW w \in Workers, NEW tool \in {"list", "read", "search"},
         NEW place, NEW q \in SUBSET Paths, NEW from \in Nat, NEW end,
         tool = "read" => place \in Paths /\ from # 0,
         Begin(w, tool, place, q, from, end)
  PROVE  Shape(w)'
<1> DEFINE stage == IF place \in Paths /\ ~Permitted(place) THEN "failed" ELSE "call"
<1>1. job'[w] = [NoJob EXCEPT !.pc = stage, !.tool = tool, !.at = place, !.q = q, !.first = from,
                            !.from = from, !.end = end]
  BY JobOf DEF Begin
<1>2. stage \in {"failed", "call"}
  OBVIOUS
<1> HIDE DEF stage
<1>3. /\ job'[w].pc \in {"failed", "call"} /\ job'[w].tool = tool /\ job'[w].q = q
      /\ job'[w].at = place /\ job'[w].from = from /\ job'[w].handle = "none"
  BY <1>1, <1>2 DEF NoJob
<1>4. QED BY <1>3 DEF Shape, Continued, Calling, CacheFree, Fetching, Covering, Pcs

\* The worker that moves keeps the shape of its call.
LEMMA OwnShape ==
  ASSUME TypeOK, NEW w \in Workers, Shape(w), Step(w)
  PROVE  Shape(w)'
<1>0. job[w] \in Jobs /\ tree' = tree
  BY TreeStays DEF TypeOK
<1> USE DEF Continued, Calling, CacheFree, Fetching, Covering, Writing, Pcs
<1>1. CASE Error(w)
  BY <1>1, ErrorShape
<1>2. CASE ListFiles(w)
  <2>1. PICK dir \in Directories \cup {Root}, recursive \in BOOLEAN :
          Begin(w, "list", dir, IF recursive THEN Under(dir)
                                ELSE {p \in Paths : Parent[p] = dir}, 0, 0)
    BY <1>2 DEF ListFiles
  <2> DEFINE q == IF recursive THEN Under(dir) ELSE {p \in Paths : Parent[p] = dir}
  <2>2. q \in SUBSET Paths
    BY PathFacts
  <2>3. Begin(w, "list", dir, q, 0, 0)
    BY <2>1
  <2> HIDE DEF q
  <2>4. QED BY <2>2, <2>3, BeginShape
<1>3. CASE SearchFile(w)
  <2>1. PICK q \in Queries : Begin(w, "list", Root, q, 0, 0)
    BY <1>3 DEF SearchFile
  <2>2. q \in SUBSET Paths
    BY <2>1, SourceToolsAssumption
  <2>3. QED BY <2>1, <2>2, BeginShape
<1>4. CASE ReadFile(w)
  <2>1. PICK p \in Paths, window \in Windows : Begin(w, "read", p, {}, window[1], window[2])
    BY <1>4 DEF ReadFile
  <2>2. window[1] \in Nat /\ window[1] # 0
    BY <2>1, SourceToolsAssumption
  <2>3. QED BY <2>1, <2>2, BeginShape
<1>5. CASE Search(w)
  <2>1. PICK dir \in Directories \cup {Root} : Begin(w, "search", dir, {}, 0, 0)
    BY <1>5 DEF Search
  <2>2. QED BY <2>1, BeginShape
<1>6. CASE Continue(w)
  <2>1. CASE ~job[w].more
    BY <1>6, <2>1, JobOf, FreeShape DEF Continue
  <2>2. CASE job[w].more
    <3>1. job'[w] = [job[w] EXCEPT !.pc = "call", !.more = FALSE, !.paged = TRUE]
      BY <1>6, <2>2, JobOf DEF Continue
    <3>2. /\ job'[w].pc = "call" /\ job'[w].tool = job[w].tool /\ job'[w].q = job[w].q
          /\ job'[w].at = job[w].at /\ job'[w].from = job[w].from /\ job'[w].handle = job[w].handle
      BY <1>0, <3>1 DEF Jobs
    <3>3. job[w].pc = "answered"
      BY <1>6 DEF Continue
    <3>4. QED BY <2>2, <3>2, <3>3 DEF Shape
  <2>3. QED BY <2>1, <2>2
<1>7. CASE GiveUp(w) \/ Crash(w) \/ Start(w)
  BY <1>7, JobOf, FreeShape DEF GiveUp, Crash, Start
<1>8. CASE Listed(w)
  <2> DEFINE page == _page_rows(_visible_file_rows(list_files(job[w].q, job[w].from)), job[w].from)
             items == {Item(p, 0, 0, FALSE) : p \in page[1]}
  <2>1. Answer(w, items, page[2], FALSE) /\ page[2] \in Nat \cup {-1}
    BY <1>8, ListedAnswer
  <2> HIDE DEF page, items
  <2>2. job[w].pc = "call" /\ job[w].tool = "list"
    BY <1>8 DEF Listed
  <2>3. QED BY <1>0, <2>1, <2>2, AnswerShape
<1>9. CASE ReadLines(w) /\ ~Error(w)
  <2>1. PICK actual \in Int, next \in Nat \cup {-1} :
           /\ Answer(w, {LineItem(job[w].at, n) : n \in job[w].from .. actual}, next, FALSE)
           /\ job[w].from - 1 <= actual /\ (next # -1 => next = actual + 1)
    BY <1>9, ReadAnswer
  <2>2. job[w].from \in Nat \ {0}
    BY <1>9, ReadAnswer
  <2>3. next # 0
    BY <2>1, <2>2
  <2>4. job[w].pc = "lines"
    BY <1>9 DEF ReadLines
  <2>5. QED BY <1>0, <2>1, <2>3, <2>4, AnswerShape
<1>10. CASE Ripgrep(w) /\ ~Error(w)
  <2>1. PICK page \in SUBSET Matches(w), next \in Nat \cup {-1}, cut \in BOOLEAN :
          Answer(w, page, next, cut)
    BY <1>10, RipgrepAnswer
  <2>2. job[w].pc = "rg" /\ job[w].tool = "search"
    BY <1>10 DEF Ripgrep, Shape
  <2>3. QED BY <1>0, <2>1, <2>2, AnswerShape
<1>11. CASE SearchText(w) /\ ~Error(w)
  <2>1. job[w].pc = "call" /\ job[w].tool = "search"
    BY <1>11 DEF SearchText
  <2>2. \/ job'[w] = [job[w] EXCEPT !.pc = "rg"]
        \/ job'[w] = [job[w] EXCEPT !.pc = "lock", !.lock = locks]
    BY <1>11, JobOf DEF SearchText
  <2>3. /\ job'[w].pc \in {"rg", "lock"} /\ job'[w].tool = job[w].tool /\ job'[w].q = job[w].q
        /\ job'[w].at = job[w].at /\ job'[w].from = job[w].from /\ job'[w].handle = job[w].handle
    BY <1>0, <2>2 DEF Jobs
  <2>4. QED BY <2>1, <2>3 DEF Shape
<1>12. CASE PrefixLock(w) /\ ~Error(w)
  <2> DEFINE rows == text_files_under_prefix(job[w].at)
             stage == IF rows = {} THEN "cover" ELSE "fetch"
  <2>1. job[w].pc = "lock" /\ job[w].tool = "search"
    BY <1>12 DEF PrefixLock, Shape
  <2>2. \/ job'[w] = [job[w] EXCEPT !.pc = "rg", !.lock = 0]
        \/ job'[w] = [job[w] EXCEPT !.pc = stage, !.todo = rows]
    BY <1>12, JobOf DEF PrefixLock
  <2>3. stage \in {"cover", "fetch"} /\ (stage = "fetch" => rows # {})
        /\ \A p \in rows : StoredText(p)
    BY TextFilesUnder
  <2> HIDE DEF rows, stage
  <2>4. /\ job'[w].pc = "rg" \/ (job'[w].pc = stage /\ job'[w].todo = rows)
        /\ job'[w].tool = job[w].tool /\ job'[w].q = job[w].q
        /\ job'[w].at = job[w].at /\ job'[w].from = job[w].from /\ job'[w].handle = job[w].handle
    BY <1>0, <2>2 DEF Jobs
  <2>5. QED BY <1>0, <2>1, <2>3, <2>4 DEF Shape
<1>13. CASE MarkRead(w) /\ ~Error(w)
  <2>1. job[w].pc = "cover" /\ job[w].tool = "search"
    BY <1>13 DEF MarkRead, Shape
  <2>2. job'[w] = [job[w] EXCEPT !.pc = "coveropen", !.data = CoverageWith(job[w].at)]
    BY <1>13, JobOf DEF MarkRead
  <2>3. /\ job'[w].pc = "coveropen" /\ job'[w].tool = job[w].tool /\ job'[w].q = job[w].q
        /\ job'[w].at = job[w].at /\ job'[w].from = job[w].from /\ job'[w].handle = job[w].handle
    BY <1>0, <2>2 DEF Jobs
  <2>4. QED BY <2>1, <2>3 DEF Shape
<1>14. CASE EnsureFile(w) /\ ~Error(w)
  <2>1. job[w].pc = "call" /\ job[w].tool = "read" /\ job[w].at \in Paths
    BY <1>14 DEF EnsureFile, Shape
  <2>2. StoredText(job[w].at)
    BY <1>14, <2>1, ReadableText DEF EnsureFile, TextFile
  <2>3. \/ job'[w] = [job[w] EXCEPT !.pc = "lines"]
        \/ job'[w] = [job[w] EXCEPT !.pc = "fetch", !.todo = {job[w].at}]
    BY <1>14, JobOf DEF EnsureFile
  <2>4. /\ job'[w].pc = "lines" \/ (job'[w].pc = "fetch" /\ job'[w].todo = {job[w].at})
        /\ job'[w].tool = job[w].tool /\ job'[w].q = job[w].q
        /\ job'[w].at = job[w].at /\ job'[w].from = job[w].from /\ job'[w].handle = job[w].handle
    BY <1>0, <2>3 DEF Jobs
  <2>5. QED BY <1>0, <2>1, <2>2, <2>4 DEF Shape
<1>15. CASE Fetch(w) \/ WriteFile(w)
  <2>1. \/ /\ job[w].pc = "fetch"
           /\ job'[w] = [[job[w] EXCEPT !.pc = "write"] EXCEPT !.handle = "tmp"]
        \/ /\ job[w].pc = "write"
           /\ job'[w] = [job[w] EXCEPT !.pc = "replace"]
    BY <1>15, JobOf DEF Fetch, OpenTmp, WriteFile, WriteTmp
  <2>2. /\ job'[w].pc \in {"write", "replace"} /\ job'[w].tool = job[w].tool /\ job'[w].q = job[w].q
        /\ job'[w].at = job[w].at /\ job'[w].from = job[w].from /\ job'[w].todo = job[w].todo
    BY <1>0, <2>1 DEF Jobs
  <2>3. job[w].pc \in {"fetch", "write"}
    BY <2>1
  <2>4. /\ job[w].todo # {} /\ job[w].tool \in {"read", "search"}
        /\ \A p \in job[w].todo : StoredText(p)
        /\ job[w].tool = "read" => job[w].todo = {job[w].at} /\ job[w].at \in Paths /\ job[w].from # 0
        /\ job[w].from # -1
    BY <2>3 DEF Shape
  <2>5. QED BY <1>0, <2>2, <2>4 DEF Shape
<1>16. CASE MarkOpen(w) \/ MarkWrite(w)
  <2>1. \/ /\ job[w].pc = "coveropen"
           /\ job'[w] = [[job[w] EXCEPT !.pc = "coverwrite"] EXCEPT !.handle = "tmp"]
        \/ /\ job[w].pc = "coverwrite"
           /\ job'[w] = [job[w] EXCEPT !.pc = "coverreplace"]
    BY <1>16, JobOf DEF MarkOpen, OpenTmp, MarkWrite, WriteTmp
  <2>2. /\ job'[w].pc \in {"coverwrite", "coverreplace"} /\ job'[w].tool = job[w].tool
        /\ job'[w].q = job[w].q /\ job'[w].at = job[w].at /\ job'[w].from = job[w].from
    BY <1>0, <2>1 DEF Jobs
  <2>3. job[w].pc \in {"coveropen", "coverwrite"}
    BY <2>1
  <2>4. job[w].tool = "search" /\ job[w].from # -1
    BY <2>3 DEF Shape
  <2>5. QED BY <2>2, <2>4 DEF Shape
<1>17. CASE ReplaceFile(w) /\ ~Error(w)
  <2> DEFINE rest == job[w].todo \ {Min(job[w].todo)}
             stage == IF rest # {} THEN "fetch" ELSE IF job[w].tool = "read" THEN "lines" ELSE "cover"
             j == [job[w] EXCEPT !.todo = rest, !.pc = stage]
  <2>1. job[w].pc = "replace" /\ job'[w] = [j EXCEPT !.handle = "none"]
    BY <1>17 DEF ReplaceFile, Replace
  <2>2. /\ stage \in {"fetch", "lines", "cover"} /\ (stage = "fetch" => rest # {})
        /\ (stage = "lines" => job[w].tool = "read") /\ (stage = "cover" => job[w].tool # "read")
        /\ rest \subseteq job[w].todo
    OBVIOUS
  <2>3. job[w].tool = "read" => stage # "fetch"
    <3>1. ASSUME job[w].tool = "read"
          PROVE  rest = {}
      <4>1. job[w].todo = {job[w].at} /\ job[w].at \in Nat
        BY <2>1, <3>1, PathFacts DEF Shape
      <4>2. Min(job[w].todo) \in job[w].todo
        BY <4>1, MinOfSet
      <4>3. QED BY <4>1, <4>2
    <3>2. QED BY <3>1
  <2> HIDE DEF rest, stage
  <2>4. /\ job'[w].pc = stage /\ job'[w].tool = job[w].tool /\ job'[w].q = job[w].q
        /\ job'[w].at = job[w].at /\ job'[w].from = job[w].from /\ job'[w].todo = rest
        /\ job'[w].handle = "none"
    BY <1>0, <2>1 DEF Jobs
  <2>5. job[w].tool \in {"read", "search"}
    BY <2>1 DEF Shape
  <2>6. QED BY <1>0, <2>1, <2>2, <2>3, <2>4, <2>5 DEF Shape
<1>18. CASE MarkReplace(w) /\ ~Error(w)
  <2> DEFINE j == [job[w] EXCEPT !.pc = "rg", !.data = {}, !.lock = 0]
  <2>1. job[w].pc = "coverreplace" /\ job'[w] = [j EXCEPT !.handle = "none"]
    BY <1>18 DEF MarkReplace, Replace
  <2>2. /\ job'[w].pc = "rg" /\ job'[w].tool = job[w].tool /\ job'[w].q = job[w].q
        /\ job'[w].at = job[w].at /\ job'[w].from = job[w].from /\ job'[w].handle = "none"
    BY <1>0, <2>1 DEF Jobs
  <2>3. QED BY <2>1, <2>2 DEF Shape
<1>19. CASE Cleanup(w)
  <2>1. PICK part \in job[w].q :
          job'[w] = IF job[w].q \ {part} = {} THEN NoJob ELSE [job[w] EXCEPT !.q = job[w].q \ {part}]
    BY <1>19 DEF Cleanup
  <2> DEFINE rest == job[w].q \ {part}
  <2>2. CASE rest = {}
    BY <2>1, <2>2, FreeShape
  <2>3. CASE rest # {}
    <3>1. rest \subseteq job[w].q
      OBVIOUS
    <3>2. job'[w] = [job[w] EXCEPT !.q = rest]
      BY <2>1, <2>3
    <3> HIDE DEF rest
    <3>3. /\ job'[w].pc = job[w].pc /\ job'[w].tool = job[w].tool /\ job'[w].q = rest
          /\ job'[w].at = job[w].at /\ job'[w].handle = job[w].handle
      BY <1>0, <3>2 DEF Jobs
    <3>4. job[w].pc = "cleanup"
      BY <1>19 DEF Cleanup
    <3>5. QED BY <2>3, <3>1, <3>3, <3>4 DEF Shape
  <2>4. QED BY <2>2, <2>3
<1>20. CASE FetchFails(w)
  BY <1>20, ErrorShape DEF FetchFails
<1>21. QED BY <1>1, <1>2, <1>3, <1>4, <1>5, <1>6, <1>7, <1>8, <1>9, <1>10, <1>11, <1>12, <1>13,
              <1>14, <1>15, <1>16, <1>17, <1>18, <1>19, <1>20 DEF Step

\* Only text files are written to the cache.
LEMMA OnlyTextStep ==
  ASSUME TypeOK, OnlyText, NEW w \in Workers, Shape(w), Step(w)
  PROVE  OnlyText'
<1>1. tree' = tree /\ disk \in [Files -> [tmp : Contents, target : Contents]]
  BY TreeStays DEF TypeOK
<1>2. \A p \in Paths : p \in Files /\ p # Coverage
  BY PathFacts
<1>3. ASSUME job[w].pc \in Fetching
      PROVE  TextFile(Min(job[w].todo))
  <2>1. job[w].todo \in SUBSET Nat /\ job[w].todo \subseteq Leaves
    BY PathFacts DEF TypeOK, Jobs
  <2>2. Min(job[w].todo) \in job[w].todo
    BY <1>3, <2>1, MinOfSet DEF Shape
  <2>3. QED BY <1>3, <2>1, <2>2 DEF Shape, TextFile
<1>4. CASE disk' = disk
  BY <1>1, <1>4 DEF OnlyText, TextFile
<1>5. CASE Fetch(w) \/ WriteFile(w)
  <2> DEFINE f == Min(job[w].todo)
  <2>1. TextFile(f)
    BY <1>3, <1>5 DEF Fetch, WriteFile, Fetching
  <2>2. \E c : \/ disk' = [disk EXCEPT ![f].tmp = c]
               \/ disk' = [disk EXCEPT ![f].target = c]
               \/ disk' = disk
    BY <1>5 DEF Fetch, WriteFile, OpenTmp, WriteTmp
  <2> HIDE DEF f
  <2>3. \A p \in Paths \ {f} : disk'[p] = disk[p]
    BY <1>1, <1>2, <2>2
  <2>4. QED BY <1>1, <2>1, <2>3 DEF OnlyText, TextFile
<1>6. CASE MarkOpen(w) \/ MarkWrite(w)
  <2>1. \E c : \/ disk' = [disk EXCEPT ![Coverage].tmp = c]
               \/ disk' = [disk EXCEPT ![Coverage].target = c]
               \/ disk' = disk
    BY <1>6 DEF MarkOpen, MarkWrite, OpenTmp, WriteTmp
  <2>2. \A p \in Paths : disk'[p] = disk[p]
    BY <1>1, <1>2, <2>1
  <2>3. QED BY <1>1, <2>2 DEF OnlyText, TextFile
<1>7. CASE ReplaceFile(w) \/ MarkReplace(w)
  <2>1. \E f : disk' = [disk EXCEPT ![f] = [tmp |-> Absent, target |-> disk[f].tmp]] \/ disk' = disk
    BY <1>7 DEF ReplaceFile, MarkReplace, Replace
  <2>2. \A p \in Paths : \/ disk'[p] = disk[p]
                         \/ disk'[p] = [tmp |-> Absent, target |-> disk[p].tmp]
    BY <1>1, <1>2, <2>1
  <2>3. ASSUME NEW p \in Paths, disk'[p].tmp.st # "none" \/ disk'[p].target.st # "none"
        PROVE  disk[p].tmp.st # "none" \/ disk[p].target.st # "none"
    <3>1. CASE disk'[p] = disk[p]
      BY <2>3, <3>1
    <3>2. CASE disk'[p] = [tmp |-> Absent, target |-> disk[p].tmp]
      <4>1. disk'[p].tmp = Absent /\ disk'[p].target = disk[p].tmp /\ Absent.st = "none"
        BY <3>2 DEF Absent
      <4>2. QED BY <2>3, <4>1
    <3>3. QED BY <2>2, <3>1, <3>2
  <2>4. QED BY <1>1, <2>3 DEF OnlyText, TextFile
<1>8. CASE Cleanup(w)
  <2>1. \A p \in Paths : \/ disk'[p] = disk[p]
                         \/ disk'[p] = [tmp |-> Absent, target |-> Absent]
    BY <1>2, <1>8 DEF Cleanup
  <2>2. \A p \in Paths : disk'[p].tmp.st # "none" \/ disk'[p].target.st # "none" => disk'[p] = disk[p]
    BY <2>1 DEF Absent
  <2>3. QED BY <1>1, <2>2 DEF OnlyText, TextFile
<1>9. QED
  <2>1. ListFiles(w) \/ SearchFile(w) \/ ReadFile(w) \/ Search(w) => disk' = disk
    BY DEF ListFiles, SearchFile, ReadFile, Search, Begin
  <2>2. Listed(w) \/ ReadLines(w) \/ Ripgrep(w) \/ SearchText(w) \/ PrefixLock(w) => disk' = disk
    BY DEF Listed, ReadLines, Ripgrep, SearchText, PrefixLock
  <2>3. FetchFails(w) \/ MarkRead(w) \/ EnsureFile(w) \/ GiveUp(w) \/ Continue(w) \/ Crash(w) \/ Start(w)
          => disk' = disk
    BY DEF FetchFails, MarkRead, EnsureFile, GiveUp, Continue, Crash, Start
  <2>4. QED BY <1>4, <1>5, <1>6, <1>7, <1>8, <2>1, <2>2, <2>3 DEF Step

\* Every step keeps the shapes, and only text files in the cache.
LEMMA ShapeStep ==
  ASSUME TypeOK, ShapeInv, NEW w \in Workers, Step(w)
  PROVE  ShapeInv'
<1>1. OnlyText'
  BY OnlyTextStep DEF ShapeInv
<1>2. ASSUME NEW v \in Workers
      PROVE  Shape(v)'
  BY OwnShape, OthersShape DEF ShapeInv
<1>3. QED BY <1>1, <1>2 DEF ShapeInv

-----------------------------------------------------------------------------
(* The cache, as long as nothing disturbed it                              *)

\* The steps of a call that changes no file, and what they make of the call.
CallSteps(w) ==
  \/ SearchText(w) \/ PrefixLock(w) \/ FetchFails(w) \/ MarkRead(w) \/ EnsureFile(w)
  \/ Listed(w) \/ ReadLines(w) \/ Ripgrep(w)
Begins(w) == ListFiles(w) \/ SearchFile(w) \/ ReadFile(w) \/ Search(w)
FileSteps(w) ==
  \/ Fetch(w) \/ WriteFile(w) \/ ReplaceFile(w)
  \/ MarkOpen(w) \/ MarkWrite(w) \/ MarkReplace(w)

\* The writers of a file are the workers in the middle of writing it.
LEMMA WritersFiles ==
  ASSUME ShapeInv, Calm, NEW v \in Workers, NEW f
  PROVE  v \in Writers(f) <=> job[v].pc \in Writing /\ FileOf(v) = f
<1>1. job[v].handle # "none" => job[v].pc \in Writing
  BY DEF ShapeInv, Shape
<1>2. job[v].pc \in Writing => job[v].handle = "tmp"
  BY DEF Calm, Sound
<1>3. QED BY <1>1, <1>2 DEF Writers, FileOf

\* The file a step of a call writes, and that it is in the middle of it.
LEMMA StepFile ==
  ASSUME TypeOK, ShapeInv, NEW w \in Workers, FileSteps(w)
  PROVE  /\ job[w].pc \in Fetching \cup Covering
         /\ Fetch(w) => job[w].pc = "fetch"
         /\ WriteFile(w) => job[w].pc = "write"
         /\ ReplaceFile(w) => job[w].pc = "replace"
         /\ MarkOpen(w) => job[w].pc = "coveropen"
         /\ MarkWrite(w) => job[w].pc = "coverwrite"
         /\ MarkReplace(w) => job[w].pc = "coverreplace"
         /\ job[w].pc \in Fetching => /\ Min(job[w].todo) \in job[w].todo
                                      /\ Min(job[w].todo) \in Leaves /\ Min(job[w].todo) \in Paths
                                      /\ Min(job[w].todo) \in Files /\ Min(job[w].todo) # Coverage
<1>1. /\ Fetch(w) => job[w].pc = "fetch"
      /\ WriteFile(w) => job[w].pc = "write"
      /\ ReplaceFile(w) => job[w].pc = "replace"
      /\ MarkOpen(w) => job[w].pc = "coveropen"
      /\ MarkWrite(w) => job[w].pc = "coverwrite"
      /\ MarkReplace(w) => job[w].pc = "coverreplace"
  BY DEF Fetch, WriteFile, ReplaceFile, MarkOpen, MarkWrite, MarkReplace
<1>2. job[w].pc \in Fetching \cup Covering
  BY <1>1 DEF FileSteps, Fetching, Covering
<1>3. ASSUME job[w].pc \in Fetching
      PROVE  Min(job[w].todo) \in job[w].todo /\ Min(job[w].todo) \in Leaves
  <2>1. job[w].todo \in SUBSET Nat /\ job[w].todo \subseteq Leaves
    BY PathFacts DEF TypeOK, Jobs
  <2>2. job[w].todo # {}
    BY <1>3 DEF ShapeInv, Shape
  <2>3. QED BY <2>1, <2>2, MinOfSet
<1>4. QED BY <1>1, <1>2, <1>3, PathFacts

\* Nobody else's call changes.
LEMMA OthersStay ==
  ASSUME TypeOK, ShapeInv, Calm, NEW w \in Workers, Step(w), broken' = {},
         NEW v \in Workers \ {w}
  PROVE  job'[v] = job[v]
<1>1. CASE job[v].pc \notin Writing
  <2>1. job[v].handle = "none"
    BY <1>1 DEF ShapeInv, Shape
  <2>2. QED BY <2>1, Others
<1>2. CASE job[v].pc \in Writing
  <2>1. CASE Cleanup(w)
    <3>1. Active(v)
      BY <1>2 DEF Active, Writing, CacheFree
    <3>2. broken' # {}
      BY <2>1, <3>1 DEF Cleanup
    <3>3. QED BY <3>2
  <2>2. CASE ReplaceFile(w) \/ MarkReplace(w)
    <3> DEFINE f == FileOf(w)
    <3>1. job[w].pc \in {"replace", "coverreplace"}
      BY <2>2 DEF ReplaceFile, MarkReplace
    <3>2. v \notin Writers(f)
      <4>1. FileOf(v) # FileOf(w)
        BY <1>2, <3>1 DEF Calm, Apart, Writing
      <4>2. QED BY <4>1, WritersFiles
    <3>3. Error(w) \/ \E j : Replace(w, f, j)
      BY <2>2, <3>1 DEF ReplaceFile, MarkReplace, FileOf
    <3>4. CASE Error(w)
      BY <3>4, JobOf DEF Error
    <3>5. CASE \E j : Replace(w, f, j)
      BY <3>2, <3>5 DEF Replace
    <3>6. QED BY <3>3, <3>4, <3>5
  <2>3. CASE \E j : Set(w, j)
    BY <2>3, JobOf
  <2>4. QED
    <3>1. Begins(w) \/ CallSteps(w) => \E j : Set(w, j)
      <4>1. Begins(w) => \E j : Set(w, j)
        BY DEF Begins, ListFiles, SearchFile, ReadFile, Search, Begin
      <4>2. Listed(w) \/ ReadLines(w) \/ Ripgrep(w) => \E j : Set(w, j)
        <5>1. Listed(w) => \E j : Set(w, j)
          BY DEF Listed, Answer
        <5>2. ReadLines(w) => \E j : Set(w, j)
          BY DEF ReadLines, Answer, Error
        <5>3. Ripgrep(w) => \E j : Set(w, j)
          BY DEF Ripgrep, Answer, Error
        <5>4. QED BY <5>1, <5>2, <5>3
      <4>3. SearchText(w) \/ PrefixLock(w) \/ FetchFails(w) \/ MarkRead(w) \/ EnsureFile(w) =>
              \E j : Set(w, j)
        BY DEF SearchText, PrefixLock, FetchFails, MarkRead, EnsureFile, Error
      <4>4. QED BY <4>1, <4>2, <4>3 DEF CallSteps
    <3>2. Continue(w) \/ GiveUp(w) \/ Crash(w) \/ Start(w) => \E j : Set(w, j)
      BY DEF Continue, GiveUp, Crash, Start
    <3>3. Fetch(w) \/ MarkOpen(w) \/ WriteFile(w) \/ MarkWrite(w) => \E j : Set(w, j)
      BY DEF Fetch, MarkOpen, WriteFile, MarkWrite, OpenTmp, WriteTmp
    <3>4. QED BY <2>1, <2>2, <2>3, <3>1, <3>2, <3>3 DEF Step, Begins, CallSteps
<1>3. QED BY <1>1, <1>2

\* What a worker writes is a file of the cache.
LEMMA WriterFile ==
  ASSUME TypeOK, ShapeInv, NEW v \in Workers, job[v].pc \in Writing
  PROVE  FileOf(v) \in Files
<1>1. CASE job[v].pc \in {"coverwrite", "coverreplace"}
  BY <1>1, PathFacts DEF FileOf
<1>2. CASE job[v].pc \notin {"coverwrite", "coverreplace"}
  <2>1. job[v].pc \in Fetching
    BY <1>2 DEF Writing, Fetching
  <2>2. job[v].todo \in SUBSET Nat /\ job[v].todo \subseteq Files /\ job[v].todo # {}
    BY <2>1, PathFacts DEF TypeOK, Jobs, ShapeInv, Shape
  <2>3. Min(job[v].todo) \in Files
    BY <2>2, MinOfSet
  <2>4. QED BY <1>2, <2>3 DEF FileOf
<1>3. QED BY <1>1, <1>2

\* The file a worker in a step of its call opens, writes or renames.
Target(w) == IF job[w].pc \in Fetching THEN Min(job[w].todo) ELSE Coverage
NewContent(w) == IF job[w].pc \in Fetching THEN Full({}) ELSE Full(job[w].data)

\* What a step of a call does to the files: it changes the temporary file, or
\* makes a complete file of it, and touches no file another worker writes.
LEMMA FileStepDisk ==
  ASSUME TypeOK, ShapeInv, Calm, NEW w \in Workers, FileSteps(w), broken' = {}
  PROVE  /\ \A v \in Workers \ {w} : job[v].pc \in Writing => FileOf(v) # Target(w)
         /\ \A g \in Files \ {Target(w)} : disk'[g] = disk[g]
         /\ Target(w) \in Files
         /\ \/ /\ disk'[Target(w)].target = disk[Target(w)].target
               /\ WriteFile(w) \/ MarkWrite(w) => disk'[Target(w)].tmp = NewContent(w)
               /\ (ReplaceFile(w) \/ MarkReplace(w)) => Error(w)
            \/ /\ job[w].pc \in {"replace", "coverreplace"}
               /\ disk'[Target(w)].target = NewContent(w)
<1> DEFINE f == Target(w)
<1>1. /\ Fetch(w) => job[w].pc = "fetch"
      /\ WriteFile(w) => job[w].pc = "write"
      /\ ReplaceFile(w) => job[w].pc = "replace"
      /\ MarkOpen(w) => job[w].pc = "coveropen"
      /\ MarkWrite(w) => job[w].pc = "coverwrite"
      /\ MarkReplace(w) => job[w].pc = "coverreplace"
      /\ job[w].pc \in Fetching => Min(job[w].todo) \in Files
  BY StepFile
<1>2. f \in Files /\ disk \in [Files -> [tmp : Contents, target : Contents]]
  BY <1>1, PathFacts DEF Target, TypeOK
<1>3. CASE Fetch(w) \/ MarkOpen(w)
  <2>1. \E j : OpenTmp(w, f, j)
    BY <1>1, <1>3 DEF Fetch, MarkOpen, Target, Fetching
  <2>2. disk' = [disk EXCEPT ![f].tmp = Torn] /\ Writers(f) \ {w} = {}
    BY <2>1 DEF OpenTmp
  <2>3. \A v \in Workers \ {w} : job[v].pc \in Writing => FileOf(v) # f
    BY <2>2, WritersFiles
  <2>4. job[w].pc \in {"fetch", "coveropen"}
    BY <1>1, <1>3
  <2>5. ~ (WriteFile(w) \/ MarkWrite(w) \/ ReplaceFile(w) \/ MarkReplace(w))
    BY <1>1, <2>4
  <2> HIDE DEF f
  <2>6. disk'[f].target = disk[f].target /\ \A g \in Files \ {f} : disk'[g] = disk[g]
    BY <1>2, <2>2
  <2>7. QED BY <1>2, <2>3, <2>5, <2>6 DEF f
<1>4. CASE WriteFile(w) \/ MarkWrite(w)
  <2>1. job[w].pc \in {"write", "coverwrite"} /\ FileOf(w) = f
    BY <1>1, <1>4 DEF FileOf, Target, Fetching
  <2>2. \A v \in Workers \ {w} : job[v].pc \in Writing => FileOf(v) # f
    BY <2>1 DEF Calm, Apart, Writing
  <2>3. Writers(f) = {w}
    <3>1. w \in Writers(f)
      BY <2>1, WritersFiles DEF Writing
    <3>2. \A v \in Workers \ {w} : v \notin Writers(f)
      BY <2>2, WritersFiles
    <3>3. QED BY <3>1, <3>2 DEF Writers
  <2>4. \E j : WriteTmp(w, f, NewContent(w), j)
    BY <1>1, <1>4 DEF WriteFile, MarkWrite, Target, NewContent, Fetching
  <2>5. job[w].handle = "tmp"
    BY <2>1 DEF Calm, Sound, Writing
  <2>6. disk' = [disk EXCEPT ![f].tmp = NewContent(w)]
    BY <2>3, <2>4, <2>5 DEF WriteTmp
  <2>7. ~ (ReplaceFile(w) \/ MarkReplace(w))
    BY <1>1, <2>1
  <2> DEFINE c == NewContent(w)
  <2> HIDE DEF f, c
  <2>8. /\ disk'[f].target = disk[f].target /\ disk'[f].tmp = c
        /\ \A g \in Files \ {f} : disk'[g] = disk[g]
    BY <1>2, <2>6 DEF c
  <2>9. QED BY <1>2, <2>2, <2>7, <2>8 DEF f, c
<1>5. CASE ReplaceFile(w) \/ MarkReplace(w)
  <2>1. job[w].pc \in {"replace", "coverreplace"} /\ FileOf(w) = f
    BY <1>1, <1>5 DEF FileOf, Target, Fetching
  <2>2. \A v \in Workers \ {w} : job[v].pc \in Writing => FileOf(v) # f
    BY <2>1 DEF Calm, Apart, Writing
  <2>3. disk[f].tmp = NewContent(w)
    BY <2>1 DEF Calm, Sound, Target, NewContent, Fetching
  <2>4. (Error(w) /\ disk' = disk) \/ \E j : Replace(w, f, j)
    BY <1>1, <1>5 DEF ReplaceFile, MarkReplace, Target, Fetching
  <2>5. ~ (WriteFile(w) \/ MarkWrite(w))
    BY <1>1, <2>1
  <2>6. CASE Error(w) /\ disk' = disk
    BY <1>2, <2>2, <2>5, <2>6
  <2>7. CASE \E j : Replace(w, f, j)
    <3>1. disk' = [disk EXCEPT ![f] = [tmp |-> Absent, target |-> disk[f].tmp]]
      BY <2>7 DEF Replace
    <3> DEFINE c == NewContent(w)
    <3> HIDE DEF f, c
    <3>2. disk'[f].target = c /\ \A g \in Files \ {f} : disk'[g] = disk[g]
      BY <1>2, <2>3, <3>1 DEF c
    <3>3. QED BY <1>2, <2>1, <2>2, <3>2 DEF f, c
  <2>8. QED BY <2>4, <2>6, <2>7
<1>6. QED BY <1>3, <1>4, <1>5 DEF FileSteps

\* So complete files stay, no file becomes torn, and coverage.json changes only
\* when a worker has written it.
LEMMA FilesStay ==
  ASSUME TypeOK, ShapeInv, Calm, NEW w \in Workers, FileSteps(w), broken' = {}
  PROVE  /\ \A p \in Paths : IsFull(p) => IsFull(p)'
         /\ \A v \in Workers \ {w} : job[v].pc \in Writing => disk'[FileOf(v)].tmp = disk[FileOf(v)].tmp
         /\ \/ disk'[Coverage].target = disk[Coverage].target
            \/ job[w].pc = "coverreplace" /\ disk'[Coverage].target = Full(job[w].data)
         /\ NotTorn'
<1>1. /\ \A v \in Workers \ {w} : job[v].pc \in Writing => FileOf(v) # Target(w)
      /\ \A g \in Files \ {Target(w)} : disk'[g] = disk[g]
      /\ Target(w) \in Files
      /\ \/ disk'[Target(w)].target = disk[Target(w)].target
         \/ /\ job[w].pc \in {"replace", "coverreplace"}
            /\ disk'[Target(w)].target = NewContent(w)
  BY FileStepDisk
<1>2. NewContent(w).st = "full"
  BY DEF NewContent, Full
<1>3. \A g \in Files : \/ disk'[g].target = disk[g].target
                       \/ disk'[g].target = NewContent(w)
  BY <1>1
<1>4. \A p \in Paths : p \in Files /\ p # Coverage
  BY PathFacts
<1>5. \A p \in Paths : IsFull(p) => IsFull(p)'
  BY <1>2, <1>3, <1>4 DEF IsFull
<1>6. NotTorn'
  BY <1>2, <1>3 DEF Calm, NotTorn
<1>7. \A v \in Workers \ {w} : job[v].pc \in Writing => disk'[FileOf(v)].tmp = disk[FileOf(v)].tmp
  BY <1>1, WriterFile
<1>8. \/ disk'[Coverage].target = disk[Coverage].target
      \/ job[w].pc = "coverreplace" /\ disk'[Coverage].target = Full(job[w].data)
  <2>1. CASE Target(w) # Coverage
    BY <1>1, <2>1, PathFacts
  <2>2. CASE Target(w) = Coverage
    <3>1. job[w].pc \notin Fetching
      <4>1. job[w].pc \in Fetching => Min(job[w].todo) # Coverage
        BY StepFile
      <4>2. QED BY <2>2, <4>1 DEF Target
    <3>2. NewContent(w) = Full(job[w].data)
      BY <3>1 DEF NewContent
    <3>3. QED BY <1>1, <2>2, <3>1, <3>2 DEF Fetching
  <2>3. QED BY <2>1, <2>2
<1>9. QED BY <1>5, <1>6, <1>7, <1>8

\* The other steps change no file, except a cleanup.
LEMMA QuietSteps ==
  ASSUME NEW w \in Workers, Step(w), ~Cleanup(w)
  PROVE  FileSteps(w) \/ disk' = disk
<1>1. Begins(w) => disk' = disk
  BY DEF Begins, ListFiles, SearchFile, ReadFile, Search, Begin
<1>2. Listed(w) \/ ReadLines(w) \/ Ripgrep(w) \/ SearchText(w) \/ PrefixLock(w) => disk' = disk
  BY DEF Listed, ReadLines, Ripgrep, SearchText, PrefixLock
<1>3. FetchFails(w) \/ MarkRead(w) \/ EnsureFile(w) \/ GiveUp(w) \/ Continue(w) \/ Crash(w) \/ Start(w)
        => disk' = disk
  BY DEF FetchFails, MarkRead, EnsureFile, GiveUp, Continue, Crash, Start
<1>4. QED BY <1>1, <1>2, <1>3 DEF Step, Begins, FileSteps

\* What a step that is not of a cleanup leaves true of the cache.
LEMMA CacheStays ==
  ASSUME TypeOK, ShapeInv, Calm, NEW w \in Workers, Step(w), ~Cleanup(w), broken' = {}
  PROVE  /\ \A p \in Paths : IsFull(p) => IsFull(p)'
         /\ \A dir : Complete(dir) => Complete(dir)'
         /\ \A v \in Workers \ {w} : job[v].pc \in Writing => disk'[FileOf(v)].tmp = disk[FileOf(v)].tmp
         /\ \/ disk'[Coverage].target = disk[Coverage].target
            \/ job[w].pc = "coverreplace" /\ disk'[Coverage].target = Full(job[w].data)
         /\ NotTorn'
         /\ disk' = disk \/ job[w].pc \in Calling
<1>1. tree' = tree /\ Leaves \subseteq Paths
  BY TreeStays, PathFacts
<1>2. ASSUME \A p \in Paths : IsFull(p) => IsFull(p)'
      PROVE  \A dir : Complete(dir) => Complete(dir)'
  BY <1>1, <1>2 DEF Complete
<1>3. CASE disk' = disk
  <2>1. \A p \in Paths : IsFull(p) => IsFull(p)'
    BY <1>3 DEF IsFull
  <2>2. NotTorn'
    BY <1>3 DEF Calm, NotTorn
  <2>3. QED BY <1>2, <1>3, <2>1, <2>2
<1>4. CASE FileSteps(w)
  <2>1. job[w].pc \in Calling
    <3>1. job[w].pc \in Fetching \cup Covering
      BY <1>4, StepFile
    <3>2. QED BY <3>1 DEF Fetching, Covering, Calling, CacheFree, Pcs
  <2>2. \A p \in Paths : IsFull(p) => IsFull(p)'
    BY <1>4, FilesStay
  <2>3. QED BY <1>2, <1>4, <2>1, <2>2, FilesStay
<1>5. QED BY <1>3, <1>4, QuietSteps

\* The call after an answer, after an error and at its beginning.
LEMMA AnswerFields ==
  ASSUME TypeOK, NEW w \in Workers, NEW items, NEW next, NEW cut \in BOOLEAN,
         Answer(w, items, next, cut)
  PROVE  /\ job'[w].pc = "answered" /\ job'[w].tool = job[w].tool /\ job'[w].at = job[w].at
         /\ job'[w].q = job[w].q /\ job'[w].first = job[w].first /\ job'[w].end = job[w].end
         /\ job'[w].paged = job[w].paged /\ job'[w].from = next
         /\ job'[w].got = job[w].got \cup items
         /\ job'[w].more <=> next # -1
         /\ job'[w].cut <=> job[w].cut \/ cut
<1>1. job[w] \in Jobs
  BY DEF TypeOK
<1> DEFINE g == job[w].got \cup items
           m == next # -1
           c == job[w].cut \/ cut
<1>2. job'[w] = [job[w] EXCEPT !.pc = "answered", !.got = g, !.more = m, !.from = next, !.cut = c]
  BY JobOf DEF Answer
<1> HIDE DEF g, m, c
<1>3. /\ job'[w].pc = "answered" /\ job'[w].tool = job[w].tool /\ job'[w].at = job[w].at
      /\ job'[w].q = job[w].q /\ job'[w].first = job[w].first /\ job'[w].end = job[w].end
      /\ job'[w].paged = job[w].paged /\ job'[w].from = next /\ job'[w].got = g
      /\ job'[w].more = m /\ job'[w].cut = c
  BY <1>1, <1>2 DEF Jobs
<1>4. job'[w].more <=> next # -1
  BY <1>3 DEF m
<1>5. job'[w].cut <=> job[w].cut \/ cut
  BY <1>3 DEF c
<1>6. QED BY <1>3, <1>4, <1>5 DEF g

\* The call after an error.
LEMMA ErrorFields ==
  ASSUME TypeOK, NEW w \in Workers, Error(w)
  PROVE  job'[w].pc = "failed"
<1>1. job'[w] = [NoJob EXCEPT !.pc = "failed", !.tool = job[w].tool]
  BY JobOf DEF Error
<1>2. QED BY <1>1 DEF NoJob

\* The call after its first step.
LEMMA BeginFields ==
  ASSUME TypeOK, NEW w \in Workers, NEW tool, NEW place, NEW q, NEW from, NEW end,
         Begin(w, tool, place, q, from, end)
  PROVE  /\ job'[w].pc \in {"call", "failed"} /\ job'[w].tool = tool /\ job'[w].at = place
         /\ job'[w].q = q /\ job'[w].first = from /\ job'[w].from = from /\ job'[w].end = end
         /\ job'[w].got = {} /\ ~job'[w].more /\ ~job'[w].paged /\ ~job'[w].cut
<1> DEFINE stage == IF place \in Paths /\ ~Permitted(place) THEN "failed" ELSE "call"
<1>1. job'[w] = [NoJob EXCEPT !.pc = stage, !.tool = tool, !.at = place, !.q = q, !.first = from,
                            !.from = from, !.end = end]
  BY JobOf DEF Begin
<1>2. stage \in {"failed", "call"}
  OBVIOUS
<1> HIDE DEF stage
<1>3. QED BY <1>1, <1>2 DEF NoJob

\* A worker that gives up, crashes or starts has no call.
LEMMA FreeFields ==
  ASSUME TypeOK, NEW w \in Workers, GiveUp(w) \/ Crash(w) \/ Start(w)
  PROVE  /\ job'[w].pc \in {"idle", "down", "cleanup"} /\ job'[w].tool = "none"
         /\ job'[w].pc = "cleanup" => job'[w].q = {1, 2, 3}
<1>1. \/ job'[w] = NoJob \/ job'[w] = [NoJob EXCEPT !.pc = "down"]
      \/ job'[w] = [NoJob EXCEPT !.pc = "cleanup", !.q = {1, 2, 3}]
  BY JobOf DEF GiveUp, Crash, Start
<1>2. CASE job'[w] = NoJob
  BY <1>2 DEF NoJob
<1>3. CASE job'[w] = [NoJob EXCEPT !.pc = "down"]
  BY <1>3 DEF NoJob
<1>4. CASE job'[w] = [NoJob EXCEPT !.pc = "cleanup", !.q = {1, 2, 3}]
  BY <1>4 DEF NoJob
<1>5. QED BY <1>1, <1>2, <1>3, <1>4

\* The caller asks for the rest, or is content.
LEMMA ContinueFields ==
  ASSUME TypeOK, NEW w \in Workers, Continue(w)
  PROVE  /\ job'[w].pc \in {"idle", "call"}
         /\ job'[w].pc = "call" =>
              /\ Continued(w)
              /\ job'[w].tool = job[w].tool /\ job'[w].at = job[w].at /\ job'[w].q = job[w].q
              /\ job'[w].first = job[w].first /\ job'[w].from = job[w].from
              /\ job'[w].end = job[w].end /\ job'[w].got = job[w].got /\ job'[w].paged
         /\ job'[w].pc = "idle" => job'[w].tool = "none"
<1>1. job[w] \in Jobs
  BY DEF TypeOK
<1>2. CASE job[w].more
  <2>1. job'[w] = [job[w] EXCEPT !.pc = "call", !.more = FALSE, !.paged = TRUE]
    BY <1>2, JobOf DEF Continue
  <2>2. Continued(w)
    BY <1>2 DEF Continue, Continued
  <2>3. QED BY <1>1, <2>1, <2>2 DEF Jobs
<1>3. CASE ~job[w].more
  <2>1. job'[w] = NoJob
    BY <1>3, JobOf DEF Continue
  <2>2. QED BY <2>1 DEF NoJob
<1>4. QED BY <1>2, <1>3

\* A step in a stage of a call: what it asks and what it was given stay.
Stays(w) ==
  /\ job'[w].tool = job[w].tool /\ job'[w].at = job[w].at /\ job'[w].q = job[w].q
  /\ job'[w].first = job[w].first /\ job'[w].from = job[w].from /\ job'[w].end = job[w].end
  /\ job'[w].got = job[w].got /\ job'[w].paged = job[w].paged /\ job'[w].cut = job[w].cut

\* A step from one stage of a call to the next.
LEMMA StageFields ==
  ASSUME TypeOK, NEW w \in Workers, ~Error(w),
         \/ SearchText(w) \/ PrefixLock(w) \/ MarkRead(w) \/ EnsureFile(w) \/ FileSteps(w)
  PROVE  job[w].pc \in Calling /\ job'[w].pc \in Calling \ {"call"} /\ Stays(w)
<1>1. job[w] \in Jobs
  BY DEF TypeOK
<1>2. job[w].pc \in Calling
  BY DEF SearchText, PrefixLock, MarkRead, EnsureFile, FileSteps, Fetch, WriteFile, ReplaceFile,
         MarkOpen, MarkWrite, MarkReplace, Calling, CacheFree, Pcs
<1> DEFINE Later == {"rg", "lock", "lines", "fetch", "write", "replace", "cover", "coveropen",
                     "coverwrite", "coverreplace"}
<1>3. Later \subseteq Calling \ {"call"}
  BY DEF Calling, CacheFree, Pcs
<1>4. job'[w].pc \in Later /\ Stays(w)
  <2>1. CASE SearchText(w)
    <3>1. \/ job'[w] = [job[w] EXCEPT !.pc = "rg"]
          \/ job'[w] = [job[w] EXCEPT !.pc = "lock", !.lock = locks]
      BY <2>1, JobOf DEF SearchText
    <3>2. CASE job'[w] = [job[w] EXCEPT !.pc = "rg"]
      BY <1>1, <3>2 DEF Jobs, Stays
    <3>3. CASE job'[w] = [job[w] EXCEPT !.pc = "lock", !.lock = locks]
      BY <1>1, <3>3 DEF Jobs, Stays
    <3>4. QED BY <3>1, <3>2, <3>3
  <2>2. CASE PrefixLock(w)
    <3> DEFINE rows == text_files_under_prefix(job[w].at)
               stage == IF rows = {} THEN "cover" ELSE "fetch"
    <3>1. \/ job'[w] = [job[w] EXCEPT !.pc = "rg", !.lock = 0]
          \/ job'[w] = [job[w] EXCEPT !.pc = stage, !.todo = rows]
      BY <2>2, JobOf DEF PrefixLock
    <3>2. stage \in Later
      OBVIOUS
    <3> HIDE DEF rows, stage
    <3>3. CASE job'[w] = [job[w] EXCEPT !.pc = "rg", !.lock = 0]
      BY <1>1, <3>3 DEF Jobs, Stays
    <3>4. CASE job'[w] = [job[w] EXCEPT !.pc = stage, !.todo = rows]
      <4> HIDE DEF Later
      <4>1. QED BY <1>1, <3>2, <3>4 DEF Jobs, Stays
    <3>5. QED BY <3>1, <3>3, <3>4
  <2>3. CASE MarkRead(w)
    <3> DEFINE d == CoverageWith(job[w].at)
    <3>1. job'[w] = [job[w] EXCEPT !.pc = "coveropen", !.data = d]
      BY <2>3, JobOf DEF MarkRead
    <3> HIDE DEF d
    <3>2. QED BY <1>1, <3>1 DEF Jobs, Stays
  <2>4. CASE EnsureFile(w)
    <3>1. \/ job'[w] = [job[w] EXCEPT !.pc = "lines"]
          \/ job'[w] = [job[w] EXCEPT !.pc = "fetch", !.todo = {job[w].at}]
      BY <2>4, JobOf DEF EnsureFile
    <3>2. CASE job'[w] = [job[w] EXCEPT !.pc = "lines"]
      BY <1>1, <3>2 DEF Jobs, Stays
    <3>3. CASE job'[w] = [job[w] EXCEPT !.pc = "fetch", !.todo = {job[w].at}]
      BY <1>1, <3>3 DEF Jobs, Stays
    <3>4. QED BY <3>1, <3>2, <3>3
  <2>5. CASE Fetch(w)
    <3>1. job'[w] = [[job[w] EXCEPT !.pc = "write"] EXCEPT !.handle = "tmp"]
      BY <2>5, JobOf DEF Fetch, OpenTmp
    <3>2. QED BY <1>1, <3>1 DEF Jobs, Stays
  <2>6. CASE MarkOpen(w)
    <3>1. job'[w] = [[job[w] EXCEPT !.pc = "coverwrite"] EXCEPT !.handle = "tmp"]
      BY <2>6, JobOf DEF MarkOpen, OpenTmp
    <3>2. QED BY <1>1, <3>1 DEF Jobs, Stays
  <2>7. CASE WriteFile(w)
    <3>1. job'[w] = [job[w] EXCEPT !.pc = "replace"]
      BY <2>7, JobOf DEF WriteFile, WriteTmp
    <3>2. QED BY <1>1, <3>1 DEF Jobs, Stays
  <2>8. CASE MarkWrite(w)
    <3>1. job'[w] = [job[w] EXCEPT !.pc = "coverreplace"]
      BY <2>8, JobOf DEF MarkWrite, WriteTmp
    <3>2. QED BY <1>1, <3>1 DEF Jobs, Stays
  <2>9. CASE ReplaceFile(w)
    <3> DEFINE rest == job[w].todo \ {Min(job[w].todo)}
               stage == IF rest # {} THEN "fetch" ELSE IF job[w].tool = "read" THEN "lines" ELSE "cover"
    <3>1. job'[w] = [[job[w] EXCEPT !.todo = rest, !.pc = stage] EXCEPT !.handle = "none"]
      BY <2>9 DEF ReplaceFile, Replace
    <3>2. stage \in Later
      OBVIOUS
    <3> HIDE DEF rest, stage, Later
    <3>3. QED BY <1>1, <3>1, <3>2 DEF Jobs, Stays
  <2>10. CASE MarkReplace(w)
    <3>1. job'[w] = [[job[w] EXCEPT !.pc = "rg", !.data = {}, !.lock = 0] EXCEPT !.handle = "none"]
      BY <2>10 DEF MarkReplace, Replace
    <3>2. QED BY <1>1, <3>1 DEF Jobs, Stays
  <2>11. QED BY <2>1, <2>2, <2>3, <2>4, <2>5, <2>6, <2>7, <2>8, <2>9, <2>10 DEF FileSteps
<1>5. QED BY <1>2, <1>3, <1>4

\* The answers as answers of typed parts.
LEMMA Answers ==
  ASSUME TypeOK, ShapeInv, NEW w \in Workers, Listed(w) \/ ReadLines(w) \/ Ripgrep(w), ~Error(w)
  PROVE  \E items, next : \E cut \in BOOLEAN : Answer(w, items, next, cut)
<1>1. Shape(w)
  BY DEF ShapeInv
<1>2. Listed(w) => \E items, next : \E cut \in BOOLEAN : Answer(w, items, next, cut)
  BY DEF Listed
<1>3. ReadLines(w) => \E items, next : \E cut \in BOOLEAN : Answer(w, items, next, cut)
  BY <1>1, ReadAnswer
<1>4. Ripgrep(w) => \E items, next : \E cut \in BOOLEAN : Answer(w, items, next, cut)
  BY <1>1, RipgrepAnswer
<1>5. QED BY <1>2, <1>3, <1>4

\* A worker that begins a call finds nobody removing the directory, and one that
\* removes it does nothing else.
LEMMA OwnMoves ==
  ASSUME TypeOK, ShapeInv, NEW w \in Workers, Step(w), ~Cleanup(w), broken' = {}
  PROVE  /\ ~Removing(w) /\ ~Removing(w)'
         /\ job'[w].pc \in Calling => job[w].pc \in Calling \/ \A v \in Workers : job[v].pc # "cleanup"
<1> USE DEF Removing
<1>1. CASE Begins(w) \/ Continue(w)
  <2>1. (\A v \in Workers : job[v].pc # "cleanup") /\ job[w].pc \in {"idle", "answered"}
    BY <1>1 DEF Begins, ListFiles, SearchFile, ReadFile, Search, Begin, Continue, Arrives
  <2>2. job'[w].pc \in {"idle", "call", "failed"}
    BY <1>1, BeginFields, ContinueFields DEF Begins, ListFiles, SearchFile, ReadFile, Search
  <2>3. QED BY <2>1, <2>2
<1>2. CASE GiveUp(w) \/ Crash(w) \/ Start(w)
  <2>1. job[w].pc # "cleanup"
    BY <1>2 DEF GiveUp, Crash, Start
  <2>2. /\ job'[w].pc \in {"idle", "down", "cleanup"}
        /\ job'[w].pc = "cleanup" => job'[w].q = {1, 2, 3}
    BY <1>2, FreeFields
  <2>3. QED BY <2>1, <2>2 DEF Calling, CacheFree, Pcs
<1>3. CASE CallSteps(w) \/ FileSteps(w)
  <2>1. job[w].pc \in Calling
    BY <1>3 DEF CallSteps, FileSteps, SearchText, PrefixLock, FetchFails, MarkRead, EnsureFile,
                Listed, ReadLines, Ripgrep, Fetch, WriteFile, ReplaceFile,
                MarkOpen, MarkWrite, MarkReplace, Calling, CacheFree, Pcs
  <2>2. job'[w].pc # "cleanup"
    <3>1. CASE Error(w)
      <4>1. job'[w].pc = "failed"
        BY <3>1, ErrorFields
      <4>2. QED BY <4>1
    <3>2. CASE (Listed(w) \/ ReadLines(w) \/ Ripgrep(w)) /\ ~Error(w)
      <4>1. job'[w].pc = "answered"
        BY <3>2, Answers, AnswerFields
      <4>2. QED BY <4>1
    <3>3. CASE ~Error(w) /\ (SearchText(w) \/ PrefixLock(w) \/ MarkRead(w) \/ EnsureFile(w) \/ FileSteps(w))
      <4>1. job'[w].pc \in Calling
        BY <3>3, StageFields
      <4>2. QED BY <4>1 DEF Calling
    <3>4. FetchFails(w) => Error(w)
      BY DEF FetchFails
    <3>5. QED BY <1>3, <3>1, <3>2, <3>3, <3>4 DEF CallSteps
  <2>3. QED BY <2>1, <2>2 DEF Calling
<1>4. QED BY <1>1, <1>2, <1>3 DEF Step, Begins, CallSteps, FileSteps

\* What the other calls rely on stays true.
LEMMA OthersSound ==
  ASSUME TypeOK, ShapeInv, Calm, NEW w \in Workers, Step(w), ~Cleanup(w), broken' = {},
         NEW v \in Workers \ {w}
  PROVE  Sound(v)'
<1>1. job'[v] = job[v] /\ tree' = tree
  BY OthersStay, TreeStays
<1>2. Sound(v)
  BY DEF Calm
<1>3. /\ \A p \in Paths : IsFull(p) => IsFull(p)'
      /\ \A dir : Complete(dir) => Complete(dir)'
      /\ job[v].pc \in Writing => disk'[FileOf(v)].tmp = disk[FileOf(v)].tmp
  BY CacheStays
<1>4. Leaves \subseteq Paths
  BY PathFacts
<1>5. job[v].pc \in Writing => job'[v].handle = "tmp"
  BY <1>1, <1>2 DEF Sound
<1>6. job[v].pc = "replace" => disk'[Min(job[v].todo)].tmp = Full({})
  BY <1>2, <1>3 DEF Sound, FileOf, Writing
<1>7. job[v].pc = "coverreplace" => disk'[Coverage].tmp = Full(job[v].data)
  BY <1>2, <1>3 DEF Sound, FileOf, Writing
<1>8. job[v].pc \in Fetching /\ job[v].tool = "search" =>
        \A p \in Leaves \ job[v].todo : job[v].at \in Above[p] /\ ShownText(p) => IsFull(p)'
  BY <1>2, <1>3, <1>4 DEF Sound
<1>9. /\ job[v].pc \in Covering \cup {"rg"} => Complete(job[v].at)
      /\ job[v].pc \in Covering \ {"cover"} => \A dir \in job[v].data : Complete(dir)
  BY <1>2 DEF Sound
<1>10. /\ job[v].pc \in Covering \cup {"rg"} => Complete(job[v].at)'
       /\ job[v].pc \in Covering \ {"cover"} => \A dir \in job[v].data : Complete(dir)'
  BY <1>1, <1>3, <1>9
<1>11. job[v].pc = "lines" => IsFull(job[v].at)'
  <2>1. job[v].pc = "lines" => job[v].at \in Paths /\ IsFull(job[v].at)
    BY <1>2 DEF Sound, ShapeInv, Shape
  <2>2. QED BY <1>1, <1>3, <2>1
<1>12. QED BY <1>1, <1>5, <1>6, <1>7, <1>8, <1>10, <1>11 DEF Sound

\* The same for the call that writes.
LEMMA OwnFiles ==
  ASSUME TypeOK, ShapeInv, Calm, NEW w \in Workers, FileSteps(w), ~Error(w), broken' = {},
         tree' = tree
  PROVE  Sound(w)'
<1>0. /\ job[w] \in Jobs /\ Shape(w) /\ Sound(w) /\ Leaves \subseteq Paths
  BY PathFacts DEF TypeOK, ShapeInv, Calm
<1>1. \A p \in Paths : IsFull(p) => IsFull(p)'
  BY FilesStay
<1>2. \A dir : Complete(dir) => Complete(dir)'
  BY <1>0, <1>1 DEF Complete
<1>3. /\ \/ /\ disk'[Target(w)].target = disk[Target(w)].target
            /\ WriteFile(w) \/ MarkWrite(w) => disk'[Target(w)].tmp = NewContent(w)
            /\ ~ (ReplaceFile(w) \/ MarkReplace(w))
         \/ /\ job[w].pc \in {"replace", "coverreplace"}
            /\ disk'[Target(w)].target = NewContent(w)
  BY FileStepDisk
<1>4. CASE Fetch(w) \/ WriteFile(w)
  <2>1. \/ /\ Fetch(w) /\ job[w].pc = "fetch"
           /\ job'[w] = [[job[w] EXCEPT !.pc = "write"] EXCEPT !.handle = "tmp"]
        \/ /\ WriteFile(w) /\ job[w].pc = "write"
           /\ job'[w] = [job[w] EXCEPT !.pc = "replace"]
    BY <1>4, JobOf DEF Fetch, OpenTmp, WriteFile, WriteTmp
  <2>2. job[w].pc \in Fetching /\ (job[w].pc = "write" => job[w].handle = "tmp")
    BY <1>0, <2>1 DEF Fetching, Sound, Writing
  <2>3. /\ job'[w].handle = "tmp" /\ job'[w].todo = job[w].todo /\ job'[w].at = job[w].at
        /\ job'[w].tool = job[w].tool /\ job'[w].pc \in {"write", "replace"}
        /\ job'[w].pc = "replace" => WriteFile(w)
    <3>1. CASE job'[w] = [[job[w] EXCEPT !.pc = "write"] EXCEPT !.handle = "tmp"]
      BY <1>0, <3>1 DEF Jobs
    <3>2. CASE WriteFile(w) /\ job[w].pc = "write" /\ job'[w] = [job[w] EXCEPT !.pc = "replace"]
      BY <1>0, <2>2, <3>2 DEF Jobs
    <3>3. QED BY <2>1, <3>1, <3>2
  <2>4. job'[w].pc = "replace" => disk'[Min(job[w].todo)].tmp = Full({})
    <3>1. WriteFile(w) => job[w].pc = "write"
      BY DEF WriteFile
    <3>2. QED BY <1>3, <2>2, <2>3, <3>1 DEF Target, NewContent, Fetching
  <2>5. job[w].tool = "search" =>
          \A p \in Leaves \ job[w].todo : job[w].at \in Above[p] /\ ShownText(p) => IsFull(p)'
    BY <1>0, <1>1, <2>2 DEF Sound
  <2>6. QED BY <2>3, <2>4, <2>5 DEF Sound, Writing, Fetching, Covering
<1>5. CASE MarkOpen(w) \/ MarkWrite(w)
  <2>1. \/ /\ MarkOpen(w) /\ job[w].pc = "coveropen"
           /\ job'[w] = [[job[w] EXCEPT !.pc = "coverwrite"] EXCEPT !.handle = "tmp"]
        \/ /\ MarkWrite(w) /\ job[w].pc = "coverwrite"
           /\ job'[w] = [job[w] EXCEPT !.pc = "coverreplace"]
    BY <1>5, JobOf DEF MarkOpen, OpenTmp, MarkWrite, WriteTmp
  <2>2. /\ job[w].pc \in Covering \ {"cover"} /\ job[w].pc \notin Fetching
        /\ job[w].pc = "coverwrite" => job[w].handle = "tmp"
    BY <1>0, <2>1 DEF Covering, Fetching, Sound, Writing
  <2>3. /\ job'[w].handle = "tmp" /\ job'[w].data = job[w].data /\ job'[w].at = job[w].at
        /\ job'[w].pc \in {"coverwrite", "coverreplace"}
        /\ job'[w].pc = "coverreplace" => MarkWrite(w)
    <3>1. CASE job'[w] = [[job[w] EXCEPT !.pc = "coverwrite"] EXCEPT !.handle = "tmp"]
      BY <1>0, <3>1 DEF Jobs
    <3>2. CASE MarkWrite(w) /\ job[w].pc = "coverwrite" /\ job'[w] = [job[w] EXCEPT !.pc = "coverreplace"]
      BY <1>0, <2>2, <3>2 DEF Jobs
    <3>3. QED BY <2>1, <3>1, <3>2
  <2>4. job'[w].pc = "coverreplace" => disk'[Coverage].tmp = Full(job[w].data)
    <3>1. MarkWrite(w) => job[w].pc = "coverwrite"
      BY DEF MarkWrite
    <3>2. QED BY <1>3, <2>2, <2>3, <3>1 DEF Target, NewContent
  <2>5. Complete(job[w].at) /\ \A dir \in job[w].data : Complete(dir)
    BY <1>0, <2>2 DEF Sound
  <2>6. Complete(job[w].at)' /\ \A dir \in job'[w].data : Complete(dir)'
    BY <1>2, <2>3, <2>5
  <2>7. QED BY <2>3, <2>4, <2>6 DEF Sound, Writing, Fetching, Covering
<1>6. CASE ReplaceFile(w)
  <2> DEFINE f == Min(job[w].todo)
             rest == job[w].todo \ {f}
             stage == IF rest # {} THEN "fetch" ELSE IF job[w].tool = "read" THEN "lines" ELSE "cover"
  <2>1. job[w].pc = "replace" /\ f \in job[w].todo /\ f \in Leaves
    BY <1>6, StepFile DEF ReplaceFile, Fetching
  <2>2. job'[w] = [[job[w] EXCEPT !.todo = rest, !.pc = stage] EXCEPT !.handle = "none"]
    BY <1>6 DEF ReplaceFile, Replace
  <2>3. disk'[f].target = Full({})
    BY <1>3, <1>6, <2>1 DEF Target, NewContent, Fetching
  <2>4. disk'[f].target.st = "full"
    BY <2>3 DEF Full
  <2>5. job[w].tool = "search" =>
          \A p \in Leaves \ rest : job[w].at \in Above[p] /\ ShownText(p) => disk'[p].target.st = "full"
    <3>1. job[w].tool = "search" =>
            \A p \in Leaves \ job[w].todo : job[w].at \in Above[p] /\ ShownText(p) => IsFull(p)'
      BY <1>0, <1>1, <2>1 DEF Sound, Fetching
    <3>2. \A p \in Leaves \ rest : p = f \/ p \in Leaves \ job[w].todo
      OBVIOUS
    <3> HIDE DEF f, rest, stage
    <3>3. QED BY <2>4, <3>1, <3>2 DEF IsFull
  <2>6. /\ stage \in {"fetch", "lines", "cover"}
        /\ stage = "cover" => rest = {} /\ job[w].tool # "read"
        /\ stage = "lines" => job[w].tool = "read"
    OBVIOUS
  <2>7. job[w].tool \in {"read", "search"} /\ (job[w].tool = "read" => job[w].todo = {job[w].at})
    BY <1>0, <2>1 DEF Shape, Fetching
  <2>8. stage = "lines" => disk'[job[w].at].target.st = "full"
    <3>1. stage = "lines" => f = job[w].at
      BY <2>1, <2>6, <2>7
    <3>2. QED BY <2>4, <3>1
  <2> HIDE DEF f, rest, stage
  <2>9. /\ job'[w].pc = stage /\ job'[w].todo = rest /\ job'[w].at = job[w].at /\ job'[w].tool = job[w].tool
    BY <1>0, <2>2 DEF Jobs
  <2>10. stage = "cover" => Complete(job[w].at)'
    BY <2>5, <2>6, <2>7, <2>9 DEF Complete, IsFull
  <2>11. stage = "lines" => IsFull(job[w].at)'
    BY <2>8, <2>9 DEF IsFull
  <2>12. job[w].tool = "search" =>
           \A p \in Leaves \ rest : job[w].at \in Above[p] /\ ShownText(p) => IsFull(p)'
    BY <2>5 DEF IsFull
  <2>13. QED BY <2>6, <2>9, <2>10, <2>11, <2>12 DEF Sound, Writing, Fetching, Covering
<1>7. CASE MarkReplace(w)
  <2>1. job[w].pc = "coverreplace"
    BY <1>7 DEF MarkReplace
  <2>2. job'[w] = [[job[w] EXCEPT !.pc = "rg", !.data = {}, !.lock = 0] EXCEPT !.handle = "none"]
    BY <1>7 DEF MarkReplace, Replace
  <2>3. job'[w].pc = "rg" /\ job'[w].at = job[w].at
    BY <1>0, <2>2 DEF Jobs
  <2>4. Complete(job[w].at)
    BY <1>0, <2>1 DEF Sound, Covering
  <2>5. Complete(job[w].at)'
    BY <1>2, <2>3, <2>4
  <2>6. QED BY <2>3, <2>5 DEF Sound, Writing, Fetching, Covering
<1>8. QED BY <1>4, <1>5, <1>6, <1>7 DEF FileSteps

\* A directory that counts as covered has all its text files in the cache, while
\* nobody removes them.
LEMMA CoveredComplete ==
  ASSUME TypeOK, Calm, NEW w \in Workers, job[w].pc \in Calling
  PROVE  /\ \A dir \in disk[Coverage].target.val : Complete(dir)
         /\ \A dir \in Paths \cup {Root} : is_prefix_covered(dir) => Complete(dir)
<1>1. \A v \in Workers : ~Removing(v)
  <2>1. ~Removing(w)
    BY DEF Removing, Calling
  <2>2. QED BY <2>1 DEF Calm, Alone
<1>2. \A dir \in disk[Coverage].target.val : Complete(dir)
  BY <1>1 DEF Calm, Covered
<1>3. ASSUME NEW dir \in Paths \cup {Root}, is_prefix_covered(dir)
      PROVE  Complete(dir)
  <2>1. PICK c \in disk[Coverage].target.val : dir = c \/ (dir \in Paths /\ c \in Above[dir])
    BY <1>3 DEF is_prefix_covered
  <2>2. Complete(c)
    BY <1>2, <2>1
  <2>3. CASE dir = c
    BY <2>2, <2>3
  <2>4. CASE dir \in Paths /\ c \in Above[dir]
    <3>1. ASSUME NEW p \in Leaves, dir \in Above[p], ShownText(p)
          PROVE  IsFull(p)
      <4>1. c \in Above[p]
        BY <2>4, <3>1, AboveTransitive, PathFacts
      <4>2. QED BY <2>2, <3>1, <4>1 DEF Complete
    <3>2. QED BY <3>1 DEF Complete
  <2>5. QED BY <2>1, <2>3, <2>4
<1>4. QED BY <1>2, <1>3

\* Sound says nothing of a worker outside the stages that use the cache.
LEMMA SoundElsewhere ==
  ASSUME NEW w \in Workers,
         job'[w].pc \in {"idle", "down", "cleanup", "call", "failed", "answered", "lock"}
  PROVE  Sound(w)'
BY DEF Sound, Writing, Fetching, Covering

\* What the call that moves relies on becomes, or stays, true.
LEMMA OwnSound ==
  ASSUME TypeOK, ShapeInv, Calm, NEW w \in Workers, Step(w), ~Cleanup(w), broken' = {}
  PROVE  Sound(w)'
<1>0. /\ job[w] \in Jobs /\ tree' = tree /\ Shape(w) /\ Sound(w) /\ job[w].at \in Paths \cup {Root}
      /\ Leaves \subseteq Paths
  BY TreeStays, PathFacts DEF TypeOK, Jobs, ShapeInv, Calm
<1>1. /\ \A p \in Paths : IsFull(p) => IsFull(p)'
      /\ \A dir : Complete(dir) => Complete(dir)'
  BY CacheStays
<1>2. CASE Begins(w) \/ Continue(w)
  <2>1. job'[w].pc \in {"idle", "call", "failed"}
    BY <1>2, BeginFields, ContinueFields DEF Begins, ListFiles, SearchFile, ReadFile, Search
  <2>2. QED BY <2>1, SoundElsewhere
<1>3. CASE GiveUp(w) \/ Crash(w) \/ Start(w)
  BY <1>3, FreeFields, SoundElsewhere
<1>4. CASE Error(w)
  BY <1>4, ErrorFields, SoundElsewhere
<1>5. CASE (Listed(w) \/ ReadLines(w) \/ Ripgrep(w)) /\ ~Error(w)
  BY <1>5, Answers, AnswerFields, SoundElsewhere
<1>6. ASSUME Complete(job[w].at), job'[w].pc = "rg", job'[w].at = job[w].at
      PROVE  Sound(w)'
  <2>1. Complete(job[w].at)'
    BY <1>1, <1>6
  <2>2. QED BY <1>6, <2>1 DEF Sound, Writing, Fetching, Covering
<1>7. CASE SearchText(w) /\ ~Error(w)
  <2>1. job[w].pc \in Calling
    BY <1>7, StageFields
  <2>2. CASE is_prefix_covered(job[w].at)
    <3>1. job'[w] = [job[w] EXCEPT !.pc = "rg"]
      BY <1>7, <2>2, JobOf DEF SearchText
    <3>2. job'[w].pc = "rg" /\ job'[w].at = job[w].at
      BY <1>0, <3>1 DEF Jobs
    <3>3. Complete(job[w].at)
      BY <1>0, <2>1, <2>2, CoveredComplete
    <3>4. QED BY <1>6, <3>2, <3>3
  <2>3. CASE ~is_prefix_covered(job[w].at)
    <3>1. job'[w] = [job[w] EXCEPT !.pc = "lock", !.lock = locks]
      BY <1>7, <2>3, JobOf DEF SearchText
    <3>2. job'[w].pc = "lock"
      BY <1>0, <3>1 DEF Jobs
    <3>3. QED BY <3>2, SoundElsewhere
  <2>4. QED BY <2>2, <2>3
<1>8. CASE PrefixLock(w) /\ ~Error(w)
  <2>1. job[w].pc \in Calling
    BY <1>8, StageFields
  <2>2. CASE is_prefix_covered(job[w].at)
    <3>1. job'[w] = [job[w] EXCEPT !.pc = "rg", !.lock = 0]
      BY <1>8, <2>2, JobOf DEF PrefixLock
    <3>2. job'[w].pc = "rg" /\ job'[w].at = job[w].at
      BY <1>0, <3>1 DEF Jobs
    <3>3. Complete(job[w].at)
      BY <1>0, <2>1, <2>2, CoveredComplete
    <3>4. QED BY <1>6, <3>2, <3>3
  <2>3. CASE ~is_prefix_covered(job[w].at)
    <3> DEFINE rows == text_files_under_prefix(job[w].at)
               stage == IF rows = {} THEN "cover" ELSE "fetch"
    <3>1. job'[w] = [job[w] EXCEPT !.pc = stage, !.todo = rows]
      BY <1>8, <2>3, JobOf DEF PrefixLock
    <3>2. rows = {p \in Leaves : job[w].at \in Above[p] /\ ShownText(p)}
      BY TextFilesUnder
    <3>3. (stage = "cover" /\ rows = {}) \/ stage = "fetch"
      OBVIOUS
    <3> HIDE DEF rows, stage
    <3>4. job'[w].pc = stage /\ job'[w].todo = rows /\ job'[w].at = job[w].at
      BY <1>0, <3>1 DEF Jobs
    <3>5. CASE stage = "cover" /\ rows = {}
      <4>1. Complete(job[w].at)'
        BY <1>0, <3>2, <3>4, <3>5 DEF Complete
      <4>2. QED BY <3>4, <3>5, <4>1 DEF Sound, Writing, Fetching, Covering
    <3>6. CASE stage = "fetch"
      <4>1. \A p \in Leaves \ rows : ~ (job[w].at \in Above[p] /\ ShownText(p))
        BY <3>2
      <4>2. QED BY <1>0, <3>4, <3>6, <4>1 DEF Sound, Writing, Fetching, Covering
    <3>7. QED BY <3>3, <3>5, <3>6
  <2>4. QED BY <2>2, <2>3
<1>9. CASE MarkRead(w) /\ ~Error(w)
  <2> DEFINE d == CoverageWith(job[w].at)
  <2>1. job'[w] = [job[w] EXCEPT !.pc = "coveropen", !.data = d]
    BY <1>9, JobOf DEF MarkRead
  <2>2. job[w].pc = "cover"
    BY <1>9 DEF MarkRead
  <2>3. \A dir \in d : Complete(dir)
    <3>1. job[w].pc \in Calling /\ Complete(job[w].at)
      BY <1>0, <2>2 DEF Sound, Covering, Calling, CacheFree, Pcs
    <3>2. \A dir \in disk[Coverage].target.val : Complete(dir)
      BY <3>1, CoveredComplete
    <3>3. QED BY <3>1, <3>2 DEF CoverageWith
  <2>4. \A dir \in d : Complete(dir)'
    BY <1>1, <2>3
  <2>5. job[w].at \in d
    BY DEF CoverageWith
  <2> HIDE DEF d
  <2>6. job'[w].pc = "coveropen" /\ job'[w].data = d /\ job'[w].at = job[w].at
    BY <1>0, <2>1 DEF Jobs
  <2>7. Complete(job[w].at)'
    BY <2>4, <2>5, <2>6
  <2>8. \A dir \in job'[w].data : Complete(dir)'
    BY <2>4, <2>6
  <2>9. QED BY <2>6, <2>7, <2>8 DEF Sound, Writing, Fetching, Covering
<1>10. CASE EnsureFile(w) /\ ~Error(w)
  <2>1. \/ disk[job[w].at].target.st = "full" /\ job'[w] = [job[w] EXCEPT !.pc = "lines"]
        \/ job'[w] = [job[w] EXCEPT !.pc = "fetch", !.todo = {job[w].at}]
    BY <1>10, JobOf DEF EnsureFile
  <2>2. job[w].tool = "read" /\ disk' = disk
    BY <1>10 DEF EnsureFile
  <2>3. /\ \/ IsFull(job[w].at) /\ job'[w].pc = "lines"
           \/ job'[w].pc = "fetch"
        /\ job'[w].tool = "read" /\ job'[w].at = job[w].at
    BY <1>0, <2>1, <2>2 DEF Jobs, IsFull
  <2>4. IsFull(job[w].at) => IsFull(job[w].at)'
    BY <2>2, <2>3 DEF IsFull
  <2>5. QED BY <2>3, <2>4 DEF Sound, Writing, Fetching, Covering
<1>11. CASE FileSteps(w) /\ ~Error(w)
  BY <1>0, <1>11, OwnFiles
<1>12. FetchFails(w) => Error(w)
  BY DEF FetchFails
<1>13. QED BY <1>2, <1>3, <1>4, <1>5, <1>7, <1>8, <1>9, <1>10, <1>11, <1>12
       DEF Step, Begins, FileSteps

\* A worker is in the middle of writing a file only after a step that writes it.
LEMMA WritingStep ==
  ASSUME TypeOK, ShapeInv, NEW w \in Workers, Step(w), ~Cleanup(w), job'[w].pc \in Writing
  PROVE  FileSteps(w) /\ FileOf(w)' = Target(w)
<1>0. job[w] \in Jobs /\ job'[w].pc \notin {"idle", "down", "cleanup", "call", "failed", "answered"}
  BY DEF TypeOK, Writing
<1>1. CASE Begins(w) \/ Continue(w)
  <2>1. job'[w].pc \in {"idle", "call", "failed"}
    BY <1>1, BeginFields, ContinueFields DEF Begins, ListFiles, SearchFile, ReadFile, Search
  <2>2. QED BY <1>0, <2>1
<1>2. CASE GiveUp(w) \/ Crash(w) \/ Start(w)
  <2>1. job'[w].pc \in {"idle", "down", "cleanup"}
    BY <1>2, FreeFields
  <2>2. QED BY <1>0, <2>1
<1>3. ~Error(w)
  BY <1>0, ErrorFields
<1>4. CASE Listed(w) \/ ReadLines(w) \/ Ripgrep(w)
  <2>1. job'[w].pc = "answered"
    BY <1>3, <1>4, Answers, AnswerFields
  <2>2. QED BY <1>0, <2>1
<1>5. CASE SearchText(w) \/ PrefixLock(w) \/ MarkRead(w) \/ EnsureFile(w)
  <2> DEFINE rows == text_files_under_prefix(job[w].at)
             d == CoverageWith(job[w].at)
  <2>1. \/ job'[w] = [job[w] EXCEPT !.pc = "rg"]
        \/ job'[w] = [job[w] EXCEPT !.pc = "lock", !.lock = locks]
        \/ job'[w] = [job[w] EXCEPT !.pc = "rg", !.lock = 0]
        \/ job'[w] = [job[w] EXCEPT !.pc = IF rows = {} THEN "cover" ELSE "fetch", !.todo = rows]
        \/ job'[w] = [job[w] EXCEPT !.pc = "coveropen", !.data = d]
        \/ job'[w] = [job[w] EXCEPT !.pc = "lines"]
        \/ job'[w] = [job[w] EXCEPT !.pc = "fetch", !.todo = {job[w].at}]
    <3>1. CASE SearchText(w)
      BY <1>3, <3>1, JobOf DEF SearchText
    <3>2. CASE PrefixLock(w)
      BY <1>3, <3>2, JobOf DEF PrefixLock
    <3>3. CASE MarkRead(w)
      BY <1>3, <3>3, JobOf DEF MarkRead
    <3>4. CASE EnsureFile(w)
      BY <1>3, <3>4, JobOf DEF EnsureFile
    <3>5. QED BY <1>5, <3>1, <3>2, <3>3, <3>4
  <2> HIDE DEF rows, d
  <2>2. job'[w].pc \in {"rg", "lock", "cover", "fetch", "coveropen", "lines"}
    BY <1>0, <2>1 DEF Jobs
  <2>3. QED BY <2>2 DEF Writing
<1>6. CASE FileSteps(w)
  <2>1. CASE Fetch(w) \/ WriteFile(w)
    <3>1. \/ /\ job[w].pc = "fetch"
             /\ job'[w] = [[job[w] EXCEPT !.pc = "write"] EXCEPT !.handle = "tmp"]
          \/ /\ job[w].pc = "write"
             /\ job'[w] = [job[w] EXCEPT !.pc = "replace"]
      BY <2>1, JobOf DEF Fetch, OpenTmp, WriteFile, WriteTmp
    <3>2. job[w].pc \in Fetching /\ job'[w].pc \in {"write", "replace"} /\ job'[w].todo = job[w].todo
      BY <1>0, <3>1 DEF Jobs, Fetching
    <3>3. QED BY <1>6, <3>2 DEF FileOf, Target
  <2>2. CASE MarkOpen(w) \/ MarkWrite(w)
    <3>1. \/ /\ job[w].pc = "coveropen"
             /\ job'[w] = [[job[w] EXCEPT !.pc = "coverwrite"] EXCEPT !.handle = "tmp"]
          \/ /\ job[w].pc = "coverwrite"
             /\ job'[w] = [job[w] EXCEPT !.pc = "coverreplace"]
      BY <2>2, JobOf DEF MarkOpen, OpenTmp, MarkWrite, WriteTmp
    <3>2. job[w].pc \notin Fetching /\ job'[w].pc \in {"coverwrite", "coverreplace"}
      BY <1>0, <3>1 DEF Jobs, Fetching
    <3>3. QED BY <1>6, <3>2 DEF FileOf, Target
  <2>3. CASE ReplaceFile(w)
    <3> DEFINE rest == job[w].todo \ {Min(job[w].todo)}
               stage == IF rest # {} THEN "fetch" ELSE IF job[w].tool = "read" THEN "lines" ELSE "cover"
    <3>1. job'[w] = [[job[w] EXCEPT !.todo = rest, !.pc = stage] EXCEPT !.handle = "none"]
      BY <1>3, <2>3 DEF ReplaceFile, Replace
    <3>2. stage \in {"fetch", "lines", "cover"}
      OBVIOUS
    <3> HIDE DEF rest, stage
    <3>3. job'[w].pc = stage
      BY <1>0, <3>1 DEF Jobs
    <3>4. QED BY <3>2, <3>3 DEF Writing
  <2>4. CASE MarkReplace(w)
    <3>1. job'[w] = [[job[w] EXCEPT !.pc = "rg", !.data = {}, !.lock = 0] EXCEPT !.handle = "none"]
      BY <1>3, <2>4 DEF MarkReplace, Replace
    <3>2. job'[w].pc = "rg"
      BY <1>0, <3>1 DEF Jobs
    <3>3. QED BY <3>2 DEF Writing
  <2>5. QED BY <1>6, <2>1, <2>2, <2>3, <2>4 DEF FileSteps
<1>7. FetchFails(w) => Error(w)
  BY DEF FetchFails
<1>8. QED BY <1>1, <1>2, <1>3, <1>4, <1>5, <1>6, <1>7 DEF Step, Begins, FileSteps

\* No two workers write one file.
LEMMA ApartStep ==
  ASSUME TypeOK, ShapeInv, Calm, NEW w \in Workers, Step(w), ~Cleanup(w), broken' = {}
  PROVE  Apart'
<1>1. \A v \in Workers \ {w} : job'[v] = job[v]
  BY OthersStay
<1>2. \A v \in Workers \ {w} : FileOf(v)' = FileOf(v)
  BY <1>1 DEF FileOf
<1>3. ASSUME NEW v \in Workers \ {w}, job[v].pc \in Writing, job'[w].pc \in Writing
      PROVE  FileOf(v)' # FileOf(w)'
  <2>1. FileSteps(w) /\ FileOf(w)' = Target(w)
    BY <1>3, WritingStep
  <2>2. FileOf(v) # Target(w)
    BY <1>3, <2>1, FileStepDisk
  <2>3. QED BY <1>2, <2>1, <2>2
<1>4. ASSUME NEW v \in Workers, NEW u \in Workers, v # u, job'[v].pc \in Writing, job'[u].pc \in Writing
      PROVE  FileOf(v)' # FileOf(u)'
  <2>1. CASE v = w
    BY <1>1, <1>3, <1>4, <2>1
  <2>2. CASE u = w
    BY <1>1, <1>3, <1>4, <2>2
  <2>3. CASE v # w /\ u # w
    <3>1. job[v].pc \in Writing /\ job[u].pc \in Writing
      BY <1>1, <1>4, <2>3
    <3>2. FileOf(v) # FileOf(u)
      BY <1>4, <3>1 DEF Calm, Apart
    <3>3. QED BY <1>2, <2>3, <3>2
  <2>4. QED BY <2>1, <2>2, <2>3
<1>5. QED BY <1>4 DEF Apart

\* Whatever a step other than of a cleanup does, the cache stays sound.
LEMMA CalmStep ==
  ASSUME TypeOK, ShapeInv, Calm, NEW w \in Workers, Step(w), ~Cleanup(w), broken' = {}
  PROVE  Calm'
<1>1. \A v \in Workers \ {w} : job'[v] = job[v]
  BY OthersStay
<1>2. /\ \A dir : Complete(dir) => Complete(dir)'
      /\ \/ disk'[Coverage].target = disk[Coverage].target
         \/ job[w].pc = "coverreplace" /\ disk'[Coverage].target = Full(job[w].data)
      /\ NotTorn'
      /\ disk' = disk \/ job[w].pc \in Calling
  BY CacheStays
<1>3. /\ ~Removing(w) /\ ~Removing(w)'
      /\ job'[w].pc \in Calling => job[w].pc \in Calling \/ \A v \in Workers : job[v].pc # "cleanup"
  BY OwnMoves
<1>4. \A v \in Workers : Removing(v)' => v # w /\ Removing(v)
  BY <1>1, <1>3 DEF Removing
<1>5. ASSUME NEW v \in Workers, Removing(v)'
      PROVE  /\ \A u \in Workers : v # u => job'[u].pc \notin Calling /\ ~Removing(u)'
             /\ disk' = disk
  <2>1. v # w /\ Removing(v)
    BY <1>4, <1>5
  <2>2. \A u \in Workers : v # u => job[u].pc \notin Calling /\ ~Removing(u)
    BY <2>1 DEF Calm, Alone
  <2>3. job[w].pc \notin Calling /\ disk' = disk
    BY <1>2, <2>1, <2>2
  <2>4. job'[w].pc \notin Calling
    BY <1>3, <2>1, <2>3 DEF Removing
  <2>5. ASSUME NEW u \in Workers, v # u
        PROVE  job'[u].pc \notin Calling /\ ~Removing(u)'
    <3>1. CASE u = w
      BY <1>3, <2>4, <3>1
    <3>2. CASE u # w
      <4>1. job'[u].pc \notin Calling
        BY <1>1, <2>2, <2>5, <3>2
      <4>2. ~Removing(u)'
        BY <1>4, <2>2, <2>5
      <4>3. QED BY <4>1, <4>2
    <3>3. QED BY <3>1, <3>2
  <2>6. QED BY <2>3, <2>5
<1>6. Alone'
  BY <1>5 DEF Alone
<1>7. Removed'
  <2>1. ASSUME NEW v \in Workers, Removing(v)'
        PROVE  /\ 1 \notin job'[v].q => \A p \in Paths : disk'[p].target = Absent
               /\ 2 \notin job'[v].q => disk'[Coverage].target = Absent
    <3>1. v # w /\ Removing(v) /\ disk' = disk /\ job'[v] = job[v]
      BY <1>1, <1>4, <1>5, <2>1
    <3>2. QED BY <3>1 DEF Calm, Removed
  <2>2. QED BY <2>1 DEF Removed
<1>8. Covered'
  <2>1. CASE \E v \in Workers : Removing(v) /\ 1 \notin job[v].q
    <3>1. PICK v \in Workers : Removing(v) /\ 1 \notin job[v].q
      BY <2>1
    <3>2. job'[v] = job[v]
      BY <1>1, <1>3, <3>1
    <3>3. Removing(v)' /\ 1 \notin job'[v].q
      BY <3>1, <3>2 DEF Removing
    <3>4. QED BY <3>3 DEF Covered
  <2>2. CASE \A dir \in disk[Coverage].target.val : Complete(dir)
    <3>1. \A dir \in disk[Coverage].target.val : Complete(dir)'
      BY <1>2, <2>2
    <3>2. CASE disk'[Coverage].target = disk[Coverage].target
      <4>1. \A dir \in disk'[Coverage].target.val : Complete(dir)'
        BY <3>1, <3>2
      <4>2. QED BY <4>1 DEF Covered
    <3>3. CASE job[w].pc = "coverreplace" /\ disk'[Coverage].target = Full(job[w].data)
      <4>1. disk'[Coverage].target.val = job[w].data
        BY <3>3 DEF Full
      <4>2. \A dir \in job[w].data : Complete(dir)
        BY <3>3 DEF Calm, Sound, Covering
      <4>3. \A dir \in disk'[Coverage].target.val : Complete(dir)'
        BY <1>2, <4>1, <4>2
      <4>4. QED BY <4>3 DEF Covered
    <3>4. QED BY <1>2, <3>2, <3>3
  <2>3. QED BY <2>1, <2>2 DEF Calm, Covered
<1>9. Apart'
  BY ApartStep
<1>10. \A v \in Workers : Sound(v)'
  BY OwnSound, OthersSound
<1>11. QED BY <1>2, <1>6, <1>7, <1>8, <1>9, <1>10 DEF Calm

\* A cleanup that runs beside no call leaves the files of the directory that it has
\* not removed yet, and coverage.json says nothing of those it has, once it is gone.
LEMMA CalmCleanup ==
  ASSUME TypeOK, ShapeInv, Calm, NEW w \in Workers, Cleanup(w), broken' = {}
  PROVE  Calm'
<1>0. /\ job[w] \in Jobs /\ Shape(w) /\ job[w].pc = "cleanup" /\ tree' = tree
      /\ disk \in [Files -> [tmp : Contents, target : Contents]]
  BY DEF TypeOK, ShapeInv, Cleanup
<1>1. job[w].q \subseteq {1, 2, 3} /\ \A p \in Paths : p \in Files /\ p # Coverage
  BY <1>0, PathFacts DEF Shape, Files
<1>2. ASSUME NEW v \in Workers \ {w}
      PROVE  job'[v] = job[v] /\ job[v].pc \in CacheFree
  <2>1. job[v].pc \in CacheFree
    BY DEF Cleanup, Active
  <2>2. job'[v] = job[v]
    BY OthersStay DEF Step
  <2>3. QED BY <2>1, <2>2
<1>3. PICK part \in job[w].q :
        LET gone == CASE part = 1 -> Paths [] part = 2 -> {Coverage} [] OTHER -> {}
            rest == job[w].q \ {part}
        IN  /\ disk' = [f \in Files |-> IF f \in gone THEN [tmp |-> Absent, target |-> Absent]
                                        ELSE disk[f]]
            /\ job'[w] = IF rest = {} THEN NoJob ELSE [job[w] EXCEPT !.q = rest]
  BY DEF Cleanup
<1> DEFINE rest == job[w].q \ {part}
<1>4. /\ \A f \in Files : disk'[f] = disk[f] \/ disk'[f].target = Absent
      /\ part = 1 => \A p \in Paths : disk'[p].target = Absent
      /\ part # 1 => \A p \in Paths : disk'[p] = disk[p]
      /\ part = 2 => disk'[Coverage].target = Absent
  <2> DEFINE gone == CASE part = 1 -> Paths [] part = 2 -> {Coverage} [] OTHER -> {}
  <2>1. /\ part = 1 => gone = Paths
        /\ part = 2 => gone = {Coverage}
        /\ part # 1 => \A p \in Paths : p \notin gone
    BY <1>1
  <2>2. disk' = [f \in Files |-> IF f \in gone THEN [tmp |-> Absent, target |-> Absent] ELSE disk[f]]
    BY <1>3
  <2> HIDE DEF gone
  <2>3. Coverage \in Files
    BY DEF Files
  <2>4. QED BY <1>1, <2>1, <2>2, <2>3
<1>5. job'[w] = IF rest = {} THEN NoJob ELSE [job[w] EXCEPT !.q = rest]
  BY <1>3
<1>6. /\ rest \subseteq {1, 2, 3}
      /\ \A i : i \notin rest => i = part \/ i \notin job[w].q
      /\ \A i \in rest : i # part /\ i \in job[w].q
  BY <1>1, <1>3
<1> HIDE DEF rest
<1>7. /\ rest = {} => job'[w].pc = "idle"
      /\ rest # {} => job'[w].pc = "cleanup" /\ job'[w].q = rest
  <2>1. CASE rest = {}
    BY <1>5, <2>1 DEF NoJob
  <2>2. CASE rest # {}
    BY <1>0, <1>5, <2>2 DEF Jobs
  <2>3. QED BY <2>1, <2>2
<1>8. \A v \in Workers : job'[v].pc \in {"idle", "down", "cleanup", "failed", "answered"}
  BY <1>2, <1>7 DEF CacheFree
<1>9. \A v \in Workers : (v # w => job[v].pc # "cleanup" /\ job'[v].pc # "cleanup")
  BY <1>2 DEF CacheFree
<1>10. \A i \in {1, 2} : i \notin rest =>
         i = part \/ (i \notin job[w].q /\ Removing(w))
  BY <1>0, <1>6 DEF Removing
<1>11. /\ 1 \notin rest => \A p \in Paths : disk'[p].target = Absent
       /\ 2 \notin rest => disk'[Coverage].target = Absent
  <2>1. Removing(w) => /\ 1 \notin job[w].q => \A p \in Paths : disk[p].target = Absent
                       /\ 2 \notin job[w].q => disk[Coverage].target = Absent
    BY DEF Calm, Removed
  <2>2. Coverage \in Files
    BY DEF Files
  <2>3. 1 \notin rest => \A p \in Paths : disk'[p].target = Absent
    BY <1>1, <1>4, <1>10, <2>1
  <2>4. 2 \notin rest => disk'[Coverage].target = Absent
    BY <1>4, <1>10, <2>1, <2>2
  <2>5. QED BY <2>3, <2>4
<1>12. NotTorn'
  <2>1. \A f \in Files : disk[f].target.st # "torn"
    BY DEF Calm, NotTorn
  <2>2. \A f \in Files : disk'[f].target.st # "torn"
    BY <1>4, <2>1 DEF Absent
  <2>3. QED BY <2>2 DEF NotTorn
<1>13. Removed'
  <2>1. \A v \in Workers : Removing(v)' => v = w /\ job'[w].q = rest
    BY <1>7, <1>9 DEF Removing
  <2>2. QED BY <1>11, <2>1 DEF Removed
<1>14. Alone' /\ Apart'
  <2>1. \A v \in Workers : job'[v].pc \notin Calling /\ job'[v].pc \notin Writing
    BY <1>8 DEF Calling, CacheFree, Writing
  <2>2. \A v \in Workers : Removing(v)' => v = w
    BY <1>9 DEF Removing
  <2>3. QED BY <2>1, <2>2 DEF Alone, Apart
<1>15. Covered'
  <2>1. CASE 2 \notin rest
    <3>1. disk'[Coverage].target.val = {}
      BY <1>11, <2>1 DEF Absent
    <3>2. QED BY <3>1 DEF Covered
  <2>2. CASE 2 \in rest /\ 1 \notin rest
    <3>1. job'[w].pc = "cleanup" /\ job'[w].q = rest
      BY <1>7, <2>2
    <3>2. Removing(w)' /\ 1 \notin job'[w].q
      BY <2>2, <3>1 DEF Removing
    <3>3. QED BY <3>2 DEF Covered
  <2>3. CASE 2 \in rest /\ 1 \in rest
    <3>1. part # 1 /\ 1 \in job[w].q
      BY <1>6, <2>3
    <3>2. ~ \E v \in Workers : Removing(v) /\ 1 \notin job[v].q
      BY <1>9, <3>1 DEF Removing
    <3>3. \A dir \in disk[Coverage].target.val : Complete(dir)
      BY <3>2 DEF Calm, Covered
    <3>4. \A p \in Leaves : disk'[p] = disk[p]
      BY <1>4, <3>1, PathFacts
    <3>5. \A dir : Complete(dir) => Complete(dir)'
      BY <1>0, <3>4 DEF Complete, IsFull
    <3>6. \A dir \in disk'[Coverage].target.val : dir \in disk[Coverage].target.val
      <4>1. disk'[Coverage] = disk[Coverage] \/ disk'[Coverage].target = Absent
        BY <1>4 DEF Files
      <4>2. QED BY <4>1 DEF Absent
    <3>7. \A dir \in disk'[Coverage].target.val : Complete(dir)'
      BY <3>3, <3>5, <3>6
    <3>8. QED BY <3>7 DEF Covered
  <2>4. QED BY <2>1, <2>2, <2>3
<1>16. \A v \in Workers : Sound(v)'
  BY <1>8, SoundElsewhere
<1>17. QED BY <1>12, <1>13, <1>14, <1>15, <1>16 DEF Calm

\* Every step keeps the cache sound until a hazard occurs.
LEMMA CacheStep ==
  ASSUME TypeOK, ShapeInv, CacheInv, NEW w \in Workers, Step(w)
  PROVE  CacheInv'
<1>1. ASSUME broken' = {}
      PROVE  Calm'
  <2>1. Calm
    BY <1>1, TreeStays DEF CacheInv
  <2>2. QED BY <1>1, <2>1, CalmStep, CalmCleanup
<1>2. QED BY <1>1 DEF CacheInv

-----------------------------------------------------------------------------
(* What crashes leave                                                      *)

\* The processes that are up can be counted.
LEMMA UpFinite == IsFiniteSet(Up) /\ Cardinality(Up) \in Nat
<1>1. Up \in SUBSET Workers
  BY DEF Up
<1>2. QED BY <1>1, SourceToolsAssumption, FS_Subset, FS_CardinalityType

\* A process that is up stays up, unless it crashes.
LEMMA OwnUp ==
  ASSUME TypeOK, ShapeInv, NEW w \in Workers, Step(w), ~Crash(w), ~Start(w)
  PROVE  job[w].pc # "down" /\ job'[w].pc # "down"
<1>1. CASE Begins(w) \/ Continue(w)
  <2>1. job[w].pc \in {"idle", "answered"}
    BY <1>1 DEF Begins, ListFiles, SearchFile, ReadFile, Search, Begin, Continue
  <2>2. job'[w].pc \in {"idle", "call", "failed"}
    BY <1>1, BeginFields, ContinueFields DEF Begins, ListFiles, SearchFile, ReadFile, Search
  <2>3. QED BY <2>1, <2>2
<1>2. CASE GiveUp(w)
  <2>1. job[w].pc = "failed" /\ job'[w] = NoJob
    BY <1>2, JobOf DEF GiveUp
  <2>2. QED BY <2>1 DEF NoJob
<1>3. CASE Cleanup(w)
  <2>1. job[w] \in Jobs /\ job[w].pc = "cleanup"
    BY <1>3 DEF TypeOK, Cleanup
  <2>2. PICK rest : job'[w] = IF rest = {} THEN NoJob ELSE [job[w] EXCEPT !.q = rest]
    BY <1>3, CleanupJob
  <2>3. CASE rest = {}
    BY <2>1, <2>2, <2>3 DEF NoJob
  <2>4. CASE rest # {}
    BY <2>1, <2>2, <2>4 DEF Jobs
  <2>5. QED BY <2>3, <2>4
<1>4. CASE CallSteps(w) \/ FileSteps(w)
  <2>1. job[w].pc # "down"
    BY <1>4 DEF CallSteps, FileSteps, SearchText, PrefixLock, FetchFails, MarkRead, EnsureFile,
                Listed, ReadLines, Ripgrep, Fetch, WriteFile, ReplaceFile,
                MarkOpen, MarkWrite, MarkReplace
  <2>2. CASE Error(w)
    <3>1. job'[w].pc = "failed"
      BY <2>2, ErrorFields
    <3>2. QED BY <2>1, <3>1
  <2>3. CASE (Listed(w) \/ ReadLines(w) \/ Ripgrep(w)) /\ ~Error(w)
    <3>1. job'[w].pc = "answered"
      BY <2>3, Answers, AnswerFields
    <3>2. QED BY <2>1, <3>1
  <2>4. CASE ~Error(w) /\ (SearchText(w) \/ PrefixLock(w) \/ MarkRead(w) \/ EnsureFile(w) \/ FileSteps(w))
    <3>1. job'[w].pc \in Calling
      BY <2>4, StageFields
    <3>2. QED BY <2>1, <3>1 DEF Calling, CacheFree
  <2>5. FetchFails(w) => Error(w)
    BY DEF FetchFails
  <2>6. QED BY <1>4, <2>2, <2>3, <2>4, <2>5 DEF CallSteps
<1>5. QED BY <1>1, <1>2, <1>3, <1>4 DEF Step, Begins, CallSteps, FileSteps

\* Only a process that starts is counted.
LEMMA StartsGrow ==
  ASSUME TypeOK, NEW w \in Workers, Step(w)
  PROVE  /\ starts \in Nat /\ starts' \in Nat /\ starts <= starts'
         /\ ~Start(w) => starts' = starts
<1>1. starts \in Nat
  BY DEF TypeOK
<1>2. Start(w) => starts' = starts + 1
  BY DEF Start
<1>3. ~Start(w) => starts' = starts
  <2>1. Begins(w) => starts' = starts
    BY DEF Begins, ListFiles, SearchFile, ReadFile, Search, Begin
  <2>2. CallSteps(w) => starts' = starts
    BY DEF CallSteps, SearchText, PrefixLock, FetchFails, MarkRead, EnsureFile, Listed, ReadLines, Ripgrep
  <2>3. FileSteps(w) => starts' = starts
    BY DEF FileSteps, Fetch, WriteFile, ReplaceFile, MarkOpen, MarkWrite, MarkReplace
  <2>4. Continue(w) \/ GiveUp(w) \/ Crash(w) \/ Cleanup(w) => starts' = starts
    BY DEF Continue, GiveUp, Crash, Cleanup
  <2>5. QED BY <2>1, <2>2, <2>3, <2>4 DEF Step, Begins, CallSteps, FileSteps
<1>4. QED BY <1>1, <1>2, <1>3

\* There are never more processes up than were started, and once one has crashed,
\* fewer.
LEMMA CrashesGrow ==
  ASSUME TypeOK, ShapeInv, NEW w \in Workers, Step(w), Cardinality(Up) <= starts
  PROVE  /\ Cardinality(Up') <= starts'
         /\ Cardinality(Up') = starts' => Cardinality(Up) = starts /\ ~Crash(w)
<1>1. \A v \in Workers \ {w} : job'[v].pc = job[v].pc
  <2>1. ASSUME NEW v \in Workers \ {w}
        PROVE  job'[v].pc = job[v].pc
    <3>1. job[v] \in Jobs
      BY DEF TypeOK
    <3>2. CASE job'[v] = job[v]
      BY <3>2
    <3>3. ASSUME NEW h, job'[v] = [job[v] EXCEPT !.handle = h]
          PROVE  job'[v].pc = job[v].pc
      BY <3>1, <3>3 DEF Jobs
    <3>4. QED BY <3>2, <3>3, Others
  <2>2. QED BY <2>1
<1>2. IsFiniteSet(Up) /\ Cardinality(Up) \in Nat /\ starts \in Nat
  BY UpFinite, StartsGrow
<1>3. CASE Start(w)
  <2>1. job[w].pc = "down" /\ starts' = starts + 1
    BY <1>3 DEF Start
  <2>2. job'[w].pc \in {"idle", "cleanup"}
    <3>1. job'[w] = NoJob \/ job'[w] = [NoJob EXCEPT !.pc = "cleanup", !.q = {1, 2, 3}]
      BY <1>3, JobOf DEF Start
    <3>2. CASE job'[w] = NoJob
      BY <3>2 DEF NoJob
    <3>3. CASE job'[w] = [NoJob EXCEPT !.pc = "cleanup", !.q = {1, 2, 3}]
      BY <3>3 DEF NoJob
    <3>4. QED BY <3>1, <3>2, <3>3
  <2>3. Up' = Up \cup {w} /\ w \notin Up
    BY <1>1, <2>1, <2>2 DEF Up
  <2>4. Cardinality(Up') = Cardinality(Up) + 1
    BY <1>2, <2>3, FS_AddElement
  <2>5. ~Crash(w)
    BY <2>1 DEF Crash
  <2>6. QED BY <1>2, <2>1, <2>4, <2>5
<1>4. CASE Crash(w)
  <2>1. job[w].pc # "down" /\ starts' = starts
    BY <1>4 DEF Crash
  <2>2. job'[w].pc = "down"
    <3>1. job'[w] = [NoJob EXCEPT !.pc = "down"]
      BY <1>4, JobOf DEF Crash
    <3>2. QED BY <3>1 DEF NoJob
  <2>3. Up' = Up \ {w} /\ w \in Up
    BY <1>1, <2>1, <2>2 DEF Up
  <2>4. Cardinality(Up') = Cardinality(Up) - 1
    BY <1>2, <2>3, FS_RemoveElement
  <2>5. QED BY <1>2, <2>1, <2>4
<1>5. CASE ~Start(w) /\ ~Crash(w)
  <2>1. job[w].pc # "down" /\ job'[w].pc # "down"
    BY <1>5, OwnUp
  <2>2. Up' = Up
    BY <1>1, <2>1 DEF Up
  <2>3. starts' = starts
    BY <1>5, StartsGrow
  <2>4. QED BY <1>5, <2>2, <2>3
<1>6. QED BY <1>3, <1>4, <1>5

\* What is said of a file stays true while those who have it open do nothing.
LEMMA HeldStays ==
  ASSUME NEW f \in Files, Held(f), disk'[f] = disk[f],
         \A v \in Workers : job[v].handle \in {"tmp", "target"} /\ FileOf(v) = f => job'[v] = job[v]
  PROVE  Held(f)'
<1>1. \A v \in Workers : job'[v] = job[v] => FileOf(v)' = FileOf(v)
  BY DEF FileOf
<1>2. QED BY <1>1 DEF Held

\* A step that opens the temporary file.
LEMMA HeldOpen ==
  ASSUME TypeOK, ShapeInv, NEW w \in Workers, Fetch(w) \/ MarkOpen(w), \A f \in Files : Held(f)
  PROVE  \A f \in Files : Held(f)'
<1>0. PICK f : f = Target(w)
  OBVIOUS
<1>1. /\ Fetch(w) => job[w].pc = "fetch"
      /\ MarkOpen(w) => job[w].pc = "coveropen"
      /\ job[w].pc \in Fetching => Min(job[w].todo) \in Files /\ Min(job[w].todo) # Coverage
  BY StepFile DEF FileSteps
<1>2. f \in Files /\ disk \in [Files -> [tmp : Contents, target : Contents]] /\ job[w] \in Jobs
  BY <1>0, <1>1, PathFacts DEF Target, TypeOK
<1>3. job[w].handle = "none" /\ Coverage \notin Paths
  BY <1>1, PathFacts DEF ShapeInv, Shape, Writing
<1>4. /\ disk' = [disk EXCEPT ![f].tmp = Torn] /\ \A v \in Workers \ {w} : job'[v] = job[v]
      /\ \/ /\ f = Min(job[w].todo)
            /\ job'[w] = [[job[w] EXCEPT !.pc = "write"] EXCEPT !.handle = "tmp"]
         \/ /\ f = Coverage
            /\ job'[w] = [[job[w] EXCEPT !.pc = "coverwrite"] EXCEPT !.handle = "tmp"]
  BY <1>0, <1>1, JobOf DEF Fetch, MarkOpen, OpenTmp, Target, Fetching
<1>5. /\ job'[w].handle = "tmp" /\ FileOf(w)' = f
      /\ f \in Paths => job'[w].pc = "write"
  BY <1>2, <1>3, <1>4 DEF Jobs, FileOf
<1>6. /\ disk'[f].target = disk[f].target
      /\ \A g \in Files \ {f} : disk'[g] = disk[g]
  BY <1>2, <1>4
<1>7. \A v \in Workers : job[v].handle \in {"tmp", "target"} => v # w /\ job'[v] = job[v]
  BY <1>3, <1>4
<1>8. Held(f)'
  <2>1. \A v \in Workers : job'[v] = job[v] => FileOf(v)' = FileOf(v)
    BY DEF FileOf
  <2>2. f \in Paths /\ disk'[f].target.st = "torn" =>
          \E v \in Workers : job'[v].handle = "target" /\ job'[v].pc = "write" /\ FileOf(v)' = f
    BY <1>2, <1>6, <1>7, <2>1 DEF Held
  <2>3. QED BY <1>5, <2>2 DEF Held
<1>9. \A g \in Files \ {f} : Held(g)'
  BY <1>6, <1>7, HeldStays
<1>10. QED BY <1>8, <1>9

\* A step that writes it: the file it has open may have been renamed or removed.
LEMMA HeldWrite ==
  ASSUME TypeOK, ShapeInv, NEW w \in Workers, WriteFile(w) \/ MarkWrite(w), \A f \in Files : Held(f)
  PROVE  \A f \in Files : Held(f)'
<1>0. PICK f : f = Target(w)
  OBVIOUS
<1>1. /\ WriteFile(w) => job[w].pc = "write"
      /\ MarkWrite(w) => job[w].pc = "coverwrite"
      /\ job[w].pc \in Fetching => Min(job[w].todo) \in Files /\ Min(job[w].todo) # Coverage
  BY StepFile DEF FileSteps
<1>2. f \in Files /\ disk \in [Files -> [tmp : Contents, target : Contents]] /\ job[w] \in Jobs
      /\ Coverage \notin Paths
  BY <1>0, <1>1, PathFacts DEF Target, TypeOK
<1>3. PICK c : /\ f \in Paths => c = Full({})
               /\ disk' = CASE job[w].handle = "tmp" -> [disk EXCEPT ![f].tmp = c]
                            [] job[w].handle = "target" -> [disk EXCEPT ![f].target = c]
                            [] OTHER -> disk
  <2>1. CASE WriteFile(w)
    <3>1. f = Min(job[w].todo) /\ f # Coverage
      BY <1>0, <1>1, <2>1 DEF Target, Fetching
    <3>2. PICK c \in {Full({})} :
             disk' = CASE job[w].handle = "tmp" -> [disk EXCEPT ![f].tmp = c]
                       [] job[w].handle = "target" -> [disk EXCEPT ![f].target = c]
                       [] OTHER -> disk
      BY <2>1, <3>1 DEF WriteFile, WriteTmp
    <3>3. QED BY <3>2
  <2>2. CASE MarkWrite(w)
    <3>1. f = Coverage
      BY <1>0, <1>1, <2>2 DEF Target, Fetching
    <3>2. PICK c : disk' = CASE job[w].handle = "tmp" -> [disk EXCEPT ![f].tmp = c]
                             [] job[w].handle = "target" -> [disk EXCEPT ![f].target = c]
                             [] OTHER -> disk
      BY <2>2, <3>1 DEF MarkWrite, WriteTmp
    <3>3. QED BY <1>2, <3>1, <3>2
  <2>3. QED BY <2>1, <2>2
<1>4. /\ \A v \in Workers \ {w} : job'[v] = job[v]
      /\ job'[w] = [job[w] EXCEPT !.pc = "replace"] \/ job'[w] = [job[w] EXCEPT !.pc = "coverreplace"]
      /\ job[w].pc = "write" => job'[w] = [job[w] EXCEPT !.pc = "replace"]
      /\ job[w].pc = "coverwrite" => job'[w] = [job[w] EXCEPT !.pc = "coverreplace"]
      /\ job[w].pc \in {"write", "coverwrite"}
  BY <1>1, JobOf DEF WriteFile, MarkWrite, WriteTmp
<1>5. job'[w].handle = job[w].handle /\ FileOf(w)' = f /\ FileOf(w) = f
  BY <1>0, <1>2, <1>4 DEF Jobs, FileOf, Target, Fetching
<1>6. /\ \A g \in Files \ {f} : disk'[g] = disk[g]
      /\ job[w].handle = "tmp" => disk'[f].tmp = c /\ disk'[f].target = disk[f].target
      /\ job[w].handle = "target" => disk'[f].tmp = disk[f].tmp /\ disk'[f].target = c
      /\ job[w].handle \notin {"tmp", "target"} => disk'[f] = disk[f]
  BY <1>2, <1>3
<1>7. \A g \in Files \ {f} : Held(g)'
  BY <1>4, <1>5, <1>6, HeldStays
<1>8. Held(f)'
  <2>1. \A v \in Workers : job'[v] = job[v] => FileOf(v)' = FileOf(v)
    BY DEF FileOf
  <2>2. Full({}).st = "full"
    BY DEF Full
  <2>3. CASE job[w].handle = "tmp"
    <3>1. f \in Paths => disk'[f].tmp.st # "torn"
      BY <1>3, <1>6, <2>2, <2>3
    <3>2. \E v \in Workers : job'[v].handle = "tmp" /\ FileOf(v)' = f
      BY <1>5, <2>3
    <3>3. f \in Paths /\ disk'[f].target.st = "torn" =>
            \E v \in Workers : job'[v].handle = "target" /\ job'[v].pc = "write" /\ FileOf(v)' = f
      BY <1>2, <1>4, <1>6, <2>1, <2>3 DEF Held
    <3>4. QED BY <3>1, <3>2, <3>3 DEF Held
  <2>4. CASE job[w].handle = "target"
    <3>1. f \in Paths => disk'[f].target.st # "torn"
      BY <1>3, <1>6, <2>2, <2>4
    <3>2. \A v \in Workers : job[v].handle = "tmp" => job'[v] = job[v]
      BY <1>4, <2>4
    <3>3. QED BY <1>2, <1>6, <2>1, <2>4, <3>1, <3>2 DEF Held
  <2>5. CASE job[w].handle \notin {"tmp", "target"}
    <3>1. \A v \in Workers : job[v].handle \in {"tmp", "target"} => job'[v] = job[v]
      BY <1>4, <2>5
    <3>2. QED BY <1>2, <1>6, <2>5, <3>1, HeldStays
  <2>6. QED BY <2>3, <2>4, <2>5
<1>9. QED BY <1>7, <1>8

\* A step that renames it, or finds that another process has done so.
LEMMA HeldReplace ==
  ASSUME TypeOK, ShapeInv, NEW w \in Workers, ReplaceFile(w) \/ MarkReplace(w), \A f \in Files : Held(f)
  PROVE  \A f \in Files : Held(f)'
<1>0. PICK f : f = Target(w)
  OBVIOUS
<1>1. /\ ReplaceFile(w) => job[w].pc = "replace"
      /\ MarkReplace(w) => job[w].pc = "coverreplace"
      /\ job[w].pc \in Fetching => Min(job[w].todo) \in Files
  BY StepFile DEF FileSteps
<1>2. f \in Files /\ disk \in [Files -> [tmp : Contents, target : Contents]]
      /\ job[w].pc \in {"replace", "coverreplace"} /\ FileOf(w) = f
  BY <1>0, <1>1, PathFacts DEF Target, TypeOK, FileOf, Fetching
<1>3. (Error(w) /\ disk' = disk /\ disk[f].tmp.st = "none") \/ \E j : Replace(w, f, j)
  BY <1>0, <1>1 DEF ReplaceFile, MarkReplace, Target, Fetching
<1>4. \A v \in Workers : job'[v] = job[v] => FileOf(v)' = FileOf(v)
  BY DEF FileOf
<1>5. CASE Error(w) /\ disk' = disk /\ disk[f].tmp.st = "none"
  <2>1. \A v \in Workers \ {w} : job'[v] = job[v]
    BY <1>5, JobOf DEF Error
  <2>2. ASSUME NEW g \in Files \ {f}
        PROVE  Held(g)'
    BY <1>2, <1>5, <2>1, <2>2, HeldStays
  <2>3. Held(f)'
    BY <1>2, <1>4, <1>5, <2>1 DEF Held
  <2>4. QED BY <2>2, <2>3
<1>6. CASE \E j : Replace(w, f, j)
  <2>1. /\ disk' = [disk EXCEPT ![f] = [tmp |-> Absent, target |-> disk[f].tmp]]
        /\ \A v \in Workers \ {w} :
             job'[v] = IF v \in Writers(f)
                       THEN [job[v] EXCEPT !.handle = IF @ = "tmp" THEN "target" ELSE "gone"]
                       ELSE job[v]
    BY <1>6 DEF Replace
  <2>2. \A v \in Workers : v \in Writers(f) => FileOf(v) = f
    BY DEF Writers, FileOf
  <2>3. /\ \A g \in Files \ {f} : disk'[g] = disk[g]
        /\ disk'[f].tmp.st = "none" /\ disk'[f].target = disk[f].tmp
    BY <1>2, <2>1 DEF Absent
  <2>4. ASSUME NEW g \in Files \ {f}
        PROVE  Held(g)'
    <3>1. \A v \in Workers : FileOf(v) = g => v # w /\ v \notin Writers(f)
      BY <1>2, <2>2
    <3>2. QED BY <2>1, <2>3, <3>1, HeldStays
  <2>5. ASSUME f \in Paths, disk'[f].target.st = "torn"
        PROVE  \E v \in Workers : job'[v].handle = "target" /\ job'[v].pc = "write" /\ FileOf(v)' = f
    <3>1. PICK v \in Workers : job[v].handle = "tmp" /\ job[v].pc = "write" /\ FileOf(v) = f
      BY <1>2, <2>3, <2>5 DEF Held
    <3>2. v # w /\ v \in Writers(f) /\ job[v] \in Jobs
      BY <1>2, <3>1 DEF Writers, FileOf, TypeOK
    <3>3. job'[v] = [job[v] EXCEPT !.handle = "target"]
      BY <2>1, <3>1, <3>2
    <3>4. job'[v].handle = "target" /\ job'[v].pc = "write" /\ job'[v].todo = job[v].todo
      BY <3>1, <3>2, <3>3 DEF Jobs
    <3>5. FileOf(v)' = f
      BY <3>1, <3>4 DEF FileOf
    <3>6. QED BY <3>4, <3>5
  <2>6. Held(f)'
    BY <2>3, <2>5 DEF Held
  <2>7. QED BY <2>4, <2>6
<1>7. QED BY <1>3, <1>5, <1>6

\* A step of a cleanup: what it removes is gone, nobody else's file is touched.
LEMMA HeldCleanup ==
  ASSUME TypeOK, ShapeInv, NEW w \in Workers, Cleanup(w), \A f \in Files : Held(f)
  PROVE  \A f \in Files : Held(f)'
<1>1. PICK gone :
        /\ disk' = [f \in Files |-> IF f \in gone THEN [tmp |-> Absent, target |-> Absent] ELSE disk[f]]
        /\ \A v \in Workers \ {w} : job'[v] = IF v \in UNION {Writers(f) : f \in gone}
                                              THEN [job[v] EXCEPT !.handle = "gone"] ELSE job[v]
  BY Zenon DEF Cleanup
<1>2. job[w].handle = "none"
  BY DEF Cleanup, ShapeInv, Shape, Writing
<1>3. \A f, v : v \in Writers(f) => FileOf(v) = f
  BY DEF Writers, FileOf
<1>4. ASSUME NEW f \in Files \cap gone
      PROVE  Held(f)'
  <2>1. disk'[f] = [tmp |-> Absent, target |-> Absent]
    BY <1>1
  <2>2. disk'[f].tmp.st = "none" /\ disk'[f].target.st = "none"
    BY <2>1 DEF Absent
  <2>3. QED BY <2>2 DEF Held
<1>5. ASSUME NEW f \in Files \ gone
      PROVE  Held(f)'
  <2>1. disk'[f] = disk[f]
    BY <1>1
  <2>2. ASSUME NEW v \in Workers, job[v].handle \in {"tmp", "target"}, FileOf(v) = f
        PROVE  job'[v] = job[v]
    <3>1. v # w
      BY <1>2, <2>2
    <3>2. v \notin UNION {Writers(g) : g \in gone}
      BY <1>3, <1>5, <2>2
    <3>3. QED BY <1>1, <3>1, <3>2
  <2>3. QED BY <2>1, <2>2, HeldStays
<1>6. QED BY <1>4, <1>5

\* Every step but a crash keeps the files held.
LEMMA HeldFiles ==
  ASSUME TypeOK, ShapeInv, NEW w \in Workers, Step(w), ~Crash(w), \A f \in Files : Held(f)
  PROVE  \A f \in Files : Held(f)'
<1>1. CASE ReplaceFile(w) \/ MarkReplace(w)
  BY <1>1, HeldReplace
<1>2. CASE Fetch(w) \/ MarkOpen(w)
  BY <1>2, HeldOpen
<1>3. CASE WriteFile(w) \/ MarkWrite(w)
  BY <1>3, HeldWrite
<1>4. CASE Cleanup(w)
  BY <1>4, HeldCleanup
<1>5. CASE Begins(w) \/ CallSteps(w) \/ Continue(w) \/ GiveUp(w) \/ Start(w)
  <2>1. job[w].pc \notin Writing
    BY <1>5 DEF Begins, ListFiles, SearchFile, ReadFile, Search, Begin, CallSteps, SearchText, PrefixLock,
                FetchFails, MarkRead, EnsureFile, Listed, ReadLines, Ripgrep, Continue, GiveUp, Start, Writing
  <2>2. job[w].handle = "none"
    BY <2>1 DEF ShapeInv, Shape
  <2>3. disk' = disk
    <3>1. Begins(w) => disk' = disk
      BY DEF Begins, ListFiles, SearchFile, ReadFile, Search, Begin
    <3>2. CallSteps(w) => disk' = disk
      BY DEF CallSteps, SearchText, PrefixLock, FetchFails, MarkRead, EnsureFile, Listed, ReadLines, Ripgrep
    <3>3. Continue(w) \/ GiveUp(w) \/ Start(w) => disk' = disk
      BY DEF Continue, GiveUp, Start
    <3>4. QED BY <1>5, <3>1, <3>2, <3>3
  <2>4. \E j : Set(w, j)
    <3>1. Begins(w) => \E j : Set(w, j)
      BY DEF Begins, ListFiles, SearchFile, ReadFile, Search, Begin
    <3>2. CallSteps(w) => \E j : Set(w, j)
      <4>1. Listed(w) => \E j : Set(w, j)
        BY DEF Listed, Answer
      <4>2. ReadLines(w) => \E j : Set(w, j)
        BY DEF ReadLines, Answer, Error
      <4>3. Ripgrep(w) => \E j : Set(w, j)
        BY DEF Ripgrep, Answer, Error
      <4>4. SearchText(w) \/ PrefixLock(w) \/ FetchFails(w) \/ MarkRead(w) \/ EnsureFile(w) =>
              \E j : Set(w, j)
        BY DEF SearchText, PrefixLock, FetchFails, MarkRead, EnsureFile, Error
      <4>5. QED BY <4>1, <4>2, <4>3, <4>4 DEF CallSteps
    <3>3. Continue(w) \/ GiveUp(w) \/ Start(w) => \E j : Set(w, j)
      BY DEF Continue, GiveUp, Start
    <3>4. QED BY <1>5, <3>1, <3>2, <3>3
  <2>5. \A v \in Workers \ {w} : job'[v] = job[v]
    BY <2>4, JobOf
  <2>6. QED BY <2>2, <2>3, <2>5, HeldStays
<1>6. QED BY <1>1, <1>2, <1>3, <1>4, <1>5 DEF Step, Begins, CallSteps

\* Every step keeps what is said of crashes and the files they leave.
LEMMA HeldStep ==
  ASSUME TypeOK, ShapeInv, HeldInv, NEW w \in Workers, Step(w)
  PROVE  HeldInv'
<1>1. /\ Cardinality(Up') <= starts'
      /\ Cardinality(Up') = starts' => Cardinality(Up) = starts /\ ~Crash(w)
  BY CrashesGrow DEF HeldInv
<1>2. ASSUME Cardinality(Up) = starts, ~Crash(w)
      PROVE  \A f \in Files : Held(f)'
  BY <1>2, HeldFiles DEF HeldInv
<1>3. QED BY <1>1, <1>2 DEF HeldInv

\* A worker that runs ripgrep and finds a temporary file is not the only process
\* there has been: it has no file open itself.
LEMMA AnothersFile ==
  ASSUME TypeOK, ShapeInv, HeldInv, NEW w \in Workers, Ripgrep(w), NEW f \in Files,
         disk[f].tmp.st # "none"
  PROVE  starts' > 1
<1>1. starts' = starts /\ job[w].pc = "rg" /\ starts \in Nat
  BY DEF Ripgrep, TypeOK
<1>2. w \in Up /\ IsFiniteSet(Up) /\ Cardinality(Up) \in Nat /\ Cardinality(Up) <= starts
  BY <1>1, UpFinite DEF Up, HeldInv
<1>3. {w} \in SUBSET Up /\ Cardinality({w}) = 1
  BY <1>2, FS_Singleton
<1>4. 1 <= Cardinality(Up) /\ (Cardinality(Up) = 1 => Up = {w})
  BY <1>2, <1>3, FS_Subset
<1>5. ASSUME starts <= 1
      PROVE  FALSE
  <2>1. Cardinality(Up) = starts /\ Up = {w}
    BY <1>1, <1>2, <1>4, <1>5
  <2>2. PICK v \in Workers : job[v].handle = "tmp"
    BY <2>1 DEF HeldInv, Held
  <2>3. job[v].pc \in Writing
    BY <2>2 DEF ShapeInv, Shape
  <2>4. v \in Up /\ v # w
    BY <1>1, <2>3 DEF Up, Writing
  <2>5. QED BY <2>1, <2>4
<1>6. QED BY <1>1, <1>5

-----------------------------------------------------------------------------
(* What the caller has been told                                           *)

\* A step leaves what the others asked and were given.
LEMMA OthersTold ==
  ASSUME TypeOK, NEW w \in Workers, Step(w), NEW v \in Workers \ {w},
         ListTold(v), ReadTold(v), SearchTold(v)
  PROVE  ListTold(v)' /\ ReadTold(v)' /\ SearchTold(v)'
<1>1. job[v] \in Jobs
  BY DEF TypeOK
<1>2. tree' = tree /\ (broken' = {} => broken = {})
  BY TreeStays
<1>3. /\ Stays(v) /\ job'[v].pc = job[v].pc /\ job'[v].more = job[v].more
  <2>1. CASE job'[v] = job[v]
    BY <2>1 DEF Stays
  <2>2. ASSUME NEW h, job'[v] = [job[v] EXCEPT !.handle = h]
        PROVE  Stays(v) /\ job'[v].pc = job[v].pc /\ job'[v].more = job[v].more
    BY <1>1, <2>2 DEF Jobs, Stays
  <2>3. QED BY <2>1, <2>2, Others
<1>4. (Continued(v)' <=> Continued(v)) /\ (Ended(v)' <=> Ended(v))
  BY <1>3 DEF Continued, Ended
<1>5. ListTold(v)'
  <2>1. Rows(v)' = Rows(v)
    BY <1>2, <1>3 DEF Rows, Stays, visible_path_sql
  <2>2. Shown(v)' = Shown(v)
    BY <1>2, <2>1 DEF Shown, is_secret_path
  <2>3. job'[v].tool = job[v].tool /\ job'[v].q = job[v].q /\ job'[v].from = job[v].from
        /\ job'[v].got = job[v].got
    BY <1>3 DEF Stays
  <2>4. PathsOf(job[v].got)' = PathsOf(job[v].got)
    BY <2>3 DEF PathsOf
  <2>5. QED BY <1>3, <1>4, <2>1, <2>2, <2>3, <2>4 DEF ListTold
<1>6. ReadTold(v)'
  <2>1. /\ job'[v].tool = job[v].tool /\ job'[v].first = job[v].first /\ job'[v].from = job[v].from
        /\ job'[v].got = job[v].got /\ job'[v].at = job[v].at /\ job'[v].end = job[v].end
    BY <1>3 DEF Stays
  <2>2. Asked(v)' = Asked(v)
    BY <2>1 DEF Asked
  <2>3. QED BY <1>2, <1>3, <1>4, <2>1, <2>2 DEF ReadTold
<1>7. SearchTold(v)'
  <2>1. /\ job'[v].tool = job[v].tool /\ job'[v].paged = job[v].paged /\ job'[v].cut = job[v].cut
        /\ job'[v].got = job[v].got /\ job'[v].at = job[v].at /\ job'[v].from = job[v].from
    BY <1>3 DEF Stays
  <2>2. starts > 1 => starts' > 1
    BY StartsGrow
  <2>3. QED BY <1>2, <1>3, <1>4, <2>1, <2>2 DEF SearchTold
<1>8. QED BY <1>5, <1>6, <1>7

\* Nothing is said of a worker whose call has failed or that has none.
LEMMA ToldElsewhere ==
  ASSUME NEW w \in Workers, job'[w].pc \in {"idle", "down", "cleanup", "failed"}
  PROVE  ListTold(w)' /\ ReadTold(w)' /\ SearchTold(w)'
<1>1. job'[w].pc # "call" /\ job'[w].pc # "answered" /\ job'[w].pc \notin Calling
  BY DEF Calling, CacheFree
<1>2. ~Continued(w)' /\ ~Ended(w)'
  BY <1>1 DEF Continued, Ended
<1>3. QED BY <1>1, <1>2 DEF ListTold, ReadTold, SearchTold

\* A call that begins has been told nothing and asks from the start.
LEMMA BeginTold ==
  ASSUME TypeOK, NEW w \in Workers, NEW tool, NEW place, NEW q \in SUBSET Paths, NEW from \in Nat, NEW end,
         tool = "list" => from = 0, tool = "search" => from = 0, Begin(w, tool, place, q, from, end)
  PROVE  ListTold(w)' /\ ReadTold(w)' /\ SearchTold(w)'
<1>1. /\ job'[w].pc \in {"call", "failed"} /\ job'[w].tool = tool /\ job'[w].at = place
      /\ job'[w].q = q /\ job'[w].first = from /\ job'[w].from = from /\ job'[w].end = end
      /\ job'[w].got = {} /\ ~job'[w].more /\ ~job'[w].paged /\ ~job'[w].cut
  BY BeginFields
<1>2. ~Continued(w)' /\ ~Ended(w)'
  BY <1>1 DEF Continued, Ended
<1>3. ListTold(w)'
  <2>1. Rows(w)' \subseteq q /\ Rows(w)' \in SUBSET Nat /\ IsFiniteSet(Rows(w)')
    <3>1. Rows(w)' \subseteq q
      BY <1>1 DEF Rows
    <3>2. Rows(w)' \subseteq Paths
      BY <3>1
    <3>3. QED BY <3>1, <3>2, PathFacts, FS_Subset
  <2>2. First(Rows(w)', 0) = {}
    <3> DEFINE R == Rows(w)'
    <3>1. R \in SUBSET Nat /\ IsFiniteSet(R)
      BY <2>1
    <3> HIDE DEF R
    <3>2. 0 \in Nat /\ Cardinality(First(R, 0)) <= 0 /\ IsFiniteSet(First(R, 0))
          /\ Cardinality(First(R, 0)) \in Nat
      BY <3>1, FirstRows
    <3>3. Cardinality(First(R, 0)) = 0
      BY <3>2
    <3>4. First(R, 0) = {}
      BY <3>2, <3>3, FS_EmptySet
    <3>5. QED BY <3>4 DEF R
  <2>3. PathsOf(job[w].got)' = {}
    BY <1>1 DEF PathsOf
  <2>4. tool = "list" => job'[w].from = 0 /\ PathsOf(job[w].got)' = First(Rows(w)', job'[w].from)
    BY <1>1, <2>2, <2>3
  <2>5. (tool = "list" => job'[w].from \in Nat) /\ PathsOf(job[w].got)' \subseteq Shown(w)'
    BY <1>1, <2>3
  <2>6. QED BY <1>1, <1>2, <2>4, <2>5 DEF ListTold, First
<1>4. ReadTold(w)'
  <2>1. job'[w].first <= job'[w].from /\ job'[w].first .. job'[w].from - 1 = {}
    BY <1>1
  <2>2. QED BY <1>2, <2>1 DEF ReadTold
<1>5. SearchTold(w)'
  BY <1>1, <1>2 DEF SearchTold
<1>6. QED BY <1>3, <1>4, <1>5

\* The stages of a call tell nothing.
LEMMA StageTold ==
  ASSUME TypeOK, NEW w \in Workers, Step(w), ReadTold(w), SearchTold(w), ~Error(w),
         \/ SearchText(w) \/ PrefixLock(w) \/ MarkRead(w) \/ EnsureFile(w) \/ FileSteps(w)
  PROVE  ListTold(w)' /\ ReadTold(w)' /\ SearchTold(w)'
<1>1. job[w].pc \in Calling /\ job'[w].pc \in Calling \ {"call"} /\ Stays(w)
  BY StageFields
<1>2. ~Continued(w)' /\ ~Ended(w)' /\ job'[w].pc # "call"
  BY <1>1 DEF Continued, Ended, Calling, CacheFree
<1>3. broken' = {} => broken = {}
  BY TreeStays
<1>4. /\ job'[w].tool = job[w].tool /\ job'[w].first = job[w].first /\ job'[w].from = job[w].from
      /\ job'[w].got = job[w].got /\ job'[w].at = job[w].at
      /\ job'[w].paged = job[w].paged /\ job'[w].cut = job[w].cut
  BY <1>1 DEF Stays
<1>5. ListTold(w)'
  BY <1>2 DEF ListTold
<1>6. ReadTold(w)'
  BY <1>1, <1>2, <1>3, <1>4 DEF ReadTold
<1>7. SearchTold(w)'
  BY <1>1, <1>2, <1>4 DEF SearchTold
<1>8. QED BY <1>5, <1>6, <1>7

\* The caller asks for the rest.
LEMMA ContinueTold ==
  ASSUME TypeOK, NEW w \in Workers, Continue(w), ListTold(w), ReadTold(w), SearchTold(w)
  PROVE  ListTold(w)' /\ ReadTold(w)' /\ SearchTold(w)'
<1>1. job'[w].pc \in {"idle", "call"}
  BY ContinueFields
<1>2. CASE job'[w].pc = "idle"
  BY <1>2, ToldElsewhere
<1>3. CASE job'[w].pc = "call"
  <2>1. /\ Continued(w)
        /\ job'[w].tool = job[w].tool /\ job'[w].at = job[w].at /\ job'[w].q = job[w].q
        /\ job'[w].first = job[w].first /\ job'[w].from = job[w].from
        /\ job'[w].end = job[w].end /\ job'[w].got = job[w].got /\ job'[w].paged
    BY <1>3, ContinueFields
  <2>2. ~Continued(w)' /\ ~Ended(w)'
    BY <1>3 DEF Continued, Ended
  <2>3. tree' = tree /\ (broken' = {} => broken = {})
    BY DEF Continue, Arrives
  <2>4. ListTold(w)'
    <3>1. Rows(w)' = Rows(w)
      BY <2>1, <2>3 DEF Rows, visible_path_sql
    <3>2. Shown(w)' = Shown(w)
      BY <2>3, <3>1 DEF Shown, is_secret_path
    <3>3. PathsOf(job[w].got)' = PathsOf(job[w].got)
      BY <2>1 DEF PathsOf
    <3>4. QED BY <2>1, <2>2, <3>1, <3>2, <3>3 DEF ListTold
  <2>5. ReadTold(w)'
    BY <2>1, <2>2, <2>3 DEF ReadTold
  <2>6. SearchTold(w)'
    BY <2>1, <2>2 DEF SearchTold
  <2>7. QED BY <2>4, <2>5, <2>6
<1>4. QED BY <1>1, <1>2, <1>3

\* A page of list_files or search_file adds the next rows; the last one, the rest.
LEMMA ListedTold ==
  ASSUME TypeOK, NEW w \in Workers, Shape(w), Listed(w), ListTold(w)
  PROVE  ListTold(w)' /\ ReadTold(w)' /\ SearchTold(w)'
<1> DEFINE shown == _visible_file_rows(list_files(job[w].q, job[w].from))
           page == _page_rows(shown, job[w].from)
           items == {Item(p, 0, 0, FALSE) : p \in page[1]}
           R == Rows(w)
           S == Shown(w)
           F == First(R, job[w].from)
<1>1. /\ Answer(w, items, page[2], FALSE) /\ job[w].from \in Nat /\ page[1] \subseteq Paths
      /\ page[2] \in Nat \cup {-1}
  BY ListedAnswer
<1>2. job[w].pc = "call" /\ job[w].tool = "list" /\ tree' = tree
  BY DEF Listed
<1>3. /\ job'[w].pc = "answered" /\ job'[w].tool = job[w].tool
      /\ job'[w].q = job[w].q /\ job'[w].from = page[2] /\ job'[w].got = job[w].got \cup items
      /\ job'[w].more <=> page[2] # -1
  <2> DEFINE n == page[2]
  <2>1. Answer(w, items, n, FALSE)
    BY <1>1
  <2> HIDE DEF items, page, n
  <2>2. PICK cut \in BOOLEAN : Answer(w, items, n, cut)
    BY <2>1, Zenon
  <2>3. /\ job'[w].pc = "answered" /\ job'[w].tool = job[w].tool
        /\ job'[w].q = job[w].q /\ job'[w].from = n /\ job'[w].got = job[w].got \cup items
        /\ job'[w].more <=> n # -1
    BY <2>2, AnswerFields
  <2>4. QED BY <2>3 DEF n
<1>4. job'[w].tool = "list" /\ job'[w].pc \notin Calling /\ job'[w].pc # "call"
      /\ (Continued(w)' <=> page[2] # -1) /\ (Ended(w)' <=> page[2] = -1)
  BY <1>2, <1>3 DEF Calling, CacheFree, Continued, Ended
<1>5. ReadTold(w)' /\ SearchTold(w)'
  BY <1>4 DEF ReadTold, SearchTold
<1>6. F \subseteq S =>
        /\ page[2] # -1 => /\ page[2] \in Nat /\ F \cup page[1] = First(R, page[2])
                           /\ F \cup page[1] \subseteq S
        /\ page[2] = -1 => Gapless(F \cup page[1], S) /\ Behind(F \cup page[1], R, S)
  <2> DEFINE m == MaxResults
             a == job[w].from
  <2>1. R \in SUBSET Nat /\ IsFiniteSet(R) /\ S \in SUBSET R
    <3>1. R \subseteq Paths
      BY <1>2 DEF Shape, Rows
    <3>2. QED BY <3>1, PathFacts, FS_Subset DEF Shown
  <2>2. m \in Nat /\ a \in Nat
    BY <1>1, SourceToolsAssumption
  <2>3. shown = First(R \ F, m + 1) \cap S
    <3>1. list_files(job[w].q, job[w].from) = First(R \ F, m + 1)
      BY DEF list_files, Rows
    <3>2. \A p \in First(R \ F, m + 1) : p \in R
      BY DEF First
    <3>3. QED BY <3>1, <3>2 DEF _visible_file_rows, Shown
  <2>4. F = First(R, a)
    OBVIOUS
  <2>5. page = IF Cardinality(shown) > m THEN <<First(shown, m), a + m>> ELSE <<shown, -1>>
    BY DEF _page_rows
  <2> HIDE DEF R, F, S, m, a, shown, page
  <2>6. SUFFICES ASSUME F \subseteq S
                 PROVE  /\ page[2] # -1 => /\ page[2] \in Nat /\ F \cup page[1] = First(R, page[2])
                                            /\ F \cup page[1] \subseteq S
                        /\ page[2] = -1 => Gapless(F \cup page[1], S) /\ Behind(F \cup page[1], R, S)
    OBVIOUS
  <2>7. /\ Cardinality(shown) > m => /\ First(R, a + m) = F \cup First(shown, m)
                                      /\ First(R, a + m) \subseteq S
        /\ ~ (Cardinality(shown) > m) => Gapless(F \cup shown, S) /\ Behind(F \cup shown, R, S)
    <3>1. LET G == First(R, a)
              T == First(R \ G, m + 1) \cap S
          IN  /\ Cardinality(T) > m => /\ First(R, a + m) = G \cup First(T, m)
                                       /\ First(R, a + m) \subseteq S
              /\ ~ (Cardinality(T) > m) => Gapless(G \cup T, S) /\ Behind(G \cup T, R, S)
      BY <2>1, <2>2, <2>4, <2>6, PageOfRows
    <3>2. QED BY <2>3, <2>4, <3>1
  <2>8. CASE Cardinality(shown) > m
    <3>1. page[1] = First(shown, m) /\ page[2] = a + m
      BY <2>5, <2>8
    <3>2. a + m \in Nat /\ a + m # -1
      BY <2>2
    <3>3. QED BY <2>7, <2>8, <3>1, <3>2
  <2>9. CASE ~ (Cardinality(shown) > m)
    <3>1. page[1] = shown /\ page[2] = -1
      BY <2>5, <2>9
    <3>2. QED BY <2>7, <2>9, <3>1
  <2>10. QED BY <2>8, <2>9
<1>7. PathsOf(job[w].got)' = PathsOf(job[w].got) \cup page[1]
  <2>1. PathsOf(job[w].got)' = PathsOf(job[w].got \cup items)
    BY <1>3 DEF PathsOf
  <2>2. PathsOf(items) = page[1]
    <3> HIDE DEF page
    <3>1. \A p : Item(p, 0, 0, FALSE).path = p
      BY DEF Item
    <3>2. \A p \in page[1] : Item(p, 0, 0, FALSE) \in items
      OBVIOUS
    <3>3. \A i \in items : i.path \in page[1]
      BY <3>1
    <3> HIDE DEF items
    <3>4. \A p \in page[1] : p \in PathsOf(items)
      BY <3>1, <3>2 DEF PathsOf
    <3>5. \A p \in PathsOf(items) : p \in page[1]
      BY <3>3 DEF PathsOf
    <3>6. QED BY <3>4, <3>5
  <2> HIDE DEF items, page
  <2>3. QED BY <2>1, <2>2 DEF PathsOf
<1>8. Rows(w)' = R /\ Shown(w)' = S
  BY <1>2, <1>3 DEF Rows, Shown, visible_path_sql, is_secret_path
<1>9. PathsOf(job[w].got) = F /\ F \subseteq S
  BY <1>2 DEF ListTold
<1> HIDE DEF shown, page, items, R, S, F
<1>10. PathsOf(job[w].got)' = F \cup page[1]
  BY <1>7, <1>9
<1>11. ListTold(w)'
  BY <1>3, <1>4, <1>6, <1>8, <1>9, <1>10 DEF ListTold
<1>12. QED BY <1>5, <1>11

\* A page of read_file adds the next lines; the last one, the rest of those asked for.
LEMMA LinesTold ==
  ASSUME TypeOK, NEW w \in Workers, Shape(w), broken = {} => Sound(w), ReadLines(w), ~Error(w),
         ReadTold(w)
  PROVE  ListTold(w)' /\ ReadTold(w)' /\ SearchTold(w)'
<1>1. PICK actual \in Int, next \in Nat \cup {-1} :
        /\ Answer(w, {LineItem(job[w].at, n) : n \in job[w].from .. actual}, next, FALSE)
        /\ job[w].from - 1 <= actual
        /\ next # -1 => next = actual + 1
        /\ next = -1 /\ IsFull(job[w].at) =>
             \A n \in job[w].from .. WindowEnd(w) : n <= Len(Lines[job[w].at]) => n <= actual
  BY ReadAnswer
<1>2. job[w].pc = "lines" /\ broken' = broken /\ job[w].from \in Nat \ {0}
  BY ReadAnswer DEF ReadLines
<1>3. job[w].tool = "read" /\ job[w].pc \in Calling
  BY <1>2 DEF Shape, Calling, CacheFree, Pcs
<1> DEFINE items == {LineItem(job[w].at, n) : n \in job[w].from .. actual}
<1>4. PICK cut \in BOOLEAN : Answer(w, items, next, cut)
  BY <1>1, Zenon
<1>5. \A n \in job[w].from .. actual : LineItem(job[w].at, n) \in items
  OBVIOUS
<1> HIDE DEF items
<1>6. /\ job'[w].pc = "answered" /\ job'[w].tool = job[w].tool /\ job'[w].at = job[w].at
      /\ job'[w].first = job[w].first /\ job'[w].end = job[w].end
      /\ job'[w].from = next /\ job'[w].got = job[w].got \cup items
      /\ job'[w].more <=> next # -1
  BY <1>4, AnswerFields
<1>7. job'[w].tool = "read" /\ job'[w].pc \notin Calling
      /\ (Continued(w)' <=> next # -1) /\ (Ended(w)' <=> next = -1)
  BY <1>3, <1>6 DEF Calling, CacheFree, Continued, Ended
<1>8. ListTold(w)' /\ SearchTold(w)'
  BY <1>7 DEF ListTold, SearchTold
<1>9. ASSUME broken' = {}
      PROVE  /\ next # -1 =>
                  /\ job[w].first <= next
                  /\ \A n \in job[w].first .. next - 1 :
                       n <= Len(Lines[job[w].at]) => LineItem(job[w].at, n) \in job[w].got \cup items
             /\ next = -1 => \A n \in job[w].first .. Asked(w) :
                  n <= Len(Lines[job[w].at]) => LineItem(job[w].at, n) \in job[w].got \cup items
  <2>1. /\ job[w].first <= job[w].from
        /\ \A n \in job[w].first .. job[w].from - 1 :
             n <= Len(Lines[job[w].at]) => LineItem(job[w].at, n) \in job[w].got
    BY <1>2, <1>3, <1>9 DEF ReadTold
  <2>2. IsFull(job[w].at)
    BY <1>2, <1>9 DEF Sound
  <2>3. job[w].first \in Nat /\ job[w].from \in Nat /\ job[w].end \in Nat /\ DefaultLines \in Nat
    BY <1>2, SourceToolsAssumption DEF TypeOK, Jobs
  <2>4. Asked(w) \in Int /\ WindowEnd(w) \in Int /\ Asked(w) <= WindowEnd(w)
    <3>1. CASE job[w].end = 0
      <4>1. /\ Asked(w) = job[w].first + DefaultLines - 1
            /\ WindowEnd(w) = job[w].from + DefaultLines - 1
        BY <3>1 DEF Asked, WindowEnd
      <4>2. job[w].first <= job[w].from
        BY <2>1
      <4>3. QED BY <2>3, <4>1, <4>2
    <3>2. CASE job[w].end # 0
      <4>1. Asked(w) = job[w].end /\ WindowEnd(w) = job[w].end
        BY <3>2 DEF Asked, WindowEnd
      <4>2. QED BY <2>3, <4>1
    <3>3. QED BY <3>1, <3>2
  <2>5. CASE next # -1
    <3>1. next = actual + 1 /\ job[w].first <= next
      BY <1>1, <2>1, <2>3, <2>5
    <3>2. ASSUME NEW n \in job[w].first .. next - 1, n <= Len(Lines[job[w].at])
          PROVE  LineItem(job[w].at, n) \in job[w].got \cup items
      <4>1. n \in job[w].first .. job[w].from - 1 \/ n \in job[w].from .. actual
        BY <2>3, <3>1
      <4>2. QED BY <1>5, <2>1, <3>2, <4>1
    <3>3. QED BY <2>5, <3>1, <3>2
  <2>6. CASE next = -1
    <3>1. ASSUME NEW n \in job[w].first .. Asked(w), n <= Len(Lines[job[w].at])
          PROVE  LineItem(job[w].at, n) \in job[w].got \cup items
      <4>1. n \in job[w].first .. job[w].from - 1 \/ n \in job[w].from .. WindowEnd(w)
        BY <2>3, <2>4
      <4>2. n \in job[w].from .. WindowEnd(w) => n \in job[w].from .. actual
        BY <1>1, <2>2, <2>3, <2>4, <2>6, <3>1
      <4>3. QED BY <1>5, <2>1, <3>1, <4>1, <4>2
    <3>2. QED BY <2>6, <3>1
  <2>7. QED BY <2>5, <2>6
<1>10. Asked(w)' = Asked(w)
  BY <1>6 DEF Asked
<1>11. ReadTold(w)'
  BY <1>6, <1>7, <1>9, <1>10 DEF ReadTold
<1>12. QED BY <1>8, <1>11

\* What ripgrep finds in a directory of which every text file that is shown is cached.
LEMMA MatchedPaths ==
  ASSUME TypeOK, OnlyText, NEW w \in Workers, Complete(job[w].at)
  PROVE  /\ \A p \in Under(job[w].at) : ShownText(p) => Item(p, 0, 0, FALSE) \in Matches(w)
         /\ \A i \in Matches(w) : i.path \in Under(job[w].at) /\ StoredText(i.path)
         /\ \A i \in Matches(w) : i.tmp = TRUE => i.path \in Files /\ disk[i.path].tmp.st # "none"
<1>1. \A p \in There(w) : p \in Under(job[w].at) /\ StoredText(p) /\ p \in Files
  BY PathFacts DEF There, Under, OnlyText, TextFile
<1>2. \A p, b : Item(p, 0, 0, b).path = p /\ Item(p, 0, 0, b).tmp = b
  BY DEF Item
<1>3. ASSUME NEW i \in Matches(w)
      PROVE  i.path \in There(w) /\ (i.tmp = TRUE => disk[i.path].tmp.st # "none")
  <2>1. CASE i \in {Item(p, 0, 0, FALSE) : p \in {f \in There(w) : disk[f].target.st = "full"}}
    BY <1>2, <2>1
  <2>2. CASE i \in {Item(p, 0, 0, TRUE) : p \in {f \in There(w) : disk[f].tmp.st = "full"}}
    <3>1. PICK p \in There(w) : i = Item(p, 0, 0, TRUE) /\ disk[p].tmp.st = "full"
      BY <2>2
    <3>2. QED BY <1>2, <3>1
  <2>3. QED BY <2>1, <2>2 DEF Matches
<1>4. ASSUME NEW p \in Under(job[w].at), ShownText(p)
      PROVE  Item(p, 0, 0, FALSE) \in Matches(w)
  <2>1. p \in Paths /\ job[w].at \in Above[p] /\ p \in Leaves
    BY <1>4, TreeFacts DEF Under
  <2>2. disk[p].target.st = "full"
    BY <1>4, <2>1 DEF Complete, IsFull
  <2>3. p \in There(w)
    BY <2>1, <2>2 DEF There, Under
  <2>4. QED BY <2>2, <2>3 DEF Matches
<1>5. QED BY <1>1, <1>3, <1>4

\* An answer of search_text.
LEMMA RipgrepTold ==
  ASSUME TypeOK, OnlyText, ShapeInv, HeldInv, NEW w \in Workers, Shape(w), broken = {} => Sound(w), Ripgrep(w), ~Error(w),
         SearchTold(w)
  PROVE  ListTold(w)' /\ ReadTold(w)' /\ SearchTold(w)'
<1>1. PICK page \in SUBSET Matches(w), next \in Nat \cup {-1}, cut \in BOOLEAN :
        /\ Answer(w, page, next, cut)
        /\ job[w].from = 0 /\ next = -1 /\ ~cut => page = Matches(w)
  BY RipgrepAnswer
<1>2. job[w].pc = "rg" /\ broken' = broken /\ tree' = tree
  BY DEF Ripgrep
<1>3. job[w].tool = "search" /\ job[w].pc \in Calling
  BY <1>2 DEF Shape, Calling, CacheFree, Pcs
<1>4. /\ job'[w].pc = "answered" /\ job'[w].tool = job[w].tool /\ job'[w].at = job[w].at
      /\ job'[w].paged = job[w].paged /\ job'[w].got = job[w].got \cup page
      /\ job'[w].more <=> next # -1
      /\ job'[w].cut <=> job[w].cut \/ cut
  BY <1>1, AnswerFields
<1>5. job'[w].tool = "search" /\ job'[w].pc \notin Calling /\ (Ended(w)' <=> next = -1)
  BY <1>3, <1>4 DEF Calling, CacheFree, Ended
<1>6. ListTold(w)' /\ ReadTold(w)'
  BY <1>5 DEF ListTold, ReadTold
<1>7. ASSUME broken' = {}, next = -1, ~job'[w].paged, ~job'[w].cut
      PROVE  job'[w].got = Matches(w)
  <2>1. ~job[w].paged /\ ~cut
    BY <1>4, <1>7, Zenon
  <2>2. job[w].from = 0 /\ job[w].got = {}
    BY <1>3, <2>1 DEF SearchTold
  <2>3. page = Matches(w)
    BY <1>1, <1>7, <2>1, <2>2
  <2>4. QED BY <1>4, <2>2, <2>3
<1>8. ASSUME broken' = {}
      PROVE  /\ \A p \in Under(job[w].at) : ShownText(p) => Item(p, 0, 0, FALSE) \in Matches(w)
             /\ \A i \in Matches(w) : i.path \in Under(job[w].at) /\ StoredText(i.path)
             /\ \A i \in Matches(w) : i.tmp = TRUE => i.path \in Files /\ disk[i.path].tmp.st # "none"
  <2>1. Complete(job[w].at)
    BY <1>2, <1>8 DEF Sound
  <2>2. QED BY <2>1, MatchedPaths
<1>9. ASSUME NEW f \in Files, disk[f].tmp.st # "none"
      PROVE  starts' > 1
  BY <1>2, <1>9, AnothersFile
<1>10. SearchTold(w)'
  <2>1. ASSUME broken' = {}, next = -1, ~job'[w].paged, ~job'[w].cut
        PROVE  /\ \A p \in Under(job'[w].at) : ShownText(p)' => Item(p, 0, 0, FALSE) \in job'[w].got
               /\ \A i \in job'[w].got : i.path \in Under(job'[w].at) /\ StoredText(i.path)'
               /\ \A i \in job'[w].got : i.tmp = TRUE => starts' > 1
    <3>1. job'[w].got = Matches(w)
      BY <1>7, <2>1
    <3>2. Under(job'[w].at) = Under(job[w].at)
      BY <1>4
    <3>3. QED BY <1>2, <1>8, <1>9, <2>1, <3>1, <3>2
  <2>2. QED BY <1>5, <2>1 DEF SearchTold, Under
<1>11. QED BY <1>6, <1>10

\* What the worker that moves has told its caller.
LEMMA OwnTold ==
  ASSUME TypeOK, ShapeInv, HeldInv, CacheInv, NEW w \in Workers, Step(w),
         ListTold(w), ReadTold(w), SearchTold(w)
  PROVE  ListTold(w)' /\ ReadTold(w)' /\ SearchTold(w)'
<1>0. Shape(w) /\ OnlyText /\ (broken = {} => Sound(w))
  BY DEF ShapeInv, CacheInv, Calm
<1>1. CASE Begins(w)
  <2>1. \A dir : Under(dir) \in SUBSET Paths /\ {p \in Paths : Parent[p] = dir} \in SUBSET Paths
    BY PathFacts
  <2>2. CASE ListFiles(w)
    <3>1. PICK dir \in Directories \cup {Root}, recursive \in BOOLEAN :
            Begin(w, "list", dir, IF recursive THEN Under(dir)
                                  ELSE {p \in Paths : Parent[p] = dir}, 0, 0)
      BY <2>2 DEF ListFiles
    <3>2. PICK q \in SUBSET Paths : Begin(w, "list", dir, q, 0, 0)
      BY <2>1, <3>1
    <3>3. QED BY <3>2, BeginTold
  <2>3. CASE SearchFile(w)
    <3>1. PICK q \in SUBSET Paths : Begin(w, "list", Root, q, 0, 0)
      BY <2>3, SourceToolsAssumption DEF SearchFile
    <3>2. QED BY <3>1, BeginTold
  <2>4. CASE ReadFile(w)
    <3>1. PICK p \in Paths, window \in Windows : Begin(w, "read", p, {}, window[1], window[2])
      BY <2>4 DEF ReadFile
    <3>2. window[1] \in Nat /\ {} \in SUBSET Paths
      BY SourceToolsAssumption
    <3>3. QED BY <3>1, <3>2, BeginTold
  <2>5. CASE Search(w)
    <3>1. PICK dir \in Directories \cup {Root} : Begin(w, "search", dir, {}, 0, 0)
      BY <2>5 DEF Search
    <3>2. QED BY <3>1, BeginTold
  <2>6. QED BY <1>1, <2>2, <2>3, <2>4, <2>5 DEF Begins
<1>2. CASE Continue(w)
  BY <1>2, ContinueTold
<1>3. CASE GiveUp(w) \/ Crash(w) \/ Start(w)
  <2>1. job'[w].pc \in {"idle", "down", "cleanup"}
    BY <1>3, FreeFields
  <2>2. QED BY <2>1, ToldElsewhere
<1>4. CASE Error(w)
  <2>1. job'[w].pc = "failed"
    BY <1>4, ErrorFields
  <2>2. QED BY <2>1, ToldElsewhere
<1>5. CASE Cleanup(w)
  <2>1. job[w] \in Jobs /\ job[w].pc = "cleanup"
    BY <1>5 DEF TypeOK, Cleanup
  <2>2. PICK rest : job'[w] = IF rest = {} THEN NoJob ELSE [job[w] EXCEPT !.q = rest]
    BY <1>5, CleanupJob
  <2>3. job'[w].pc \in {"idle", "cleanup"}
    <3>1. CASE rest = {}
      BY <2>2, <3>1 DEF NoJob
    <3>2. CASE rest # {}
      BY <2>1, <2>2, <3>2 DEF Jobs
    <3>3. QED BY <3>1, <3>2
  <2>4. QED BY <2>3, ToldElsewhere
<1>6. CASE Listed(w)
  BY <1>0, <1>6, ListedTold
<1>7. CASE ReadLines(w) /\ ~Error(w)
  BY <1>0, <1>7, LinesTold
<1>8. CASE Ripgrep(w) /\ ~Error(w)
  BY <1>0, <1>8, RipgrepTold
<1>9. CASE ~Error(w) /\ (SearchText(w) \/ PrefixLock(w) \/ MarkRead(w) \/ EnsureFile(w) \/ FileSteps(w))
  BY <1>9, StageTold
<1>10. FetchFails(w) => Error(w)
  BY DEF FetchFails
<1>11. QED BY <1>1, <1>2, <1>3, <1>4, <1>5, <1>6, <1>7, <1>8, <1>9, <1>10 DEF Step, Begins, FileSteps

\* Every step keeps what is said of the answers.
LEMMA ToldStep ==
  ASSUME TypeOK, ShapeInv, HeldInv, CacheInv, ToldInv, NEW w \in Workers, Step(w)
  PROVE  ToldInv'
<1>1. ListTold(w)' /\ ReadTold(w)' /\ SearchTold(w)'
  BY OwnTold DEF ToldInv
<1>2. ASSUME NEW v \in Workers \ {w}
      PROVE  ListTold(v)' /\ ReadTold(v)' /\ SearchTold(v)'
  BY OthersTold DEF ToldInv
<1>3. QED BY <1>1, <1>2 DEF ToldInv

-----------------------------------------------------------------------------
(* Theorems                                                                *)

\* The inductive invariant of the source tools.
ToolsInv == TypeOK /\ ShapeInv /\ HeldInv /\ CacheInv /\ ToldInv

\* The initial states satisfy it.
LEMMA ToolsInit == Init => ToolsInv
<1> SUFFICES ASSUME Init
             PROVE  ToolsInv
  OBVIOUS
<1>1. \A w \in Workers : job[w] = [NoJob EXCEPT !.pc = "down"]
  BY DEF Init
<1>2. \A w \in Workers : /\ job[w].pc = "down" /\ job[w].tool = "none" /\ job[w].handle = "none"
                         /\ ~job[w].more
  BY <1>1 DEF NoJob
<1>3. \A f \in Files : disk[f] = [tmp |-> Absent, target |-> Absent]
  BY DEF Init
<1>4. TypeOK
  <2>1. [NoJob EXCEPT !.pc = "down"] \in Jobs
    BY SomeJobs
  <2>2. Absent \in Contents
    BY DEF Contents
  <2>3. disk \in [Files -> [tmp : Contents, target : Contents]]
    BY <2>2 DEF Init
  <2>4. job \in [Workers -> Jobs]
    BY <2>1 DEF Init
  <2>5. /\ tree \in Trees /\ starts \in 0 .. MaxStarts /\ locks \in Nat /\ calls \in 0 .. MaxCalls
        /\ broken \subseteq {"collision", "cleanup"}
    BY SourceToolsAssumption DEF Init
  <2>6. QED BY <2>3, <2>4, <2>5 DEF TypeOK
<1>5. ShapeInv
  <2>1. OnlyText
    BY <1>3, PathFacts DEF OnlyText, Absent
  <2>2. \A w \in Workers : Shape(w)
    BY <1>2 DEF Shape, Fetching, Covering, Calling, CacheFree, Continued, Writing
  <2>3. QED BY <2>1, <2>2 DEF ShapeInv
<1>6. Calm
  <2>1. NotTorn
    BY <1>3 DEF NotTorn, Absent
  <2>2. disk[Coverage].target.val = {}
    BY <1>3, PathFacts DEF Absent
  <2>3. Covered
    BY <2>2 DEF Covered
  <2>4. \A w \in Workers : ~Removing(w) /\ job[w].pc \notin Writing
    BY <1>2 DEF Removing, Writing
  <2>5. Removed /\ Alone /\ Apart
    BY <2>4 DEF Removed, Alone, Apart
  <2>6. \A w \in Workers : Sound(w)
    BY <1>2 DEF Sound, Fetching, Covering, Writing
  <2>7. QED BY <2>1, <2>3, <2>5, <2>6 DEF Calm
<1>7. ToldInv
  BY <1>2 DEF ToldInv, ListTold, ReadTold, SearchTold
<1>8. HeldInv
  <2>1. Up = {} /\ Cardinality(Up) = 0 /\ starts = 0
    BY <1>2, FS_EmptySet DEF Up, Init
  <2>2. \A f \in Files : disk[f].tmp.st = "none" /\ disk[f].target.st = "none"
    BY <1>3 DEF Absent
  <2>3. \A f \in Files : Held(f)
    BY <2>2 DEF Held
  <2>4. QED BY <2>1, <2>3 DEF HeldInv
<1>9. QED BY <1>4, <1>5, <1>6, <1>7, <1>8 DEF ToolsInv, CacheInv

\* Every step keeps it.
LEMMA ToolsStep ==
  ASSUME ToolsInv, [Next]_vars
  PROVE  ToolsInv'
<1>1. ASSUME NEW w \in Workers, Step(w)
      PROVE  ToolsInv'
  <2>1. TypeOK /\ ShapeInv /\ HeldInv /\ CacheInv /\ ToldInv /\ Shape(w)
    BY DEF ToolsInv, ShapeInv
  <2>2. TypeOK'
    BY <1>1, <2>1, StepTypes
  <2>3. ShapeInv'
    BY <1>1, <2>1, ShapeStep
  <2>4. CacheInv'
    BY <1>1, <2>1, CacheStep
  <2>5. ToldInv'
    BY <1>1, <2>1, ToldStep
  <2>6. HeldInv'
    BY <1>1, <2>1, HeldStep
  <2>7. QED BY <2>2, <2>3, <2>4, <2>5, <2>6 DEF ToolsInv
<1>2. CASE UNCHANGED vars
  <2>1. /\ tree' = tree /\ disk' = disk /\ job' = job /\ locks' = locks /\ starts' = starts
        /\ calls' = calls /\ broken' = broken
    BY <1>2 DEF vars
  <2>2. TypeOK'
    BY <2>1 DEF ToolsInv, TypeOK
  <2>3. ShapeInv'
    BY <2>1 DEF ToolsInv, ShapeInv, OnlyText, TextFile, Shape, Continued
  <2>4. CacheInv'
    BY <2>1 DEF ToolsInv, CacheInv, Calm, NotTorn, Covered, Removed, Alone, Apart, Sound,
                Removing, Complete, IsFull, FileOf
  <2>5. ToldInv'
    <3>1. ASSUME NEW v \in Workers
          PROVE  ListTold(v)' /\ ReadTold(v)' /\ SearchTold(v)'
      <4>1. ListTold(v) /\ ReadTold(v) /\ SearchTold(v)
        BY DEF ToolsInv, ToldInv
      <4>2. (Continued(v)' <=> Continued(v)) /\ (Ended(v)' <=> Ended(v))
        BY <2>1 DEF Continued, Ended
      <4>3. ListTold(v)'
        <5>1. Rows(v)' = Rows(v) /\ PathsOf(job[v].got)' = PathsOf(job[v].got)
          BY <2>1 DEF Rows, visible_path_sql, PathsOf
        <5>2. Shown(v)' = Shown(v)
          BY <2>1, <5>1 DEF Shown, is_secret_path
        <5>3. QED BY <2>1, <4>1, <4>2, <5>1, <5>2 DEF ListTold
      <4>4. ReadTold(v)'
        BY <2>1, <4>1, <4>2 DEF ReadTold, Asked
      <4>5. SearchTold(v)'
        BY <2>1, <4>1, <4>2 DEF SearchTold
      <4>6. QED BY <4>3, <4>4, <4>5
    <3>2. QED BY <3>1 DEF ToldInv
  <2>6. HeldInv'
    <3>1. HeldInv /\ Up' = Up
      BY <2>1 DEF ToolsInv, Up
    <3>2. QED BY <2>1, <3>1 DEF HeldInv, Held, FileOf
  <2>7. QED BY <2>2, <2>3, <2>4, <2>5, <2>6 DEF ToolsInv
<1>3. QED BY <1>1, <1>2 DEF Next

\* The invariant holds in every reachable state, whatever crashed, collided or was
\* removed: after a hazard it still says ShapeInv, HeldInv and the cursors of listings.
THEOREM ToolsInvariant == Spec => []ToolsInv
<1>1. QED BY ToolsInit, ToolsStep, PTL DEF Spec

\* Every variable of the source tools keeps its type.
THEOREM ToolsTypeCorrect == Spec => []TypeOK
<1>1. ToolsInv => TypeOK
  BY DEF ToolsInv
<1>2. QED BY <1>1, ToolsInvariant, PTL

\* Whatever crashes in between, a cached file is complete and a covered directory
\* has all its text files that the SQL shows, until two workers write one file or a
\* cleanup is interrupted or meets a call.
THEOREM CacheStaysIntact == Spec => []CacheIntact
<1>1. ToolsInv => CacheIntact
  <2> SUFFICES ASSUME ToolsInv, Undisturbed
               PROVE  /\ \A f \in Files : disk[f].target.st # "torn"
                      /\ \A dir \in disk[Coverage].target.val, p \in Paths :
                           (dir \in Above[p] /\ ShownText(p)) => disk[p].target.st = "full"
    BY DEF CacheIntact
  <2>1. Calm /\ \A w \in Workers : ~Removing(w)
    BY DEF ToolsInv, CacheInv, Undisturbed, Removing
  <2>2. \A dir \in disk[Coverage].target.val : Complete(dir)
    BY <2>1 DEF Calm, Covered
  <2>3. \A p \in Paths : ShownText(p) => p \in Leaves
    BY TreeFacts DEF ToolsInv
  <2>4. QED BY <2>1, <2>2, <2>3 DEF Calm, NotTorn, Complete, IsFull
<1>2. QED BY <1>1, ToolsInvariant, PTL

\* Until a process crashes, every temporary file is open in some process and every
\* truncated source file is about to be written, whatever collides or is removed.
THEOREM OnlyCrashesLeave == Spec => []LeftByCrash
<1>1. ToolsInv => LeftByCrash
  <2> SUFFICES ASSUME ToolsInv, Crashes = 0
               PROVE  /\ \A f \in Files :
                           disk[f].tmp.st # "none" => \E w \in Writers(f) : job[w].handle = "tmp"
                      /\ \A f \in Paths :
                           disk[f].target.st = "torn" =>
                             \E w \in Writers(f) : job[w].handle = "target" /\ job[w].pc = "write"
    BY DEF LeftByCrash
  <2>1. starts \in Nat /\ Cardinality(Up) \in Nat
    BY UpFinite DEF ToolsInv, TypeOK
  <2>2. \A f \in Files : Held(f)
    BY <2>1 DEF ToolsInv, HeldInv, Crashes
  <2>3. \A f : \A w \in Workers : job[w].handle \in {"tmp", "target"} /\ FileOf(w) = f => w \in Writers(f)
    BY DEF Writers, FileOf
  <2>4. QED BY <2>2, <2>3, PathFacts DEF Held
<1>2. QED BY <1>1, ToolsInvariant, PTL

\* A search_text answer that claims to be complete names every text file below the
\* directory that the SQL shows; what else it names are stored text files below it and,
\* if another process has run, their temporary files.
THEOREM SearchIsComplete == Spec => []SearchComplete
<1>1. ToolsInv => SearchComplete
  <2> SUFFICES ASSUME ToolsInv, NEW w \in Workers, Answered(w, "search"), Undisturbed,
                      ~job[w].more, ~job[w].paged, ~job[w].cut
               PROVE  /\ {p \in Under(job[w].at) : ShownText(p)} \subseteq Matched(w, FALSE)
                      /\ Matched(w, FALSE) \cup Matched(w, TRUE)
                           \subseteq {p \in Under(job[w].at) : StoredText(p)}
                      /\ Matched(w, TRUE) # {} => starts > 1
    BY DEF SearchComplete
  <2>1. SearchTold(w) /\ broken = {} /\ Ended(w) /\ job[w].tool = "search"
    BY DEF ToolsInv, ToldInv, Undisturbed, Answered, Ended
  <2>2. /\ \A p \in Under(job[w].at) : ShownText(p) => Item(p, 0, 0, FALSE) \in job[w].got
        /\ \A i \in job[w].got : i.path \in Under(job[w].at) /\ StoredText(i.path)
        /\ \A i \in job[w].got : i.tmp = TRUE => starts > 1
    BY <2>1 DEF SearchTold
  <2>3. \A p : Item(p, 0, 0, FALSE).path = p /\ Item(p, 0, 0, FALSE).tmp = FALSE
    BY DEF Item
  <2>4. \A p \in Under(job[w].at) : ShownText(p) => p \in Matched(w, FALSE)
    BY <2>2, <2>3 DEF Matched
  <2>5. \A p \in Matched(w, FALSE) \cup Matched(w, TRUE) :
          p \in Under(job[w].at) /\ StoredText(p)
    BY <2>2 DEF Matched
  <2>6. Matched(w, TRUE) # {} => starts > 1
    BY <2>2 DEF Matched
  <2>7. QED BY <2>4, <2>5, <2>6
<1>2. QED BY <1>1, ToolsInvariant, PTL

\* A caller of read_file that follows next_start_line to the end misses no line.
THEOREM ReadIsComplete == Spec => []ReadComplete
<1>1. ToolsInv => ReadComplete
  <2> SUFFICES ASSUME ToolsInv, NEW w \in Workers, Answered(w, "read"), ~job[w].more, Undisturbed,
                      NEW n \in job[w].first .. Min({Asked(w), Len(Lines[job[w].at])})
               PROVE  LineItem(job[w].at, n) \in job[w].got
    BY DEF ReadComplete, Asked, LineItem
  <2>1. ReadTold(w) /\ broken = {} /\ Ended(w) /\ job[w].tool = "read" /\ Shape(w) /\ job[w] \in Jobs
    BY DEF ToolsInv, ToldInv, ShapeInv, TypeOK, Undisturbed, Answered, Ended
  <2>2. job[w].at \in Paths
    BY <2>1 DEF Shape, Ended
  <2>3. Len(Lines[job[w].at]) \in Nat /\ Asked(w) \in Int /\ job[w].first \in Nat
    <3>1. Lines[job[w].at] \in Seq(Nat)
      BY <2>2, SourceToolsAssumption
    <3>2. DefaultLines \in Nat /\ job[w].first \in Nat /\ job[w].end \in Nat
      BY <2>1, SourceToolsAssumption DEF Jobs
    <3>3. QED BY <3>1, <3>2 DEF Asked
  <2> DEFINE a == Asked(w)
             l == Len(Lines[job[w].at])
  <2> HIDE DEF a, l
  <2>4. a \in Int /\ l \in Int
    BY <2>3 DEF a, l
  <2>5. Min({a, l}) \in {a, l} /\ Min({a, l}) <= a /\ Min({a, l}) <= l
    BY <2>4, MinOfTwo
  <2>6. n \in job[w].first .. Min({a, l})
    BY DEF a, l
  <2>7. n \in job[w].first .. a /\ n <= l
    BY <2>3, <2>4, <2>5, <2>6
  <2>8. QED BY <2>1, <2>7 DEF ReadTold, a, l
<1>2. QED BY <1>1, ToolsInvariant, PTL

\* A caller of list_files or search_file that follows next_cursor sees the rows without
\* a gap, whatever the page size; at the end it misses only rows behind one that the
\* SQL selects and is_secret_path refuses.
THEOREM ListIsComplete == Spec => []ListComplete
<1>1. ToolsInv => ListComplete
  <2> SUFFICES ASSUME ToolsInv, NEW w \in Workers, Answered(w, "list")
               PROVE  /\ Gapless(PathsOf(job[w].got), Shown(w))
                      /\ ~job[w].more => Behind(PathsOf(job[w].got), Rows(w), Shown(w))
    BY DEF ListComplete, Gapless, Behind, PathsOf, Shown, Rows
  <2>1. ListTold(w) /\ Shape(w) /\ job[w].tool = "list" /\ (Ended(w) \/ Continued(w))
        /\ (~job[w].more => Ended(w))
    BY DEF ToolsInv, ToldInv, ShapeInv, Answered, Ended, Continued
  <2>2. CASE Ended(w)
    BY <2>1, <2>2 DEF ListTold
  <2>3. CASE Continued(w)
    <3>1. /\ job[w].from \in Nat /\ PathsOf(job[w].got) = First(Rows(w), job[w].from)
          /\ PathsOf(job[w].got) \subseteq Shown(w) /\ job[w].more
      BY <2>1, <2>3 DEF ListTold, Continued
    <3>2. Rows(w) \in SUBSET Nat /\ IsFiniteSet(Rows(w)) /\ Shown(w) \subseteq Rows(w)
      <4>1. Rows(w) \subseteq Paths
        BY <2>1 DEF Shape, Rows
      <4>2. QED BY <4>1, PathFacts, FS_Subset DEF Shown
    <3>3. \A i \in PathsOf(job[w].got), j \in Rows(w) : j <= i => j \in PathsOf(job[w].got)
      BY <3>1, <3>2, FirstRows
    <3>4. \A p \in PathsOf(job[w].got), r \in Shown(w) : r < p => r \in PathsOf(job[w].got)
      BY <3>1, <3>2, <3>3
    <3>5. QED BY <3>1, <3>4 DEF Gapless
  <2>4. QED BY <2>1, <2>2, <2>3
<1>2. QED BY <1>1, ToolsInvariant, PTL

-----------------------------------------------------------------------------
(* Secret paths                                                            *)

\* A worker has told nothing of a secret path and does not read one.
Discreet(w) ==
  /\ \A i \in job[w].got : ~is_secret_path(i.path)
  /\ job[w].tool = "read" /\ job[w].pc \in Calling \cup {"answered"} => ~is_secret_path(job[w].at)

\* A worker without a call, or whose call failed, has nothing to tell.
LEMMA FreeDiscreet ==
  ASSUME NEW w \in Workers,
         \/ job'[w] = NoJob \/ job'[w] = [NoJob EXCEPT !.pc = "down"]
         \/ job'[w] = [NoJob EXCEPT !.pc = "cleanup", !.q = {1, 2, 3}]
         \/ \E t : job'[w] = [NoJob EXCEPT !.pc = "failed", !.tool = t]
  PROVE  Discreet(w)'
<1>1. job'[w].got = {} /\ job'[w].pc \in {"idle", "down", "cleanup", "failed"}
  <2>1. CASE job'[w] = NoJob
    BY <2>1 DEF NoJob
  <2>2. CASE job'[w] = [NoJob EXCEPT !.pc = "down"]
    BY <2>2 DEF NoJob
  <2>3. CASE job'[w] = [NoJob EXCEPT !.pc = "cleanup", !.q = {1, 2, 3}]
    BY <2>3 DEF NoJob
  <2>4. CASE \E t : job'[w] = [NoJob EXCEPT !.pc = "failed", !.tool = t]
    BY <2>4 DEF NoJob
  <2>5. QED BY <2>1, <2>2, <2>3, <2>4
<1>2. QED BY <1>1 DEF Discreet, Calling, CacheFree

\* A secret path is refused before the call begins.
LEMMA BeginDiscreet ==
  ASSUME TypeOK, NEW w \in Workers, NEW tool, NEW place, NEW q, NEW from, NEW end,
         Begin(w, tool, place, q, from, end), tree' = tree
  PROVE  Discreet(w)'
<1>1. /\ job'[w].pc \in {"call", "failed"} /\ job'[w].at = place /\ job'[w].got = {}
  BY BeginFields
<1>2. job'[w].pc = "call" => ~is_secret_path(place)
  <2> DEFINE stage == IF place \in Paths /\ ~Permitted(place) THEN "failed" ELSE "call"
  <2>1. job'[w] = [NoJob EXCEPT !.pc = stage, !.tool = tool, !.at = place, !.q = q,
                                !.first = from, !.from = from, !.end = end]
    BY JobOf DEF Begin
  <2>2. stage = "call" => place \notin Paths \/ ~is_secret_path(place)
    BY DEF Permitted
  <2>3. place \notin Paths => ~is_secret_path(place)
    BY PathFacts DEF is_secret_path
  <2> HIDE DEF stage
  <2>4. job'[w].pc = stage
    BY <2>1 DEF NoJob
  <2>5. QED BY <2>2, <2>3, <2>4
<1>3. QED BY <1>1, <1>2 DEF Discreet, is_secret_path, Calling, CacheFree

\* An answer is discreet when its items are.
LEMMA AnswerDiscreet ==
  ASSUME TypeOK, NEW w \in Workers, NEW items, NEW next, NEW cut \in BOOLEAN, tree' = tree,
         Answer(w, items, next, cut), Discreet(w), job[w].pc \in Calling,
         \A i \in items : ~is_secret_path(i.path)
  PROVE  Discreet(w)'
<1>1. /\ job'[w].tool = job[w].tool /\ job'[w].at = job[w].at
      /\ job'[w].got = job[w].got \cup items
  BY AnswerFields
<1>2. \A i \in job'[w].got : ~is_secret_path(i.path)
  BY <1>1 DEF Discreet
<1>3. job'[w].tool = "read" => ~is_secret_path(job[w].at)
  BY <1>1 DEF Discreet
<1>4. QED BY <1>1, <1>2, <1>3 DEF Discreet, is_secret_path

\* The items of the three kinds of answer.
LEMMA AnswersDiscreet ==
  ASSUME TypeOK, ShapeInv, NEW w \in Workers, Discreet(w), ~Error(w),
         Listed(w) \/ ReadLines(w) \/ Ripgrep(w)
  PROVE  Discreet(w)'
<1>0. Shape(w) /\ OnlyText
  BY DEF ShapeInv
<1>1. tree' = tree /\ job[w].pc \in Calling
  BY DEF Listed, ReadLines, Ripgrep, Calling, CacheFree, Pcs
<1>2. \A p : Item(p, 0, 0, FALSE).path = p /\ Item(p, 0, 0, TRUE).path = p
  BY DEF Item
<1>3. CASE Listed(w)
  <2> DEFINE shown == _visible_file_rows(list_files(job[w].q, job[w].from))
             page == _page_rows(shown, job[w].from)
             items == {Item(p, 0, 0, FALSE) : p \in page[1]}
             next == page[2]
  <2>1. Answer(w, items, next, FALSE)
    BY <1>0, <1>3, ListedAnswer
  <2>2. \A p \in shown : ~is_secret_path(p)
    BY DEF _visible_file_rows
  <2>3. \A p \in page[1] : p \in shown
    BY DEF _page_rows, First
  <2> HIDE DEF shown, page
  <2>4. \A i \in items : i.path \in page[1]
    BY <1>2
  <2> HIDE DEF items, next
  <2>5. \A i \in items : ~is_secret_path(i.path)
    BY <2>2, <2>3, <2>4
  <2>6. PICK cut \in BOOLEAN : Answer(w, items, next, cut)
    BY <2>1, Zenon
  <2>7. QED BY <1>1, <2>5, <2>6, AnswerDiscreet
<1>4. CASE ReadLines(w)
  <2>1. PICK actual \in Int, next \in Nat \cup {-1} :
          Answer(w, {LineItem(job[w].at, n) : n \in job[w].from .. actual}, next, FALSE)
    BY <1>0, <1>4, ReadAnswer
  <2> DEFINE items == {LineItem(job[w].at, n) : n \in job[w].from .. actual}
  <2>2. job[w].tool = "read"
    BY <1>0, <1>4 DEF ReadLines, Shape
  <2>3. ~is_secret_path(job[w].at)
    BY <1>1, <2>2 DEF Discreet
  <2>4. \A i \in items : i.path = job[w].at
    <3>1. \A p, n : LineItem(p, n).path = p
      BY DEF LineItem, Item
    <3>2. QED BY <3>1
  <2>5. Answer(w, items, next, FALSE)
    BY <2>1
  <2> HIDE DEF items
  <2>6. \A i \in items : ~is_secret_path(i.path)
    BY <2>3, <2>4
  <2>7. PICK cut \in BOOLEAN : Answer(w, items, next, cut)
    BY <2>5, Zenon
  <2>8. QED BY <1>1, <2>6, <2>7, AnswerDiscreet
<1>5. CASE Ripgrep(w)
  <2>1. PICK page \in SUBSET Matches(w), next \in Nat \cup {-1}, cut \in BOOLEAN :
          Answer(w, page, next, cut)
    BY <1>0, <1>5, RipgrepAnswer
  <2>2. \A p \in There(w) : ~is_secret_path(p)
    BY <1>0 DEF There, Under, OnlyText, TextFile, is_secret_path
  <2>3. ASSUME NEW i \in Matches(w)
        PROVE  i.path \in There(w)
    <3>1. CASE i \in {Item(p, 0, 0, FALSE) : p \in {f \in There(w) : disk[f].target.st = "full"}}
      BY <1>2, <3>1
    <3>2. CASE i \in {Item(p, 0, 0, TRUE) : p \in {f \in There(w) : disk[f].tmp.st = "full"}}
      BY <1>2, <3>2
    <3>3. QED BY <3>1, <3>2 DEF Matches
  <2>4. \A i \in page : ~is_secret_path(i.path)
    BY <2>1, <2>2, <2>3
  <2>5. QED BY <1>1, <2>1, <2>4, AnswerDiscreet
<1>6. QED BY <1>3, <1>4, <1>5

\* The worker that moves.
LEMMA OwnDiscreet ==
  ASSUME TypeOK, ShapeInv, NEW w \in Workers, Discreet(w), Step(w)
  PROVE  Discreet(w)'
<1>0. job[w] \in Jobs /\ tree' = tree
  BY TreeStays DEF TypeOK
<1>1. CASE Begins(w)
  BY <1>0, <1>1, BeginDiscreet DEF Begins, ListFiles, SearchFile, ReadFile, Search
<1>2. CASE Continue(w)
  <2>1. CASE job[w].more
    <3>1. job'[w] = [job[w] EXCEPT !.pc = "call", !.more = FALSE, !.paged = TRUE]
      BY <1>2, <2>1, JobOf DEF Continue
    <3>2. job'[w].tool = job[w].tool /\ job'[w].at = job[w].at /\ job'[w].got = job[w].got
      BY <1>0, <3>1 DEF Jobs
    <3>3. job[w].pc = "answered"
      BY <1>2 DEF Continue
    <3>4. QED BY <1>0, <3>2, <3>3 DEF Discreet, is_secret_path
  <2>2. CASE ~job[w].more
    <3>1. job'[w] = NoJob
      BY <1>2, <2>2, JobOf DEF Continue
    <3>2. QED BY <3>1, FreeDiscreet
  <2>3. QED BY <2>1, <2>2
<1>3. CASE GiveUp(w) \/ Crash(w) \/ Start(w)
  <2>1. \/ job'[w] = NoJob \/ job'[w] = [NoJob EXCEPT !.pc = "down"]
        \/ job'[w] = [NoJob EXCEPT !.pc = "cleanup", !.q = {1, 2, 3}]
    BY <1>3, JobOf DEF GiveUp, Crash, Start
  <2>2. QED BY <2>1, FreeDiscreet
<1>4. CASE Error(w)
  <2>1. job'[w] = [NoJob EXCEPT !.pc = "failed", !.tool = job[w].tool]
    BY <1>4, JobOf DEF Error
  <2>2. QED BY <2>1, FreeDiscreet
<1>5. CASE Cleanup(w)
  <2>1. job[w].pc = "cleanup"
    BY <1>5 DEF Cleanup
  <2>2. PICK rest : job'[w] = IF rest = {} THEN NoJob ELSE [job[w] EXCEPT !.q = rest]
    BY <1>5, CleanupJob
  <2>3. CASE rest = {}
    BY <2>2, <2>3, FreeDiscreet
  <2>4. CASE rest # {}
    <3>1. job'[w].pc = "cleanup" /\ job'[w].got = job[w].got
      BY <1>0, <2>1, <2>2, <2>4 DEF Jobs
    <3>2. QED BY <1>0, <3>1 DEF Discreet, is_secret_path, Calling, CacheFree
  <2>5. QED BY <2>3, <2>4
<1>6. CASE (Listed(w) \/ ReadLines(w) \/ Ripgrep(w)) /\ ~Error(w)
  BY <1>6, AnswersDiscreet
<1>7. CASE ~Error(w) /\ (SearchText(w) \/ PrefixLock(w) \/ MarkRead(w) \/ EnsureFile(w) \/ FileSteps(w))
  <2>1. job[w].pc \in Calling /\ Stays(w)
    BY <1>7, StageFields
  <2>2. QED BY <1>0, <2>1 DEF Discreet, Stays, is_secret_path
<1>8. FetchFails(w) => Error(w)
  BY DEF FetchFails
<1>9. QED BY <1>1, <1>2, <1>3, <1>4, <1>5, <1>6, <1>7, <1>8 DEF Step, Begins, FileSteps

\* The others.
LEMMA OthersDiscreet ==
  ASSUME TypeOK, NEW w \in Workers, Step(w), NEW v \in Workers \ {w}, Discreet(v)
  PROVE  Discreet(v)'
<1>1. job[v] \in Jobs /\ tree' = tree
  BY TreeStays DEF TypeOK
<1>2. /\ job'[v].got = job[v].got /\ job'[v].tool = job[v].tool /\ job'[v].at = job[v].at
      /\ job'[v].pc = job[v].pc
  <2>1. CASE job'[v] = job[v]
    BY <2>1
  <2>2. ASSUME NEW h, job'[v] = [job[v] EXCEPT !.handle = h]
        PROVE  /\ job'[v].got = job[v].got /\ job'[v].tool = job[v].tool /\ job'[v].at = job[v].at
               /\ job'[v].pc = job[v].pc
    BY <1>1, <2>2 DEF Jobs
  <2>3. QED BY <2>1, <2>2, Others
<1>3. QED BY <1>1, <1>2 DEF Discreet, is_secret_path

\* The invariant of the theorem.
DiscreetInv == ToolsInv /\ \A w \in Workers : Discreet(w)

\* No tool ever tells anything of a secret path, whatever crashes, collides or is
\* removed: permissions refuse it as an argument, _visible_file_rows drops it from a
\* listing, and the scanner keeps it out of the files that search_text caches, so that
\* ripgrep, which looks at every file of the directory, cannot find it.
NothingSecret == \A w \in Workers : \A i \in job[w].got : ~is_secret_path(i.path)

\* It holds in every reachable state.
THEOREM SecretsKept == Spec => []NothingSecret
<1>1. Init => DiscreetInv
  <2> SUFFICES ASSUME Init
               PROVE  DiscreetInv
    OBVIOUS
  <2>1. \A w \in Workers : job[w] = [NoJob EXCEPT !.pc = "down"]
    BY DEF Init
  <2>2. \A w \in Workers : job[w].got = {} /\ job[w].tool = "none"
    BY <2>1 DEF NoJob
  <2>3. QED BY <2>2, ToolsInit DEF Discreet, DiscreetInv
<1>2. DiscreetInv /\ [Next]_vars => DiscreetInv'
  <2> SUFFICES ASSUME DiscreetInv, [Next]_vars
               PROVE  DiscreetInv'
    OBVIOUS
  <2>1. ToolsInv'
    BY ToolsStep DEF DiscreetInv
  <2>2. ASSUME NEW v \in Workers
        PROVE  Discreet(v)'
    <3>1. ASSUME NEW w \in Workers, Step(w)
          PROVE  Discreet(v)'
      BY <3>1, OwnDiscreet, OthersDiscreet DEF ToolsInv, DiscreetInv
    <3>2. CASE UNCHANGED vars
      <4>1. job' = job /\ tree' = tree /\ Discreet(v)
        BY <3>2 DEF vars, DiscreetInv
      <4>2. QED BY <4>1 DEF Discreet, is_secret_path
    <3>3. QED BY <3>1, <3>2 DEF Next
  <2>3. QED BY <2>1, <2>2 DEF DiscreetInv
<1>3. DiscreetInv => NothingSecret
  BY DEF NothingSecret, DiscreetInv, Discreet
<1>4. QED BY <1>1, <1>2, <1>3, PTL DEF Spec

-----------------------------------------------------------------------------
(* The snapshot service: the invariant                                     *)

\* The steps in which a worker handles an event, in which it has a commit, and in
\* which it has found the session of its analysis startable.
Working == Steps \ {"idle"}
Building == {"build", "find", "insert", "associate", "fail"}
Resolved == {"find", "insert", "associate"}

\* A worker that handles an event has its analysis, an id and, once the ref is
\* resolved, a commit; it has chosen a row only when it is to associate it.  The
\* ref has moved at most once per trouble.
WorkerState ==
  /\ head <= troubles + 1
  /\ \A w \in SnapshotWorkers :
       /\ pc[w] \in Working => at[w] \in Analyses
       /\ pc[w] \in Building \cup {"start"} => id[w] # 0
       /\ pc[w] \in Resolved => commit[w] # 0
       /\ pc[w] # "associate" => found[w] = 0

\* An id in use is in no row and of no other worker.
FreshIds ==
  \A w \in SnapshotWorkers :
    id[w] # 0 => /\ \A r \in snapshots : r.id # id[w]
                 /\ \A v \in SnapshotWorkers \ {w} : id[v] # id[w]

\* One row per commit (uq_snapshots_repo_commit_policy).
OneRow == \A r, s \in snapshots : r.commit = s.commit => r = s

\* A worker that is to associate has a committed row of its commit, or a row of
\* its own that it alone has inserted and nobody has committed.
RowChosen ==
  \A w \in SnapshotWorkers :
    pc[w] = "associate" =>
      \/ \E r \in RowsOf(commit[w]) : r.id = found[w] /\ found[w] # id[w]
      \/ /\ found[w] = id[w] /\ RowsOf(commit[w]) = {}
         /\ \A v \in SnapshotWorkers \ {w} : Pending(v) # {} => commit[v] # commit[w]

\* Two workers on one event have been recorded.
OverlapKnown ==
  \A v, w \in SnapshotWorkers : v # w /\ at[v] = at[w] /\ at[w] \in Analyses => at[w] \in overlapped

\* An event handled by one worker alone is not built for an analysis that has its
\* snapshot: the check of mark_analysis_snapshotting is still true.
NothingYet ==
  \A w \in SnapshotWorkers :
    pc[w] \in Building /\ at[w] \notin overlapped => session[at[w]].snapshot = 0

SharedInv == WorkerState /\ FreshIds /\ OneRow /\ RowChosen
AloneInv == OverlapKnown /\ NothingYet

USE SnapshotAssumption DEF rowVars, workerVars, With, Goto

-----------------------------------------------------------------------------
(* Types                                                                   *)

\* Numbers of the model: 0 is neither an id nor a commit.
LEMMA Numbers == /\ Cardinality(Analyses) \in Nat
         /\ Ids \subseteq Nat /\ 0 \notin Ids
         /\ Commits \subseteq Nat /\ 0 \notin Commits /\ 1 \in Commits
<1>1. IsFiniteSet(Analyses) /\ Cardinality(Analyses) = Cardinality(Analyses)
  BY DEF IsFiniteSet, IsFiniteSet, Cardinality, Cardinality
<1>2. Cardinality(Analyses) \in Nat
  BY <1>1, FS_CardinalityType
<1>3. QED BY <1>1, <1>2 DEF Ids, Commits

\* A worker that is released, or has finished, is in no step of the handler.
LEMMA ReleaseType ==
  ASSUME ServiceTypeOK, NEW w \in SnapshotWorkers, Release(w) \/ (Finished(w) /\ UNCHANGED at)
  PROVE  /\ pc' \in [SnapshotWorkers -> Steps] /\ at' \in [SnapshotWorkers -> Analyses \cup {None}]
         /\ id' \in [SnapshotWorkers -> {0} \cup Ids] /\ found' \in [SnapshotWorkers -> {0} \cup Ids]
         /\ commit' \in [SnapshotWorkers -> Commits \cup {0}]
BY DEF ServiceTypeOK, Release, Finished, Steps

\* Delivery keeps the types.
LEMMA DeliveryTypes ==
  ASSUME ServiceTypeOK, WorkerState, NEW w \in SnapshotWorkers,
         Acknowledge(w) \/ Dies(w) \/ Raises(w) \/ \E a \in Analyses : Take(w, a)
  PROVE  ServiceTypeOK'
<1>1. CASE \E a \in Analyses : Take(w, a)
  <2>1. PICK a \in Analyses : Take(w, a)
    BY <1>1
  <2>2. (CHOOSE i \in Unused : TRUE) \in Ids
    BY <2>1 DEF Take, Unused
  <2>3. id' \in [SnapshotWorkers -> {0} \cup Ids]
    BY <2>1, <2>2 DEF Take, ServiceTypeOK
  <2>4. overlapped' \in SUBSET Analyses
    BY <2>1 DEF Take, ServiceTypeOK
  <2>5. event' \in [Analyses -> [state : {"ready", "claimed", "done", "dead"}, attempt : 1 .. MaxAttempts]]
    BY <2>1 DEF Take, ServiceTypeOK
  <2>6. pc' \in [SnapshotWorkers -> Steps] /\ at' \in [SnapshotWorkers -> Analyses \cup {None}]
    BY <2>1 DEF Take, ServiceTypeOK, Steps
  <2>7. QED BY <2>1, <2>3, <2>4, <2>5, <2>6 DEF Take, ServiceTypeOK
<1>2. CASE Acknowledge(w) \/ Dies(w) \/ Raises(w)
  <2>1. at[w] \in Analyses
    BY <1>2 DEF Acknowledge, Dies, Raises, WorkerState, Working,
                Steps, ServiceTypeOK
  <2>2. event[at[w]].attempt \in 1 .. MaxAttempts
    BY <2>1 DEF ServiceTypeOK
  <2>3. event' \in [Analyses -> [state : {"ready", "claimed", "done", "dead"}, attempt : 1 .. MaxAttempts]]
    <3>1. CASE Acknowledge(w)
      BY <3>1, <2>1 DEF Acknowledge, ServiceTypeOK
    <3>2. CASE Dies(w)
      BY <3>2, <2>1 DEF Dies, BackInQueue, ServiceTypeOK
    <3>3. CASE Raises(w)
      <4>1. CASE event[at[w]].attempt < MaxAttempts
        <5>1. event' = [event EXCEPT ![at[w]] = [state |-> "ready", attempt |-> event[at[w]].attempt + 1]]
          BY <3>3, <4>1, <2>1 DEF Raises, ServiceTypeOK
        <5>2. event[at[w]].attempt + 1 \in 1 .. MaxAttempts
          BY <2>2, <4>1
        <5>3. QED BY <5>1, <5>2, <2>1 DEF ServiceTypeOK
      <4>2. CASE ~ (event[at[w]].attempt < MaxAttempts)
        BY <3>3, <4>2, <2>1 DEF Raises, ServiceTypeOK
      <4>3. QED BY <4>1, <4>2
    <3>4. QED BY <1>2, <3>1, <3>2, <3>3
  <2>4. Release(w)
    BY <1>2 DEF Acknowledge, Dies, Raises
  <2>5. troubles' \in 0 .. MaxTroubles
    BY <1>2 DEF Acknowledge, Dies, Raises, Trouble, ServiceTypeOK
  <2>6. UNCHANGED <<rowVars, head, ready, overlapped>>
    BY <1>2 DEF Acknowledge, Dies, Raises
  <2>7. QED BY <2>3, <2>4, <2>5, <2>6, ReleaseType DEF ServiceTypeOK
<1>3. QED BY <1>1, <1>2

\* The handler keeps the types.
LEMMA HandlerTypes ==
  ASSUME ServiceTypeOK, WorkerState, RowChosen, NEW w \in SnapshotWorkers,
         MarkStarted(w) \/ Build(w) \/ Find(w)
         \/ Insert(w) \/ Associate(w) \/ MarkFailed(w)
  PROVE  ServiceTypeOK'
<1>1. CASE MarkStarted(w)
  BY <1>1 DEF MarkStarted, ServiceTypeOK, Steps
<1>2. CASE Build(w)
  <2>1. commit' \in [SnapshotWorkers -> Commits \cup {0}]
    BY <1>2 DEF Build, ServiceTypeOK
  <2>2. pc' \in [SnapshotWorkers -> Steps]
    BY <1>2 DEF Build, ServiceTypeOK, Steps
  <2>3. QED BY <1>2, <2>1, <2>2 DEF Build, ServiceTypeOK
<1>3. CASE Find(w)
  <2>1. \A r \in RowsOf(commit[w]) : r.id \in Ids
    BY DEF RowsOf, ServiceTypeOK
  <2>2. found' \in [SnapshotWorkers -> {0} \cup Ids]
    BY <1>3, <2>1 DEF Find, Use, ServiceTypeOK
  <2>3. pc' \in [SnapshotWorkers -> Steps]
    BY <1>3 DEF Find, Use, ServiceTypeOK, Steps
  <2>4. QED BY <1>3, <2>2, <2>3 DEF Find, ServiceTypeOK
<1>4. CASE Insert(w)
  <2>1. RowsOf(commit[w]) # {} => \E i \in Ids : \E r \in RowsOf(commit[w]) : r.id = i
    BY DEF RowsOf, ServiceTypeOK
  <2>2. InsertedOrFound(w) \in {0} \cup Ids
    BY <2>1 DEF InsertedOrFound, ServiceTypeOK
  <2>3. found' \in [SnapshotWorkers -> {0} \cup Ids] /\ pc' \in [SnapshotWorkers -> Steps]
    BY <1>4, <2>2 DEF Insert, Use, ServiceTypeOK, Steps
  <2>4. QED BY <1>4, <2>3 DEF Insert, ServiceTypeOK
<1>5. CASE Associate(w)
  <2>1. at[w] \in Analyses /\ commit[w] \in Commits /\ id[w] \in Ids /\ found[w] \in Ids
    <3>1. at[w] \in Analyses /\ commit[w] \in Commits /\ id[w] \in Ids
      BY <1>5 DEF Associate, WorkerState, Working, Building, Resolved, Steps,
                  ServiceTypeOK
    <3>2. \A r \in RowsOf(commit[w]) : r.id \in Ids
      BY DEF RowsOf, ServiceTypeOK
    <3>3. QED BY <1>5, <3>1, <3>2 DEF Associate, RowChosen
  <2>2. snapshots' \in SUBSET [id : Ids, commit : Commits]
    BY <1>5, <2>1 DEF Associate, Pending, ServiceTypeOK
  <2>3. session' \in [Analyses -> [status : SessionStatuses, snapshot : {0} \cup Ids]]
    BY <1>5, <2>1 DEF Associate, ServiceTypeOK, SessionStatuses
  <2>4. analysis' \in [Analyses -> {"snapshotting", "running"} \cup Closed]
    BY <1>5, <2>1 DEF Associate, RunningUnlessClosed, ServiceTypeOK
  <2>5. ready' \in SUBSET [analysis : Analyses, snapshot : Ids]
    BY <1>5, <2>1 DEF Associate, ServiceTypeOK
  <2>6. QED BY <1>5, <2>2, <2>3, <2>4, <2>5, ReleaseType DEF Associate, ServiceTypeOK
<1>6. CASE MarkFailed(w)
  <2>1. analysis' \in [Analyses -> {"snapshotting", "running"} \cup Closed]
    BY <1>6 DEF MarkFailed, ServiceTypeOK, Closed, Terminal
  <2>2. session' \in [Analyses -> [status : SessionStatuses, snapshot : {0} \cup Ids]]
    <3>1. at[w] \in Analyses
      BY <1>6 DEF MarkFailed, WorkerState, Working, Steps, ServiceTypeOK
    <3>2. session' = session \/ session' = [session EXCEPT ![at[w]].status = "failed"]
      BY <1>6 DEF MarkFailed
    <3>3. QED BY <3>1, <3>2, SMTT(30) DEF ServiceTypeOK, SessionStatuses, Terminal
  <2>3. QED BY <1>6, <2>1, <2>2, ReleaseType DEF MarkFailed, ServiceTypeOK
<1>7. QED BY <1>1, <1>2, <1>3, <1>4, <1>5, <1>6

\* Everybody else keeps the types.
LEMMA OtherTypes ==
  ASSUME ServiceTypeOK, WorkerState,
         \/ RefMoves
         \/ \E a \in Analyses : ClaimExpires(a) \/ AgentRuns(a) \/ AgentCompletes(a)
                                \/ Cancel(a) \/ HandleCancel(a)
  PROVE  ServiceTypeOK'
<1>1. CASE RefMoves
  <2>1. head' \in Commits
    BY <1>1 DEF RefMoves, Trouble, Commits, WorkerState, ServiceTypeOK
  <2>2. QED BY <1>1, <2>1 DEF RefMoves, Trouble, ServiceTypeOK
<1>2. ASSUME NEW a \in Analyses, ClaimExpires(a)
      PROVE  ServiceTypeOK'
  BY <1>2 DEF ClaimExpires, Trouble, ServiceTypeOK
<1>3. ASSUME NEW a \in Analyses, AgentRuns(a)
      PROVE  ServiceTypeOK'
  BY <1>3 DEF AgentRuns, ServiceTypeOK, SessionStatuses
<1>4. ASSUME NEW a \in Analyses, AgentCompletes(a)
      PROVE  ServiceTypeOK'
  <2>1. analysis' \in [Analyses -> {"snapshotting", "running"} \cup Closed]
    BY <1>4 DEF AgentCompletes, ServiceTypeOK, Closed, Terminal
  <2>2. session' \in [Analyses -> [status : SessionStatuses, snapshot : {0} \cup Ids]]
    BY <1>4, SMTT(30) DEF AgentCompletes, ServiceTypeOK, SessionStatuses,
                          Terminal
  <2>3. QED BY <1>4, <2>1, <2>2 DEF AgentCompletes, ServiceTypeOK
<1>5. ASSUME NEW a \in Analyses, Cancel(a)
      PROVE  ServiceTypeOK'
  <2>1. analysis' \in [Analyses -> {"snapshotting", "running"} \cup Closed]
    BY <1>5 DEF Cancel, ServiceTypeOK, Closed
  <2>2. session' \in [Analyses -> [status : SessionStatuses, snapshot : {0} \cup Ids]]
    BY <1>5, SMTT(30) DEF Cancel, ServiceTypeOK, SessionStatuses, Terminal
  <2>3. QED BY <1>5, <2>1, <2>2 DEF Cancel, Trouble, ServiceTypeOK
<1>6. ASSUME NEW a \in Analyses, HandleCancel(a)
      PROVE  ServiceTypeOK'
  BY <1>6 DEF HandleCancel, ServiceTypeOK, Closed, Terminal
<1>7. QED BY <1>1, <1>2, <1>3, <1>4, <1>5, <1>6

-----------------------------------------------------------------------------
(* One snapshot per commit                                                 *)

\* Only Associate adds a row.
LEMMA RowsStable ==
  ASSUME ServiceTypeOK, ServiceNext
  PROVE  UNCHANGED snapshots \/ \E w \in SnapshotWorkers : Associate(w)
BY DEF ServiceNext, ServiceStep, MarkStarted, Build, Find,
       Insert, MarkFailed, Acknowledge, Dies,
       Raises, Take,
       ClaimExpires, AgentRuns, AgentCompletes, Cancel, HandleCancel, RefMoves

\* A step of one worker leaves the others alone.
LEMMA WorkersStay ==
  ASSUME ServiceTypeOK, NEW w \in SnapshotWorkers,
         ServiceStep(w) \/ Dies(w) \/ Raises(w) \/ \E a \in Analyses : Take(w, a),
         NEW v \in SnapshotWorkers \ {w}
  PROVE  UNCHANGED <<pc[v], at[v], id[v], commit[v], found[v]>>
BY DEF ServiceTypeOK, ServiceStep, MarkStarted, Build, Find,
       Use, Insert, Associate, MarkFailed,
       Finished, Acknowledge,
       Release, Dies, Raises, Take

\* A worker keeps its event, its id and its commit until it is through with them.
LEMMA WorkerStatePreserved ==
  ASSUME ServiceTypeOK, WorkerState, ServiceNext
  PROVE  WorkerState'
<1>1. head' <= troubles' + 1
  <2>1. head \in Nat /\ troubles \in Nat
    BY DEF ServiceTypeOK, Commits
  <2>2. CASE RefMoves
    BY <2>1, <2>2 DEF RefMoves, Trouble, WorkerState
  <2>3. CASE UNCHANGED head /\ (UNCHANGED troubles \/ Trouble)
    BY <2>1, <2>3 DEF Trouble, WorkerState
  <2>4. QED
    BY <2>2, <2>3 DEF ServiceNext, ServiceStep, MarkStarted, Build,
                      Find, Insert, Associate, MarkFailed,
                      Acknowledge,
                      Dies, Raises, Take, ClaimExpires,
                      AgentRuns, AgentCompletes, Cancel, HandleCancel
<1>2. ASSUME NEW w \in SnapshotWorkers,
             ServiceStep(w) \/ Dies(w) \/ Raises(w) \/ \E a \in Analyses : Take(w, a)
      PROVE  /\ pc'[w] \in Working => at'[w] \in Analyses
             /\ pc'[w] \in Building \cup {"start"} => id'[w] # 0
             /\ pc'[w] \in Resolved => commit'[w] # 0
             /\ pc'[w] # "associate" => found'[w] = 0
  <2>1. CASE \E a \in Analyses : Take(w, a)
    <3>1. PICK a \in Analyses : Take(w, a)
      BY <2>1
    <3>2. (CHOOSE i \in Unused : TRUE) \in Ids
      BY <3>1 DEF Take, Unused
    <3>3. QED BY <3>1, <3>2, Numbers DEF Take, ServiceTypeOK, WorkerState, Resolved
  <2>2. CASE Dies(w) \/ Raises(w) \/ Acknowledge(w)
    <3>1. Release(w)
      BY <2>2 DEF Dies, Raises, Acknowledge
    <3>2. QED BY <3>1 DEF Release, ServiceTypeOK, Working, Building, Resolved
  <2>3. CASE MarkStarted(w)
    BY <2>3 DEF MarkStarted, ServiceTypeOK, WorkerState, Working, Building, Resolved,
                Steps
  <2>4. CASE Build(w)
    BY <2>4, Numbers DEF Build, ServiceTypeOK, WorkerState, Working, Building,
                         Resolved, Steps
  <2>5. CASE Find(w) \/ Insert(w)
    BY <2>5 DEF Find, Insert, Use, ServiceTypeOK, WorkerState,
                Working, Building, Resolved, Steps
  <2>6. CASE Associate(w) \/ MarkFailed(w)
    BY <2>6 DEF Associate, MarkFailed, Finished, ServiceTypeOK,
                WorkerState, Working, Building, Resolved, Steps
  <2>7. QED BY <1>2, <2>1, <2>2, <2>3, <2>4, <2>5, <2>6 DEF ServiceStep
<1>3. ASSUME UNCHANGED workerVars
      PROVE  \A w \in SnapshotWorkers : /\ pc'[w] \in Working => at'[w] \in Analyses
                                        /\ pc'[w] \in Building \cup {"start"} => id'[w] # 0
                                        /\ pc'[w] \in Resolved => commit'[w] # 0
                                        /\ pc'[w] # "associate" => found'[w] = 0
  BY <1>3 DEF WorkerState
<1>4. QED
  <2>1. CASE UNCHANGED workerVars
    BY <2>1, <1>1, <1>3 DEF WorkerState
  <2>2. ASSUME NEW w \in SnapshotWorkers,
               ServiceStep(w) \/ Dies(w) \/ Raises(w) \/ \E a \in Analyses : Take(w, a)
        PROVE  WorkerState'
    BY <2>2, <1>1, <1>2, WorkersStay DEF WorkerState
  <2>3. QED
    BY <2>1, <2>2 DEF ServiceNext, ClaimExpires, AgentRuns,
                      AgentCompletes, Cancel, HandleCancel,
                      RefMoves

\* What a step does to the ids in use: nothing, one worker gives its id up, or one
\* worker takes an unused one.
LEMMA IdSteps ==
  ASSUME ServiceTypeOK, ServiceNext
  PROVE  \/ UNCHANGED <<id, snapshots>>
         \/ \E w \in SnapshotWorkers : UNCHANGED snapshots /\ id' = With(id, w, 0)
         \/ \E w \in SnapshotWorkers : /\ UNCHANGED snapshots /\ Unused # {}
                                       /\ id' = With(id, w, CHOOSE i \in Unused : TRUE)
         \/ \E w \in SnapshotWorkers : Associate(w)
BY DEF ServiceNext, ServiceStep, MarkStarted, Build, Find,
       Insert, MarkFailed, Finished, Acknowledge,
       Dies, Raises,
       Release, Take, ClaimExpires, AgentRuns,
       AgentCompletes, Cancel, HandleCancel, RefMoves

\* An id is fresh when it is taken, and a row gets the id of the worker that gives
\* it up.
LEMMA FreshIdsPreserved ==
  ASSUME ServiceTypeOK, WorkerState, FreshIds, ServiceNext
  PROVE  FreshIds'
<1>1. CASE UNCHANGED <<id, snapshots>>
  BY <1>1 DEF FreshIds
<1>2. ASSUME NEW w \in SnapshotWorkers, UNCHANGED snapshots, id' = With(id, w, 0)
      PROVE  FreshIds'
  BY <1>2 DEF FreshIds, ServiceTypeOK
<1>3. ASSUME NEW w \in SnapshotWorkers, UNCHANGED snapshots, Unused # {},
             id' = With(id, w, CHOOSE i \in Unused : TRUE)
      PROVE  FreshIds'
  <2> DEFINE i == CHOOSE i \in Unused : TRUE
  <2>1. i \in Unused
    BY <1>3
  <2>2. /\ \A r \in snapshots : r.id # i
        /\ \A v \in SnapshotWorkers : id[v] # i
    BY <2>1 DEF Unused
  <2>3. id' = [id EXCEPT ![w] = i]
    BY <1>3
  <2> HIDE DEF i
  <2>4. QED BY <1>3, <2>2, <2>3 DEF FreshIds, ServiceTypeOK
<1>4. ASSUME NEW w \in SnapshotWorkers, Associate(w)
      PROVE  FreshIds'
  <2>1. id[w] # 0 /\ id' = [id EXCEPT ![w] = 0]
    BY <1>4 DEF Associate, Finished, WorkerState, Building
  <2>2. \A r \in snapshots' : r \in snapshots \/ r.id = id[w]
    BY <1>4 DEF Associate, Pending
  <2>3. QED BY <2>1, <2>2 DEF FreshIds, ServiceTypeOK
<1>5. QED BY <1>1, <1>2, <1>3, <1>4, IdSteps

\* A row is added only for a commit that has none.
LEMMA OneRowPreserved ==
  ASSUME ServiceTypeOK, OneRow, ServiceNext
  PROVE  OneRow'
<1>1. CASE UNCHANGED snapshots
  BY <1>1 DEF OneRow
<1>2. ASSUME NEW w \in SnapshotWorkers, Associate(w)
      PROVE  OneRow'
  <2>1. CASE snapshots' = snapshots
    BY <2>1 DEF OneRow
  <2>2. CASE RowsOf(commit[w]) = {} /\ snapshots' = snapshots \cup {[id |-> id[w], commit |-> commit[w]]}
    BY <2>2 DEF OneRow, RowsOf
  <2>3. QED BY <1>2, <2>1, <2>2 DEF Associate, Pending
<1>3. QED BY <1>1, <1>2, RowsStable

\* Which rows a worker is about to commit: its own, when it may insert and finds
\* none.
LEMMA Chosen ==
  ASSUME ServiceTypeOK, WorkerState, FreshIds, NEW w \in SnapshotWorkers, ServiceNext, pc[w] # "associate",
         pc'[w] = "associate"
  PROVE  /\ UNCHANGED <<snapshots, commit[w], id[w]>>
         /\ \/ \E r \in RowsOf(commit[w]) : found'[w] = r.id /\ r.id # id[w]
            \/ RowsOf(commit[w]) = {} /\ found'[w] = id[w] /\ InsertGranted(w)
<1>1. Find(w) \/ Insert(w)
  <2>1. PICK v \in SnapshotWorkers :
               ServiceStep(v) \/ Dies(v) \/ Raises(v) \/ \E a \in Analyses : Take(v, a)
    BY DEF ServiceNext, ClaimExpires, AgentRuns, AgentCompletes,
           Cancel, HandleCancel, RefMoves
  <2>2. v = w
    BY <2>1, WorkersStay
  <2>3. QED BY <2>1, <2>2 DEF ServiceTypeOK, ServiceStep, MarkStarted,
                              Build, Associate, MarkFailed,
                              Finished,
                              Acknowledge, Release, Dies, Raises, Take
<1>2. id[w] # 0
  BY <1>1 DEF Find, Insert, WorkerState, Building
<1>3. UNCHANGED <<snapshots, commit[w], id[w]>>
  BY <1>1 DEF Find, Insert
<1>4. \A r \in RowsOf(commit[w]) : r.id # id[w]
  BY <1>2 DEF FreshIds, RowsOf
<1>5. CASE Find(w)
  <2>1. PICK r \in RowsOf(commit[w]) : Use(w, r.id)
    BY <1>5 DEF Find, ServiceTypeOK
  <2>2. found'[w] = r.id
    BY <2>1 DEF Use, ServiceTypeOK
  <2>3. QED BY <1>3, <1>4, <2>2
<1>6. CASE Insert(w)
  <2>1. found'[w] = InsertedOrFound(w) /\ InsertGranted(w)
    BY <1>6 DEF Insert, Use, ServiceTypeOK
  <2>2. CASE RowsOf(commit[w]) = {}
    BY <1>3, <2>1, <2>2 DEF InsertedOrFound
  <2>3. CASE RowsOf(commit[w]) # {}
    <3> DEFINE i == CHOOSE i \in Ids : \E r \in RowsOf(commit[w]) : r.id = i
    <3>1. \E j \in Ids : \E r \in RowsOf(commit[w]) : r.id = j
      BY <2>3 DEF RowsOf, ServiceTypeOK
    <3>2. \E r \in RowsOf(commit[w]) : r.id = i
      BY <3>1
    <3>3. found'[w] = i
      BY <2>1, <2>3 DEF InsertedOrFound
    <3>4. QED BY <1>3, <1>4, <3>2, <3>3
  <2>4. QED BY <2>2, <2>3
<1>7. QED BY <1>1, <1>5, <1>6

\* What a worker that is to associate relies on stays so whatever the others do.
LEMMA RowChosenPreserved ==
  ASSUME ServiceTypeOK, WorkerState, FreshIds, RowChosen, ServiceNext
  PROVE  RowChosen'
<1> SUFFICES ASSUME NEW w \in SnapshotWorkers, pc'[w] = "associate"
             PROVE  \/ \E r \in RowsOf(commit[w])' : r.id = found'[w] /\ found'[w] # id'[w]
                    \/ /\ found'[w] = id'[w] /\ RowsOf(commit[w])' = {}
                       /\ \A v \in SnapshotWorkers \ {w} : Pending(v)' # {} => commit'[v] # commit'[w]
  BY DEF RowChosen
<1>1. CASE pc[w] # "associate"
  <2>1. /\ UNCHANGED <<snapshots, commit[w], id[w]>>
        /\ \/ \E r \in RowsOf(commit[w]) : found'[w] = r.id /\ r.id # id[w]
           \/ RowsOf(commit[w]) = {} /\ found'[w] = id[w] /\ InsertGranted(w)
    BY <1>1, Chosen
  <2>2. RowsOf(commit[w])' = RowsOf(commit[w])
    BY <2>1 DEF RowsOf
  <2>3. \A v \in SnapshotWorkers \ {w} : UNCHANGED <<found[v], id[v], commit[v]>>
    <3>1. PICK s \in SnapshotWorkers :
                 ServiceStep(s) \/ Dies(s) \/ Raises(s) \/ \E a \in Analyses : Take(s, a)
      BY <1>1 DEF ServiceNext, ClaimExpires, AgentRuns,
                  AgentCompletes, Cancel, HandleCancel,
                  RefMoves
    <3>2. s = w
      BY <3>1, <1>1, WorkersStay
    <3>3. QED BY <3>1, <3>2, WorkersStay
  <2>4. \A v \in SnapshotWorkers \ {w} : Pending(v)' = Pending(v)
    BY <2>3 DEF Pending
  <2>5. QED BY <2>1, <2>2, <2>3, <2>4 DEF InsertGranted
<1>2. CASE pc[w] = "associate"
  <2>1. UNCHANGED <<commit[w], id[w], found[w]>>
    <3>1. CASE UNCHANGED workerVars
      BY <3>1
    <3>2. ASSUME NEW s \in SnapshotWorkers,
                 ServiceStep(s) \/ Dies(s) \/ Raises(s) \/ \E a \in Analyses : Take(s, a)
          PROVE  UNCHANGED <<commit[w], id[w], found[w]>>
      <4>1. s # w
        BY <1>2, <3>2 DEF ServiceTypeOK, ServiceStep, MarkStarted, Build,
                          Find, Insert, Associate,
                          MarkFailed, Finished,
                          Acknowledge, Release, Dies, Raises, Take
      <4>2. QED BY <3>2, <4>1, WorkersStay
    <3>3. QED BY <3>1, <3>2 DEF ServiceNext, ClaimExpires, AgentRuns,
                                AgentCompletes, Cancel, HandleCancel,
                                RefMoves
  <2>2. CASE \E r \in RowsOf(commit[w]) : r.id = found[w] /\ found[w] # id[w]
    <3>1. snapshots \subseteq snapshots'
      BY RowsStable DEF Associate
    <3>2. QED BY <2>1, <2>2, <3>1 DEF RowsOf
  <2>3. CASE /\ found[w] = id[w] /\ RowsOf(commit[w]) = {}
             /\ \A v \in SnapshotWorkers \ {w} : Pending(v) # {} => commit[v] # commit[w]
    <3>1. Pending(w) # {}
      BY <1>2, <2>3 DEF Pending, WorkerState, Building
    <3>2. RowsOf(commit[w])' = {}
      <4>1. CASE UNCHANGED snapshots
        BY <4>1, <2>1, <2>3 DEF RowsOf
      <4>2. ASSUME NEW s \in SnapshotWorkers, Associate(s)
            PROVE  RowsOf(commit[w])' = {}
        <5>1. s # w
          BY <1>2, <4>2 DEF Associate, Finished, ServiceTypeOK
        <5>2. snapshots' \subseteq snapshots \cup Pending(s)
          BY <4>2 DEF Associate
        <5>3. \A r \in Pending(s) : r.commit # commit[w]
          BY <2>3, <5>1 DEF Pending
        <5>4. QED BY <5>2, <5>3, <2>1, <2>3 DEF RowsOf
      <4>3. QED BY <4>1, <4>2, RowsStable
    <3>3. ASSUME NEW v \in SnapshotWorkers \ {w}, Pending(v)' # {}
          PROVE  commit'[v] # commit'[w]
      <4>1. pc'[v] = "associate"
        BY <3>3, WorkerStatePreserved DEF Pending, WorkerState
      <4>2. CASE pc[v] # "associate"
        <5>1. /\ UNCHANGED <<commit[v], id[v]>>
              /\ \/ found'[v] # id[v]
                 \/ InsertGranted(v)
          BY <4>1, <4>2, Chosen
        <5>2. InsertGranted(v)
          BY <3>3, <5>1 DEF Pending
        <5>3. commit[w] # commit[v]
          BY <5>2, <3>1 DEF InsertGranted
        <5>4. QED BY <5>1, <5>3, <2>1
      <4>3. CASE pc[v] = "associate"
        <5>1. UNCHANGED <<commit[v], id[v], found[v]>>
          <6>1. CASE UNCHANGED workerVars
            BY <6>1
          <6>2. ASSUME NEW s \in SnapshotWorkers,
                       ServiceStep(s) \/ Dies(s) \/ Raises(s) \/ \E a \in Analyses : Take(s, a)
                PROVE  UNCHANGED <<commit[v], id[v], found[v]>>
            <7>1. s # v
              BY <4>1, <4>3, <6>2 DEF ServiceTypeOK, ServiceStep, MarkStarted,
                                      Build, Find, Insert,
                                      Associate, MarkFailed,
                                Finished, Acknowledge, Release,
                                Dies, Raises, Take
            <7>2. QED BY <6>2, <7>1, WorkersStay
          <6>3. QED BY <6>1, <6>2 DEF ServiceNext, ClaimExpires, AgentRuns,
                                      AgentCompletes, Cancel,
                                      HandleCancel, RefMoves
        <5>2. Pending(v) # {}
          BY <3>3, <5>1 DEF Pending
        <5>3. QED BY <2>1, <2>3, <5>1, <5>2
      <4>4. QED BY <4>2, <4>3
    <3>4. QED BY <2>1, <2>3, <3>2, <3>3
  <2>4. QED BY <1>2, <2>2, <2>3 DEF RowChosen
<1>3. QED BY <1>1, <1>2

\* Only Associate gives an analysis a snapshot, or the outbox an event.
LEMMA SnapshotsStay ==
  ASSUME ServiceTypeOK, WorkerState, ServiceNext, ~ \E w \in SnapshotWorkers : Associate(w)
  PROVE  UNCHANGED <<snapshots, ready>> /\ \A a \in Analyses : session'[a].snapshot = session[a].snapshot
<1>1. UNCHANGED <<snapshots, ready>>
  BY DEF ServiceNext, ServiceStep, MarkStarted, Build, Find,
         Insert, MarkFailed, Acknowledge, Dies,
         Raises, Take,
              ClaimExpires, AgentRuns, AgentCompletes,
              Cancel, HandleCancel, RefMoves
<1>2. session' = session
      \/ \E a \in Analyses, s \in SessionStatuses : session' = [session EXCEPT ![a].status = s]
  <2>1. ASSUME NEW w \in SnapshotWorkers, MarkFailed(w)
        PROVE  session' = session
               \/ \E a \in Analyses, s \in SessionStatuses : session' = [session EXCEPT ![a].status = s]
    BY <2>1 DEF MarkFailed, WorkerState, Working, Steps, ServiceTypeOK,
                SessionStatuses, Terminal
  <2>2. ASSUME NEW a \in Analyses, AgentRuns(a) \/ AgentCompletes(a) \/ Cancel(a)
        PROVE  session' = session
               \/ \E s \in SessionStatuses : session' = [session EXCEPT ![a].status = s]
    BY <2>2 DEF AgentRuns, AgentCompletes, Cancel,
                SessionStatuses, Terminal
  <2>3. QED BY <2>1, <2>2 DEF ServiceNext, ServiceStep, MarkStarted,
                              Build, Find, Insert,
                              Acknowledge, Dies, Raises,
                                 Take, ClaimExpires, HandleCancel, RefMoves
<1>3. QED BY <1>1, <1>2, SMTT(30) DEF ServiceTypeOK

\* What the analyses and the outbox refer to is committed with the row.
LEMMA SharedPreserved ==
  ASSUME ServiceTypeOK, WorkerState, RowChosen, SharedByCommit, OneRow', ServiceNext
  PROVE  SharedByCommit'
<1>1. /\ \A a \in Analyses : session'[a].snapshot \in {0} \cup {r.id : r \in snapshots'}
      /\ \A e \in ready' : e.snapshot \in {r.id : r \in snapshots'}
  <2>1. ASSUME NEW w \in SnapshotWorkers, Associate(w)
        PROVE  <1>1!:
    <3>1. at[w] \in Analyses
      BY <2>1 DEF Associate, WorkerState, Working, Steps, ServiceTypeOK
    <3>2. \E r \in snapshots' : r.id = found[w]
      <4>1. CASE \E r \in RowsOf(commit[w]) : r.id = found[w] /\ found[w] # id[w]
        BY <4>1, <2>1 DEF Associate, RowsOf
      <4>2. CASE found[w] = id[w] /\ RowsOf(commit[w]) = {}
        <5>1. id[w] # 0
          BY <2>1 DEF Associate, WorkerState, Building
        <5>2. [id |-> id[w], commit |-> commit[w]] \in snapshots'
          BY <4>2, <2>1, <5>1 DEF Associate, Pending
        <5>3. QED BY <5>2, <4>2
      <4>3. QED BY <2>1, <4>1, <4>2 DEF Associate, RowChosen
    <3>3. snapshots \subseteq snapshots'
      BY <2>1 DEF Associate
    <3>4. ASSUME NEW a \in Analyses
          PROVE  session'[a].snapshot \in {0} \cup {r.id : r \in snapshots'}
      <4>1. session'[a] = session[a] \/ session'[a].snapshot = found[w]
        BY <2>1, <3>1 DEF Associate, ServiceTypeOK
      <4>2. QED BY <3>2, <3>3, <4>1 DEF SharedByCommit
    <3>5. ASSUME NEW e \in ready'
          PROVE  e.snapshot \in {r.id : r \in snapshots'}
      <4>1. e \in ready \/ e.snapshot = found[w]
        BY <2>1 DEF Associate
      <4>2. QED BY <3>2, <3>3, <4>1 DEF SharedByCommit
    <3>6. QED BY <3>4, <3>5
  <2>2. CASE ~ \E w \in SnapshotWorkers : Associate(w)
    BY <2>2, SnapshotsStay DEF SharedByCommit
  <2>3. QED BY <2>1, <2>2
<1>2. QED BY <1>1 DEF SharedByCommit, OneRow

-----------------------------------------------------------------------------
(* A result stands                                                         *)

\* Only a claim makes two workers handle one event, and it is recorded.
LEMMA OverlapKnownPreserved ==
  ASSUME ServiceTypeOK, OverlapKnown, ServiceNext
  PROVE  OverlapKnown' /\ overlapped \subseteq overlapped'
<1>1. ASSUME NEW w \in SnapshotWorkers, NEW a \in Analyses, Take(w, a)
      PROVE  OverlapKnown' /\ overlapped \subseteq overlapped'
  <2>1. /\ at' = [at EXCEPT ![w] = a] /\ overlapped \subseteq overlapped'
        /\ \A v \in SnapshotWorkers : at[v] = a => a \in overlapped'
    BY <1>1 DEF Take
  <2>2. QED BY <2>1 DEF OverlapKnown, ServiceTypeOK
<1>2. ASSUME UNCHANGED overlapped, UNCHANGED at \/ \E w \in SnapshotWorkers : at' = With(at, w, None)
      PROVE  OverlapKnown' /\ overlapped \subseteq overlapped'
  BY <1>2 DEF OverlapKnown, ServiceTypeOK
<1>3. QED
  BY <1>1, <1>2 DEF ServiceNext, ServiceStep, MarkStarted, Build,
                    Find, Insert, Associate, MarkFailed,
                    Acknowledge, Dies,
                    Raises, Release, ClaimExpires, AgentRuns,
                    AgentCompletes, Cancel, HandleCancel, RefMoves

\* Only the worker of the event gives the analysis its snapshot, and it is then
\* done with building.
LEMMA NothingYetPreserved ==
  ASSUME ServiceTypeOK, WorkerState, OverlapKnown, NothingYet, ServiceNext
  PROVE  NothingYet'
<1> SUFFICES ASSUME NEW w \in SnapshotWorkers, pc'[w] \in Building, at'[w] \notin overlapped'
             PROVE  session'[at'[w]].snapshot = 0
  BY DEF NothingYet
<1>1. overlapped \subseteq overlapped'
  BY OverlapKnownPreserved
<1>2. /\ at'[w] = at[w] /\ at[w] \in Analyses
      /\ pc[w] \in Building \/ MarkStarted(w)
  <2>1. CASE UNCHANGED workerVars
    BY <2>1 DEF WorkerState, Building, Working, Steps
  <2>2. ASSUME NEW s \in SnapshotWorkers,
               ServiceStep(s) \/ Dies(s) \/ Raises(s) \/ \E a \in Analyses : Take(s, a)
        PROVE  <1>2!:
    <3>1. CASE s # w
      BY <2>2, <3>1, WorkersStay DEF WorkerState, Building, Working, Steps
    <3>2. CASE s = w
      <4>1. MarkStarted(w) \/ Build(w) \/ Find(w) \/ Insert(w)
        BY <2>2, <3>2 DEF ServiceTypeOK, ServiceStep, Associate,
                          MarkFailed, Finished, Acknowledge,
                          Release, Dies, Raises,
                          Take, Building
      <4>2. QED BY <4>1 DEF MarkStarted, Build, Find,
                            Insert, WorkerState, Building, Working, Steps
    <3>3. QED BY <3>1, <3>2
  <2>3. QED BY <2>1, <2>2 DEF ServiceNext, ClaimExpires, AgentRuns,
                              AgentCompletes, Cancel, HandleCancel,
                              RefMoves
<1>3. session[at[w]].snapshot = 0
  BY <1>1, <1>2 DEF NothingYet, MarkStarted, Startable, ServiceTypeOK, Building
<1>4. CASE \E s \in SnapshotWorkers : Associate(s)
  <2>1. PICK s \in SnapshotWorkers : Associate(s)
    BY <1>4
  <2>2. s # w
    BY <2>1 DEF Associate, Finished, ServiceTypeOK, Building
  <2>3. at[s] # at[w]
    BY <1>1, <1>2, <2>2 DEF OverlapKnown
  <2>4. session'[at[w]] = session[at[w]]
    BY <2>1, <2>3, <1>2 DEF Associate, ServiceTypeOK
  <2>5. QED BY <1>2, <1>3, <2>4
<1>5. CASE ~ \E s \in SnapshotWorkers : Associate(s)
  BY <1>2, <1>3, <1>5, SnapshotsStay
<1>6. QED BY <1>4, <1>5

\* The result of an analysis whose event one worker handles at a time stands.
LEMMA StandsStep ==
  ASSUME ServiceTypeOK, WorkerState, NothingYet, ServiceNext,
         NEW a \in Analyses, session[a].snapshot # 0, a \notin overlapped
  PROVE  /\ session'[a].snapshot = session[a].snapshot
         /\ session[a].status # "queued" => session'[a].status # "queued"
         /\ analysis'[a] = "failed" => analysis[a] = "failed"
<1>1. ASSUME NEW w \in SnapshotWorkers, Associate(w) \/ MarkFailed(w)
      PROVE  UNCHANGED <<session[a], analysis[a]>>
  <2>1. pc[w] \in Building /\ at[w] \in Analyses
    BY <1>1 DEF Associate, MarkFailed, Building, WorkerState, Working, Steps
  <2>2. at[w] # a
    BY <2>1 DEF NothingYet
  <2>3. QED BY <1>1, <2>1, <2>2 DEF Associate, MarkFailed, ServiceTypeOK
<1>2. ASSUME NEW b \in Analyses, AgentRuns(b)
      PROVE  /\ session'[a].snapshot = session[a].snapshot /\ UNCHANGED analysis
             /\ session[a].status # "queued" => session'[a].status # "queued"
  BY <1>2 DEF AgentRuns, ServiceTypeOK
<1>3. ASSUME NEW b \in Analyses, AgentCompletes(b)
      PROVE  /\ session'[a].snapshot = session[a].snapshot
             /\ session[a].status # "queued" => session'[a].status # "queued"
             /\ analysis'[a] = "failed" => analysis[a] = "failed"
  BY <1>3 DEF AgentCompletes, ServiceTypeOK
<1>4. ASSUME NEW b \in Analyses, Cancel(b)
      PROVE  /\ session'[a].snapshot = session[a].snapshot
             /\ session[a].status # "queued" => session'[a].status # "queued"
             /\ analysis'[a] = "failed" => analysis[a] = "failed"
  <2>1. session' = session \/ session' = [session EXCEPT ![b].status = "cancelled"]
    BY <1>4 DEF Cancel
  <2>2. QED BY <1>4, <2>1 DEF Cancel, ServiceTypeOK
<1>5. ASSUME NEW b \in Analyses, HandleCancel(b)
      PROVE  UNCHANGED session /\ (analysis'[a] = "failed" => analysis[a] = "failed")
  BY <1>5 DEF HandleCancel, ServiceTypeOK
<1>6. QED
  BY <1>1, <1>2, <1>3, <1>4, <1>5
     DEF ServiceNext, ServiceStep, MarkStarted, Build, Find,
         Insert, Acknowledge, Dies, Raises, Take,
         ClaimExpires, RefMoves

\* An end is final: every action that writes a status checks the one it replaces.
LEMMA FinalStep ==
  ASSUME ServiceTypeOK, WorkerState, ServiceNext, NEW a \in Analyses
  PROVE  /\ analysis[a] \in Terminal => analysis'[a] = analysis[a]
         /\ analysis[a] = "cancelling" => analysis'[a] \in {"cancelling", "cancelled"}
         /\ session[a].status \in Terminal => session'[a] = session[a]
<1> USE DEF Terminal, Closed
<1>1. ASSUME NEW w \in SnapshotWorkers, Associate(w)
      PROVE  (session[a].status \in Terminal => UNCHANGED session[a])
             /\ (analysis[a] \in Closed => UNCHANGED analysis[a])
  <2>1. at[w] \in Analyses
    BY <1>1 DEF Associate, WorkerState, Working, Steps
  <2>2. CASE at[w] = a
    BY <1>1, <2>2 DEF Associate, Associable, RunningUnlessClosed,
                      ServiceTypeOK
  <2>3. CASE at[w] # a
    BY <1>1, <2>1, <2>3 DEF Associate, ServiceTypeOK
  <2>4. QED BY <2>2, <2>3
<1>2. ASSUME NEW w \in SnapshotWorkers, MarkFailed(w)
      PROVE  (session[a].status \in Terminal => UNCHANGED session[a])
             /\ (analysis[a] \in Closed => UNCHANGED analysis[a])
  <2>1. at[w] \in Analyses
    BY <1>2 DEF MarkFailed, WorkerState, Working, Steps
  <2>2. CASE at[w] = a
    BY <1>2, <2>2 DEF MarkFailed, ServiceTypeOK
  <2>3. CASE at[w] # a
    BY <1>2, <2>1, <2>3 DEF MarkFailed, ServiceTypeOK
  <2>4. QED BY <2>2, <2>3
<1>3. ASSUME NEW b \in Analyses,
             AgentRuns(b) \/ AgentCompletes(b) \/ Cancel(b) \/ HandleCancel(b)
      PROVE  /\ analysis[a] \in Terminal => analysis'[a] = analysis[a]
             /\ analysis[a] = "cancelling" => analysis'[a] \in {"cancelling", "cancelled"}
             /\ session[a].status \in Terminal => session'[a] = session[a]
  <2>1. CASE b = a
    BY <1>3, <2>1 DEF AgentRuns, AgentCompletes, Cancel,
                      HandleCancel, ServiceTypeOK
  <2>2. CASE b # a
    BY <1>3, <2>2 DEF AgentRuns, AgentCompletes, Cancel,
                      HandleCancel, ServiceTypeOK
  <2>3. QED BY <2>1, <2>2
<1>4. QED
  BY <1>1, <1>2, <1>3
     DEF ServiceNext, ServiceStep, MarkStarted, Build, Find,
         Insert, Acknowledge, Dies, Raises, Take,
         ClaimExpires, RefMoves

-----------------------------------------------------------------------------
(* Theorems                                                                *)

\* The inductive invariant.
SnapshotInv == ServiceTypeOK /\ SharedInv /\ SharedByCommit /\ AloneInv

\* The initial states satisfy it.
LEMMA SnapshotInit == ServiceInit => SnapshotInv
<1> SUFFICES ASSUME ServiceInit
             PROVE  SnapshotInv
  OBVIOUS
<1>1. ServiceTypeOK
  BY Numbers DEF ServiceInit, ServiceTypeOK, Steps, SessionStatuses
<1>2. WorkerState /\ OverlapKnown /\ NothingYet
  BY DEF ServiceInit, WorkerState, OverlapKnown, NothingYet, Working, Building, Resolved
<1>3. FreshIds /\ OneRow /\ RowChosen /\ SharedByCommit
  BY DEF ServiceInit, FreshIds, OneRow, RowChosen, SharedByCommit
<1>4. QED BY <1>1, <1>2, <1>3 DEF SnapshotInv, SharedInv, AloneInv

\* Every step keeps it.
LEMMA SnapshotStep == SnapshotInv /\ [ServiceNext]_serviceVars => SnapshotInv'
<1> SUFFICES ASSUME SnapshotInv, [ServiceNext]_serviceVars
             PROVE  SnapshotInv'
  OBVIOUS
<1> USE DEF SnapshotInv, SharedInv, AloneInv
<1>1. CASE UNCHANGED serviceVars
  BY <1>1 DEF serviceVars, ServiceTypeOK, WorkerState, FreshIds, OneRow, RowChosen,
              RowsOf, Pending, SharedByCommit,
              OverlapKnown, NothingYet
<1>2. CASE ServiceNext
  <2>1. ServiceTypeOK'
    BY <1>2, DeliveryTypes, HandlerTypes, OtherTypes DEF ServiceNext, ServiceStep
  <2>2. WorkerState' /\ FreshIds' /\ OneRow' /\ RowChosen'
    BY <1>2, WorkerStatePreserved, FreshIdsPreserved, OneRowPreserved, RowChosenPreserved
  <2>3. SharedByCommit'
    BY <1>2, <2>2, SharedPreserved
  <2>4. OverlapKnown' /\ NothingYet'
    BY <1>2, OverlapKnownPreserved, NothingYetPreserved
  <2>5. QED BY <2>1, <2>2, <2>3, <2>4
<1>3. QED BY <1>1, <1>2

\* The invariant holds in every reachable state.
THEOREM SnapshotInvariant == ServiceSpec => []SnapshotInv
BY SnapshotInit, SnapshotStep, PTL DEF ServiceSpec

\* The snapshot service keeps its types (snapshot/repository.py: the columns it
\* writes).
THEOREM SnapshotTypeCorrect == ServiceSpec => []ServiceTypeOK
<1>1. SnapshotInv => ServiceTypeOK
  BY DEF SnapshotInv
<1>2. QED BY <1>1, SnapshotInvariant, PTL

\* The analyses of one commit share one committed row, for any number of workers,
\* deaths, exceptions, expired claims and pushes (insert_snapshot with ON CONFLICT,
\* then find_ready_snapshot again).
THEOREM SnapshotShared == ServiceSpec => []SharedByCommit
<1>1. SnapshotInv => SharedByCommit
  BY DEF SnapshotInv
<1>2. QED BY <1>1, SnapshotInvariant, PTL

\* A redelivered event leaves the result of its analysis alone unless two workers
\* handled it at once (mark_analysis_snapshotting).
THEOREM ResultKept == ServiceSpec => ResultStands
<1>1. SnapshotInv /\ [ServiceNext]_serviceVars =>
        [\A a \in Analyses : session[a].snapshot # 0 /\ a \notin overlapped =>
           /\ session'[a].snapshot = session[a].snapshot
           /\ session[a].status # "queued" => session'[a].status # "queued"
           /\ analysis'[a] = "failed" => analysis[a] = "failed"]_serviceVars
  BY StandsStep DEF SnapshotInv, SharedInv, AloneInv
<1>2. QED BY <1>1, SnapshotInvariant, PTL DEF ServiceSpec, ResultStands

\* A completed, failed or cancelled analysis stays so whatever arrives late
\* (associate_snapshot, mark_failed, cancel).
THEOREM EndingFinal == ServiceSpec => EndIsFinal
<1>1. SnapshotInv /\ [ServiceNext]_serviceVars =>
        [\A a \in Analyses :
           /\ analysis[a] \in Terminal => analysis'[a] = analysis[a]
           /\ analysis[a] = "cancelling" => analysis'[a] \in {"cancelling", "cancelled"}
           /\ session[a].status \in Terminal => session'[a] = session[a]]_serviceVars
  BY FinalStep DEF SnapshotInv, SharedInv
<1>2. QED BY <1>1, SnapshotInvariant, PTL DEF ServiceSpec, EndIsFinal
=============================================================================
