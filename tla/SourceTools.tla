---------------------------- MODULE SourceTools ----------------------------
(***************************************************************************)
(* The source tools of the execution worker (SourceToolExecutor) and the   *)
(* local source cache they share (LocalSourceCache):                       *)
(*                                                                         *)
(*   - the snapshot scanner, which decides what of a commit is stored;     *)
(*   - list_files and search_file, which page through snapshot_files;      *)
(*   - read_file, which caches one file and returns a window of its lines; *)
(*   - search_text, which materialises a directory in the cache under a    *)
(*     file lock, records it in coverage.json and runs ripgrep over it.    *)
(*                                                                         *)
(* Worker processes share the cache directory.  A file is written to       *)
(* "<name>.tmp" and renamed; the temporary name is the same for every      *)
(* process, so opening it truncates what another process is writing.  Each *)
(* open, write and rename is a step of its own, and a process may crash    *)
(* before each.  A process that starts runs cleanup, which may remove the  *)
(* snapshot's directory entry by entry while others use it.                *)
(*                                                                         *)
(* A caller repeats a call with the cursor or the line it was given until  *)
(* the answer is not truncated.  Repository paths are the naturals in path *)
(* order: a directory comes before what it holds.  ripgrep, the object     *)
(* store and the file system are external: every readable line matches the *)
(* query, a lock dies with its process, an unlinked file keeps its writers.*)
(* No file of the repository is called like the temporary name of another. *)
(***************************************************************************)
EXTENDS Integers, Sequences, FiniteSets, FiniteSetsExt

CONSTANTS
    Workers,      \* execution worker processes sharing one cache directory
    Parent,       \* Parent[p]: directory of path p, 0 for the repository root
    Trees,        \* candidate git trees: the entry of every path
    Lines,        \* Lines[p]: byte lengths of the lines of path p
    Queries,      \* row sets a search_file query can select
    Windows,      \* <<start_line, end_line>> arguments of read_file
    MaxResults,   \* rows or matches of a page
    MaxLines,     \* ReadFileToolConfig.max_lines
    DefaultLines, \* ReadFileToolConfig.default_lines
    MaxBytes,     \* ReadFileToolConfig.max_bytes
    MaxStarts,    \* bound on process starts
    MaxCalls      \* bound on conversations a caller starts

Root == 0
Paths == DOMAIN Parent
Directories == {Parent[p] : p \in Paths} \ {Root}
Leaves == Paths \ Directories
Coverage == 0                      \* coverage.json, beside the cached files

\* What git has at a path, and what the two secret predicates say of its name:
\*   "plain"    neither hides it;
\*   "secret"   both do (.env at the root, .ssh/config);
\*   "nested"   only is_secret_path does (pkg/.npmrc, the directory .ssh itself);
\*   "hidden"   only the SQL does (deploy/.docker/notes.md, x.ssh/readme).
Entries == [kind : {"directory", "text", "binary", "large", "commit"},
            class : {"plain", "secret", "nested", "hidden"}]

ASSUME SourceToolsAssumption ==
    /\ Paths \subseteq Nat \ {0} /\ IsFiniteSet(Paths) /\ IsFiniteSet(Workers)
    /\ \A p \in Paths : Parent[p] \in Paths \cup {Root} /\ Parent[p] < p
    /\ Trees \subseteq [Paths -> Entries]
    /\ \A t \in Trees, p \in Paths : t[p].kind = "directory" <=> p \in Directories
    /\ \A p \in Paths : Lines[p] \in Seq(Nat)
    /\ Queries \subseteq SUBSET Paths
    /\ Windows \subseteq (Nat \ {0}) \X Nat
    /\ {MaxResults, MaxLines, DefaultLines, MaxBytes} \subseteq Nat \ {0}
    /\ {MaxStarts, MaxCalls} \subseteq Nat

VARIABLES
    tree,    \* the commit the snapshot was built from
    disk,    \* cache files: what the name and its temporary name hold
    job,     \* job[w]: the call worker process w is executing
    locks,   \* how often the locks directory was removed: a new lock each time
    starts,  \* process starts so far (bounded by MaxStarts)
    calls,   \* conversations started so far (bounded by MaxCalls)
    broken   \* history: which hazards of the shared directory have occurred

vars == <<tree, disk, job, locks, starts, calls, broken>>

-----------------------------------------------------------------------------
(* Paths and prefixes                                                       *)

Above[p \in Paths] == IF Parent[p] = Root THEN {Root}
                      ELSE {Parent[p]} \cup Above[Parent[p]]

\* LIKE '<prefix>/%', and every path for the empty prefix.
Under(dir) == {p \in Paths : dir \in Above[p]}

visible_path_sql(p) == tree[p].class \notin {"secret", "hidden"}

is_secret_path(p) == p \in Paths /\ tree[p].class \in {"secret", "nested"}

-----------------------------------------------------------------------------
(* The snapshot: what SnapshotScanner.scan records for a path               *)

FileRecord(kind, key, binary, large) ==
    [entry_kind |-> kind, content_key |-> key, is_binary |-> binary, is_large |-> large]

scan(p) ==
    LET kind == tree[p].kind
    IN  CASE kind \in {"directory", "commit"} -> FileRecord(kind, FALSE, FALSE, FALSE)
          [] kind \notin {"directory", "commit"} /\ is_secret_path(p) ->
                 FileRecord("file", FALSE, FALSE, TRUE)
          [] OTHER -> FileRecord("file", kind = "text", kind = "binary", kind = "large")

Readable(p) ==
    scan(p).content_key /\ ~scan(p).is_binary /\ ~scan(p).is_large

\* Variant: only the files directly in the directory.
TextFilesDirectlyIn(dir) == {p \in Leaves : Parent[p] = dir /\ Readable(p) /\ visible_path_sql(p)}

text_files_under_prefix(dir) ==
    {p \in Under(dir) : /\ scan(p).entry_kind = "file"
                        /\ Readable(p)
                        /\ visible_path_sql(p)}

-----------------------------------------------------------------------------
(* Cached files.  st: no file, a truncated file, or a complete one; val is  *)
(* used by coverage.json only: the prefixes it lists.                       *)

Absent == [st |-> "none", val |-> {}]
Torn == [st |-> "torn", val |-> {}]
Full(prefixes) == [st |-> "full", val |-> prefixes]
Files == Paths \cup {Coverage}

\* Variant: a prefix counts as covered when something below it is.
CoveredFromBelow(dir) ==
    \E c \in disk[Coverage].target.val : dir = c \/ (c \in Paths /\ dir \in Above[c])

is_prefix_covered(dir) ==
    \E c \in disk[Coverage].target.val : dir = c \/ (dir \in Paths /\ c \in Above[dir])

\* json.loads of a truncated coverage.json raises.
_read_coverage == disk[Coverage].target.st # "torn"

-----------------------------------------------------------------------------
(* Calls.  An item is a listed path, a line of a file or a ripgrep match;   *)
(* tmp marks a match in a temporary file.                                   *)

Item(p, line, size, tmp) == [path |-> p, line |-> line, size |-> size, tmp |-> tmp]

NoJob == [pc |-> "idle", tool |-> "none", at |-> Root, q |-> {}, first |-> 0, from |-> 0,
          end |-> 0, todo |-> {}, data |-> {}, lock |-> 0, handle |-> "none", got |-> {},
          more |-> FALSE, paged |-> FALSE, cut |-> FALSE]

Set(w, j) == job' = [job EXCEPT ![w] = j]

\* Where a search holds the lock of its prefix.
Locked == {"fetch", "write", "replace", "cover", "coveropen", "coverwrite", "coverreplace"}
CacheFree == {"idle", "down", "answered", "failed"}
Active(w) == job[w].pc \notin CacheFree

\* A call ends with an error; __exit__ of the lock releases it.
Error(w) == Set(w, [NoJob EXCEPT !.pc = "failed", !.tool = job[w].tool])

\* next: where the rest starts, -1 for none; cut: the output limit was hit.
Answer(w, items, next, cut) ==
    Set(w, [job[w] EXCEPT !.pc = "answered", !.got = @ \cup items, !.more = next # -1,
                          !.from = next, !.cut = @ \/ cut])

\* A call that starts while another process removes the directory.
Arrives == broken' = IF \E v \in Workers : job[v].pc = "cleanup"
                     THEN broken \cup {"cleanup"} ELSE broken

\* The caller asks for the rest, or takes the answer.
Continue(w) ==
    /\ job[w].pc = "answered"
    /\ IF job[w].more THEN Set(w, [job[w] EXCEPT !.pc = "call", !.more = FALSE, !.paged = TRUE])
                      ELSE Set(w, NoJob)
    /\ Arrives
    /\ UNCHANGED <<tree, disk, locks, starts, calls>>

GiveUp(w) ==
    /\ job[w].pc = "failed"
    /\ Set(w, NoJob)
    /\ UNCHANGED <<tree, disk, locks, starts, calls, broken>>

-----------------------------------------------------------------------------
(* list_files and search_file                                               *)

\* The first n rows in path order.
First(rows, n) == {p \in rows : Cardinality({r \in rows : r < p}) < n}

\* Variant: the cursor counts the row that was fetched only to look ahead.
PageRowsLookahead(shown, offset) ==
    IF Cardinality(shown) > MaxResults
    THEN <<First(shown, MaxResults), offset + MaxResults + 1>>
    ELSE <<shown, -1>>

_page_rows(shown, offset) ==
    IF Cardinality(shown) > MaxResults
    THEN <<First(shown, MaxResults), offset + MaxResults>>
    ELSE <<shown, -1>>

_visible_file_rows(fetched) == {p \in fetched : ~is_secret_path(p)}

\* ORDER BY path LIMIT max_results + 1 OFFSET cursor
list_files(selected, offset) ==
    LET rows == {p \in selected : visible_path_sql(p)}
    IN  First(rows \ First(rows, offset), MaxResults + 1)

\* evaluate_result denies a secret path argument before the handler runs.
Permitted(p) == ~is_secret_path(p)

Begin(w, tool, at, q, from, end) ==
    /\ job[w].pc = "idle"
    /\ calls < MaxCalls
    /\ calls' = calls + 1
    /\ Set(w, [NoJob EXCEPT !.pc = IF at \in Paths /\ ~Permitted(at) THEN "failed" ELSE "call",
                            !.tool = tool, !.at = at, !.q = q, !.first = from,
                            !.from = from, !.end = end])
    /\ Arrives
    /\ UNCHANGED <<tree, disk, locks, starts>>

ListFiles(w) ==
    \E dir \in Directories \cup {Root}, recursive \in BOOLEAN :
        Begin(w, "list", dir, IF recursive THEN Under(dir)
                              ELSE {p \in Paths : Parent[p] = dir}, 0, 0)

SearchFile(w) == \E q \in Queries : Begin(w, "list", Root, q, 0, 0)

Listed(w) ==
    /\ job[w].pc = "call" /\ job[w].tool = "list"
    /\ LET page == _page_rows(_visible_file_rows(list_files(job[w].q, job[w].from)), job[w].from)
       IN  Answer(w, {Item(p, 0, 0, FALSE) : p \in page[1]}, page[2], FALSE)
    /\ UNCHANGED <<tree, disk, locks, starts, calls, broken>>

-----------------------------------------------------------------------------
(* Writing a file of the cache: open and truncate the temporary name,       *)
(* write, rename.  handle says which name the writer's open file has now.   *)

Writers(f) == {v \in Workers : /\ job[v].handle \notin {"none", "gone"}
                               /\ f = IF job[v].pc \in {"coverwrite", "coverreplace"}
                                      THEN Coverage ELSE Min(job[v].todo)}

OpenTmp(w, f, j) ==
    /\ disk' = [disk EXCEPT ![f].tmp = Torn]
    /\ broken' = IF Writers(f) \ {w} # {} THEN broken \cup {"collision"} ELSE broken
    /\ Set(w, [j EXCEPT !.handle = "tmp"])

\* Two writers of one open file leave the last one's bytes or, when the
\* lengths differ, a mixture that cannot be parsed.
WriteTmp(w, f, content, j) ==
    /\ \E result \in {content} \cup (IF f = Coverage /\ Writers(f) # {w} THEN {Torn} ELSE {}) :
           disk' = CASE job[w].handle = "tmp"    -> [disk EXCEPT ![f].tmp = result]
                     [] job[w].handle = "target" -> [disk EXCEPT ![f].target = result]
                     [] OTHER                    -> disk
    /\ Set(w, j)
    /\ UNCHANGED broken

\* Variant: the temporary file is copied.
ReplaceCopies(w, f, j) ==
    /\ disk[f].tmp.st # "none"
    /\ disk' = [disk EXCEPT ![f].target = disk[f].tmp]
    /\ Set(w, [j EXCEPT !.handle = "none"])
    /\ UNCHANGED broken

\* tmp.replace(target): the open files of other writers follow the names.
Replace(w, f, j) ==
    /\ disk[f].tmp.st # "none"
    /\ disk' = [disk EXCEPT ![f] = [tmp |-> Absent, target |-> disk[f].tmp]]
    /\ job' = [v \in Workers |->
                 IF v = w THEN [j EXCEPT !.handle = "none"]
                 ELSE IF v \in Writers(f)
                 THEN [job[v] EXCEPT !.handle = IF @ = "tmp" THEN "target" ELSE "gone"]
                 ELSE job[v]]
    /\ UNCHANGED broken

-----------------------------------------------------------------------------
(* _ensure_file and _ensure_prefix                                          *)

\* is_prefix_covered before the lock; the lock file is opened, not locked yet.
SearchText(w) ==
    /\ job[w].pc = "call" /\ job[w].tool = "search"
    /\ IF ~_read_coverage THEN Error(w)
       ELSE IF is_prefix_covered(job[w].at) THEN Set(w, [job[w] EXCEPT !.pc = "rg"])
       ELSE Set(w, [job[w] EXCEPT !.pc = "lock", !.lock = locks])
    /\ UNCHANGED <<tree, disk, locks, starts, calls, broken>>

\* LOCK_EX on the lock file of the prefix (a file removed by a cleanup and
\* created again is another lock), then the second check.
PrefixLock(w) ==
    /\ job[w].pc = "lock"
    /\ \A v \in Workers \ {w} : ~ /\ job[v].pc \in Locked
                                  /\ job[v].tool = "search"
                                  /\ job[v].at = job[w].at
                                  /\ job[v].lock = job[w].lock
    /\ IF ~_read_coverage THEN Error(w)
       ELSE IF is_prefix_covered(job[w].at) THEN Set(w, [job[w] EXCEPT !.pc = "rg", !.lock = 0])
       ELSE LET rows == text_files_under_prefix(job[w].at)
            IN  Set(w, [job[w] EXCEPT !.pc = IF rows = {} THEN "cover" ELSE "fetch",
                                      !.todo = rows])
    /\ UNCHANGED <<tree, disk, locks, starts, calls, broken>>

\* max_prefix_bytes exceeded, the object missing or its hash wrong.
FetchFails(w) ==
    /\ job[w].pc = "fetch"
    /\ Error(w)
    /\ UNCHANGED <<tree, disk, locks, starts, calls, broken>>

\* get_bytes, hash check and the first half of write_file
Fetch(w) ==
    /\ job[w].pc = "fetch"
    /\ OpenTmp(w, Min(job[w].todo), [job[w] EXCEPT !.pc = "write"])
    /\ UNCHANGED <<tree, locks, starts, calls>>

WriteFile(w) ==
    /\ job[w].pc = "write"
    /\ WriteTmp(w, Min(job[w].todo), Full({}), [job[w] EXCEPT !.pc = "replace"])
    /\ UNCHANGED <<tree, locks, starts, calls>>

ReplaceFile(w) ==
    LET f == Min(job[w].todo)
        rest == job[w].todo \ {f}
    IN  /\ job[w].pc = "replace"
        /\ \/ Replace(w, f, [job[w] EXCEPT !.todo = rest,
                                           !.pc = IF rest # {} THEN "fetch"
                                                  ELSE IF job[w].tool = "read" THEN "lines"
                                                  ELSE "cover"])
           \/ /\ disk[f].tmp.st = "none"
              /\ Error(w)
              /\ UNCHANGED <<disk, broken>>
        /\ UNCHANGED <<tree, locks, starts, calls>>

CoverageWith(dir) == disk[Coverage].target.val \cup {dir}

\* mark_prefix_covered: read, then write through the shared temporary name.
MarkRead(w) ==
    /\ job[w].pc = "cover"
    /\ IF _read_coverage
       THEN Set(w, [job[w] EXCEPT !.pc = "coveropen", !.data = CoverageWith(job[w].at)])
       ELSE Error(w)
    /\ UNCHANGED <<tree, disk, locks, starts, calls, broken>>

MarkOpen(w) ==
    /\ job[w].pc = "coveropen"
    /\ OpenTmp(w, Coverage, [job[w] EXCEPT !.pc = "coverwrite"])
    /\ UNCHANGED <<tree, locks, starts, calls>>

MarkWrite(w) ==
    /\ job[w].pc = "coverwrite"
    /\ WriteTmp(w, Coverage, Full(job[w].data), [job[w] EXCEPT !.pc = "coverreplace"])
    /\ UNCHANGED <<tree, locks, starts, calls>>

MarkReplace(w) ==
    /\ job[w].pc = "coverreplace"
    /\ \/ Replace(w, Coverage, [job[w] EXCEPT !.pc = "rg", !.data = {}, !.lock = 0])
       \/ /\ disk[Coverage].tmp.st = "none"
          /\ Error(w)
          /\ UNCHANGED <<disk, broken>>
    /\ UNCHANGED <<tree, locks, starts, calls>>

-----------------------------------------------------------------------------
(* read_file                                                                *)

\* end_line absent is written 0.
ReadFile(w) == \E p \in Paths, window \in Windows :
                   Begin(w, "read", p, {}, window[1], window[2])

\* The row must be readable; _ensure_file accepts a cached file whose hash
\* matches and fetches it otherwise.
EnsureFile(w) ==
    /\ job[w].pc = "call" /\ job[w].tool = "read"
    /\ IF ~Readable(job[w].at) THEN Error(w)
       ELSE IF disk[job[w].at].target.st = "full" THEN Set(w, [job[w] EXCEPT !.pc = "lines"])
       ELSE Set(w, [job[w] EXCEPT !.pc = "fetch", !.todo = {job[w].at}])
    /\ UNCHANGED <<tree, disk, locks, starts, calls, broken>>

Bytes(p, from, to) == FoldFunctionOnSet(LAMBDA x, y : x + y, 0, Lines[p], from .. to)

\* The last line returned: lines are added while they fit, the first always.
_read_line_range(p, start, last) ==
    Max({start - 1} \cup {e \in start .. last : e = start \/ Bytes(p, start, e) <= MaxBytes})

\* Variant: the line that ended the window counts as read.
NextStartLineSkips(actual_end, truncated) == IF truncated THEN actual_end + 2 ELSE -1

next_start_line(actual_end, truncated) == IF truncated THEN actual_end + 1 ELSE -1

ReadLines(w) ==
    LET p == job[w].at
        start == job[w].from
        end == IF job[w].end = 0 THEN start + DefaultLines - 1 ELSE job[w].end
        bounded == Min({end, start + MaxLines - 1})
        count == IF disk[p].target.st = "full" THEN Len(Lines[p]) ELSE 0
        last == Min({bounded, count})
        actual == _read_line_range(p, start, last)
        truncated == \/ actual < last
                     \/ start <= last /\ Lines[p][start] > MaxBytes
                     \/ end > bounded
    IN  /\ job[w].pc = "lines"
        /\ IF end < start \/ disk[p].target.st = "none" THEN Error(w)
           ELSE Answer(w, {Item(p, n, Min({Lines[p][n], MaxBytes}), FALSE) : n \in start .. actual},
                       next_start_line(actual, truncated), FALSE)
        /\ UNCHANGED <<tree, disk, locks, starts, calls, broken>>

-----------------------------------------------------------------------------
(* search_text: ripgrep over the directory, hidden and temporary files too  *)

Search(w) == \E dir \in Directories \cup {Root} : Begin(w, "search", dir, {}, 0, 0)

Ripgrep(w) ==
    LET there == {p \in Under(job[w].at) : disk[p].tmp.st # "none" \/ disk[p].target.st # "none"}
        found == {Item(p, 0, 0, FALSE) : p \in {f \in there : disk[f].target.st = "full"}}
                 \cup {Item(p, 0, 0, TRUE) : p \in {f \in there : disk[f].tmp.st = "full"}}
        offset == job[w].from
    IN  /\ job[w].pc = "rg"
        /\ \/ Error(w)                                     \* timeout, or no such directory
           \/ /\ there # {}
              /\ \E seen \in 0 .. Cardinality(found) :     \* fewer: max_output_bytes
                 LET k == Max({0, Min({MaxResults, seen - offset})})
                 IN  \E page \in kSubset(k, found) :       \* ripgrep's order is not fixed
                         Answer(w, page, IF seen > offset + k /\ k > 0 THEN offset + k ELSE -1,
                                seen < Cardinality(found))
        /\ UNCHANGED <<tree, disk, locks, starts, calls, broken>>

-----------------------------------------------------------------------------
(* Processes                                                                *)

Crash(w) ==
    /\ job[w].pc # "down"
    /\ starts < MaxStarts
    /\ Set(w, [NoJob EXCEPT !.pc = "down"])
    /\ broken' = IF job[w].pc = "cleanup" THEN broken \cup {"cleanup"} ELSE broken
    /\ UNCHANGED <<tree, disk, locks, starts, calls>>

\* consume_forever runs cleanup, which removes the directory when it is older
\* than ttl_days, the cache is too large or the disk too full.
Start(w) ==
    /\ job[w].pc = "down"
    /\ starts < MaxStarts
    /\ starts' = starts + 1
    /\ \/ Set(w, NoJob)
       \/ Set(w, [NoJob EXCEPT !.pc = "cleanup", !.q = {1, 2, 3}])
    /\ UNCHANGED <<tree, disk, locks, calls, broken>>

\* rmtree, in any order: 1 the files, 2 coverage.json, 3 the locks.
Cleanup(w) ==
    /\ job[w].pc = "cleanup"
    /\ \E part \in job[w].q :
          LET gone == CASE part = 1 -> Paths [] part = 2 -> {Coverage} [] OTHER -> {}
              rest == job[w].q \ {part}
              writing == UNION {Writers(f) : f \in gone}
          IN  /\ disk' = [f \in Files |-> IF f \in gone THEN [tmp |-> Absent, target |-> Absent]
                                          ELSE disk[f]]
              /\ locks' = IF part = 3 THEN locks + 1 ELSE locks
              /\ job' = [v \in Workers |->
                           IF v = w
                           THEN IF rest = {} THEN NoJob ELSE [job[w] EXCEPT !.q = rest]
                           ELSE IF v \in writing THEN [job[v] EXCEPT !.handle = "gone"]
                           ELSE job[v]]
    /\ broken' = IF \E v \in Workers \ {w} : Active(v) THEN broken \cup {"cleanup"} ELSE broken
    /\ UNCHANGED <<tree, starts, calls>>

Init ==
    /\ tree \in Trees
    /\ disk = [f \in Files |-> [tmp |-> Absent, target |-> Absent]]
    /\ job = [w \in Workers |-> [NoJob EXCEPT !.pc = "down"]]
    /\ locks = 0
    /\ starts = 0
    /\ calls = 0
    /\ broken = {}

Step(w) ==
    \/ ListFiles(w) \/ SearchFile(w) \/ Listed(w)
    \/ ReadFile(w) \/ EnsureFile(w) \/ ReadLines(w)
    \/ Search(w) \/ SearchText(w) \/ PrefixLock(w) \/ Ripgrep(w)
    \/ Fetch(w) \/ FetchFails(w) \/ WriteFile(w) \/ ReplaceFile(w)
    \/ MarkRead(w) \/ MarkOpen(w) \/ MarkWrite(w) \/ MarkReplace(w)
    \/ Continue(w) \/ GiveUp(w)
    \/ Crash(w) \/ Start(w) \/ Cleanup(w)

Next == \E w \in Workers : Step(w)

Spec == Init /\ [][Next]_vars

-----------------------------------------------------------------------------
(* Properties                                                               *)

Pcs == {"idle", "down", "cleanup", "call", "failed", "answered", "lines", "lock", "rg",
        "fetch", "write", "replace", "cover", "coveropen", "coverwrite",
        "coverreplace"}
Contents == {Absent, Torn} \cup {Full(d) : d \in SUBSET (Paths \cup {Root})}

Jobs == [pc : Pcs, tool : {"none", "list", "read", "search"}, at : Paths \cup {Root},
         q : SUBSET (Paths \cup 1 .. 3), first : Nat, from : Nat \cup {-1}, end : Nat,
         todo : SUBSET Leaves, data : SUBSET (Paths \cup {Root}), lock : Nat,
         handle : {"none", "tmp", "target", "gone"},
         got : SUBSET [path : Paths, line : Nat, size : Nat, tmp : BOOLEAN],
         more : BOOLEAN, paged : BOOLEAN, cut : BOOLEAN]

\* Types of the variables.
TypeOK ==
    /\ tree \in Trees
    /\ disk \in [Files -> [tmp : Contents, target : Contents]]
    /\ job \in [Workers -> Jobs]
    /\ starts \in 0 .. MaxStarts
    /\ locks \in Nat
    /\ calls \in 0 .. MaxCalls
    /\ broken \subseteq {"collision", "cleanup"}

\* No two processes wrote one file at once, and no cleanup ran beside a call,
\* was interrupted or is running.
Undisturbed == broken = {} /\ \A w \in Workers : job[w].pc # "cleanup"

\* A text file the scanner stores; one that also the SQL of a search shows.
StoredText(p) == tree[p].kind = "text" /\ tree[p].class \in {"plain", "hidden"}
ShownText(p) == tree[p].kind = "text" /\ tree[p].class = "plain"

\* As long as no two processes wrote one file at once and no cleanup was
\* interrupted or ran beside a call, whatever else crashed: a file under its final
\* name is complete (write_file, _write_coverage), and a prefix listed in
\* coverage.json has every stored text file below it in the cache, except those
\* whose path visible_path_sql hides and is_secret_path does not: the scanner
\* stores them, read_file reads them, text_files_under_prefix leaves them out.
CacheIntact ==
    Undisturbed =>
        /\ \A f \in Files : disk[f].target.st # "torn"
        /\ \A dir \in disk[Coverage].target.val, p \in Paths :
               (dir \in Above[p] /\ ShownText(p)) => disk[p].target.st = "full"

Up == {w \in Workers : job[w].pc # "down"}
Crashes == starts - Cardinality(Up)

\* Whatever collides and whatever a cleanup removes, only a crash leaves something
\* behind: until a process crashes, a temporary name exists only while a process has
\* it open, and a source file under its final name is truncated only while a process
\* is about to write it.
LeftByCrash ==
    Crashes = 0 =>
        /\ \A f \in Files :
               disk[f].tmp.st # "none" => \E w \in Writers(f) : job[w].handle = "tmp"
        /\ \A f \in Paths :
               disk[f].target.st = "torn" =>
                   \E w \in Writers(f) : job[w].handle = "target" /\ job[w].pc = "write"

Answered(w, tool) == job[w].pc = "answered" /\ job[w].tool = tool

Matched(w, tmp) == {i.path : i \in {m \in job[w].got : m.tmp = tmp}}

\* A search_text answer of one page that was not cut short by the output limit
\* names every text file below the directory that the SQL shows.  What else it names
\* are other stored text files below the directory, never a secret path, though
\* search_text does not look at the paths ripgrep returns: files the SQL hides that
\* a read_file has cached, and "<name>.tmp" of stored text files, these only if
\* another process has run, which is writing the file or died over it.
SearchComplete ==
    \A w \in Workers :
        (/\ Answered(w, "search") /\ Undisturbed
         /\ ~job[w].more /\ ~job[w].paged /\ ~job[w].cut)
        => LET below == Under(job[w].at)
           IN  /\ {p \in below : ShownText(p)} \subseteq Matched(w, FALSE)
               /\ Matched(w, FALSE) \cup Matched(w, TRUE) \subseteq {p \in below : StoredText(p)}
               /\ Matched(w, TRUE) # {} => starts > 1

\* A caller who follows next_start_line to the last answer has seen every
\* line of the range it asked for, each up to the byte limit.
ReadComplete ==
    \A w \in Workers :
        (Answered(w, "read") /\ ~job[w].more /\ Undisturbed)
        => LET j == job[w]
               asked == IF j.end = 0 THEN j.first + DefaultLines - 1 ELSE j.end
           IN  \A n \in j.first .. Min({asked, Len(Lines[j.at])}) :
                   Item(j.at, n, Min({Lines[j.at][n], MaxBytes}), FALSE) \in j.got

\* A caller who follows next_cursor sees no secret path and, at any time, every row
\* up to the last it has seen; at the last answer it has seen all the rows the query
\* selects, except rows behind one that the SQL selects and is_secret_path refuses:
\* such a row is dropped from the page, and a page that lost one is the last.
ListComplete ==
    \A w \in Workers :
        Answered(w, "list")
        => LET seen == {i.path : i \in job[w].got}
               rows == {p \in job[w].q : visible_path_sql(p)}
               shown == {p \in rows : ~is_secret_path(p)}
           IN  /\ seen \subseteq shown
               /\ \A p \in seen, r \in shown : r < p => r \in seen
               /\ ~job[w].more => \A r \in shown \ seen : \E s \in rows \ shown : s < r

=============================================================================
