------------------------------- MODULE Files -------------------------------
(***************************************************************************)
(* The files of fs.rs over the sandbox of the host: the kernel32 calls by  *)
(* path, the NT calls by handle, and the enumerations of directories.      *)
(*                                                                         *)
(* A path is a sequence of names and a name is a number, in the order the  *)
(* enumerations sort by.  fs says what a path is on the host: nothing, a   *)
(* directory, or the number of a file; lengths says how long.  A handle    *)
(* is bound to the file itself, as the host's descriptors are, but keeps   *)
(* the path of a directory.  Contents, times and standard streams are left *)
(* out; created is history: what NtCreateFile was asked and answered last. *)
(***************************************************************************)
EXTENDS Integers, Sequences, FiniteSets, SequencesExt

CONSTANTS Paths,       \* the paths below the sandbox, closed under Parent
          MaxFiles,    \* files created in a run (a bound of the model)
          MaxSize,     \* length of a file (a bound of the model)
          MaxOpen      \* handles given out in a run (a bound of the model)

VARIABLES fs, lengths, files, file_dirs, find_handles, given, created

fsvars == <<fs, lengths, files, file_dirs, find_handles, given, created>>

None == 0
Dir == -1
Dot == -2       \* the entries "." and ".." come before every name
DotDot == -1
NoCall == [status |-> "none"]

FsInit == /\ fs = [p \in Paths |-> None]
          /\ lengths = <<>>
          /\ files = [h \in {} |-> None]
          /\ file_dirs = [h \in {} |-> None]
          /\ find_handles = [h \in {} |-> None]
          /\ given = 0
          /\ created = NoCall

Parent(p) == SubSeq(p, 1, Len(p) - 1)
Inside(p, q) == IsPrefix(p, q)
IsDir(f, p) == p = <<>> \/ (p \in Paths /\ f[p] = Dir)
IsFile(f, p) == p \in Paths /\ f[p] > 0
Plus(table, h, value) == [k \in DOMAIN table \cup {h} |-> IF k = h THEN value ELSE table[k]]
Minus(table, h) == [k \in DOMAIN table \ {h} |-> table[k]]

\* create_dir_all of the host: every missing ancestor, up to the first file.
MadeAll(f, p) ==
    [q \in Paths |-> IF /\ f[q] = None /\ Inside(q, p)
                        /\ \A a \in Paths : Inside(a, q) => ~IsFile(f, a)
                     THEN Dir ELSE f[q]]

(***************************************************************************)
(* Opening and creating.                                                   *)
(***************************************************************************)
Kinds == {"supersede", "open", "create", "open_if", "overwrite", "overwrite_if"}
Truncating == {"supersede", "overwrite", "overwrite_if"}

\* The checks of NtCreateFile before it touches the host, in its order.
Refusal(p, kind, want) ==
    IF want = {"dir", "file"} THEN "INVALID_PARAMETER"
    ELSE IF want = {"dir"} /\ kind \in Truncating THEN "INVALID_PARAMETER"
    ELSE IF ~IsDir(fs, Parent(p)) THEN "OBJECT_PATH_NOT_FOUND"
    ELSE IF fs[p] # None /\ kind = "create" THEN "OBJECT_NAME_COLLISION"
    ELSE IF fs[p] > 0 /\ want = {"dir"} THEN "NOT_A_DIRECTORY"
    ELSE IF fs[p] = Dir /\ (want = {"file"} \/ kind \in Truncating) THEN "FILE_IS_A_DIRECTORY"
    ELSE IF fs[p] = None /\ kind \in {"open", "overwrite"} THEN "OBJECT_NAME_NOT_FOUND"
    ELSE "none"

Information_ByKind(p, kind) ==
    CASE kind = "create"                        -> "created"
      [] kind = "supersede"                     -> "superseded"
      [] kind \in {"overwrite", "overwrite_if"} -> "overwritten"
      [] OTHER                                  -> "opened"

Information(p, kind) ==
    IF fs[p] = None THEN "created"
    ELSE IF kind = "supersede" THEN "superseded"
    ELSE IF kind \in {"overwrite", "overwrite_if"} THEN "overwritten"
    ELSE "opened"

NewHandle(node, writes) ==
    /\ given < MaxOpen
    /\ given' = given + 1
    /\ files' = Plus(files, given', [node |-> node, pos |-> 0, writes |-> writes])

Emptied(n) == [lengths EXCEPT ![n] = 0]

\* The host may refuse to open (too many descriptors, no permission) after the
\* directory was made.
nt_create_file(p, kind, want, writes, hosts) ==
    LET refusal == Refusal(p, kind, want)
        made == IF fs[p] = None /\ want = {"dir"} THEN [fs EXCEPT ![p] = Dir] ELSE fs
        node == IF made[p] # None THEN made[p] ELSE Len(lengths) + 1 IN
    /\ IF refusal # "none" \/ ~hosts
        THEN /\ fs' = IF refusal # "none" THEN fs ELSE made
             /\ created' = [status |-> IF refusal # "none" THEN refusal ELSE "ACCESS_DENIED",
                            path |-> p, want |-> want]
             /\ UNCHANGED <<lengths, files, file_dirs, given>>
        ELSE /\ fs' = [made EXCEPT ![p] = node]
             /\ lengths' = IF node > Len(lengths) THEN Append(lengths, 0)
                           ELSE IF node > 0 /\ kind \in Truncating THEN Emptied(node)
                           ELSE lengths
             /\ Len(lengths') <= MaxFiles
             /\ NewHandle(node, node # Dir /\ (writes \/ kind # "open"))
             /\ file_dirs' = IF node = Dir THEN Plus(file_dirs, given', p) ELSE file_dirs
             /\ created' = [status |-> "SUCCESS", path |-> p, want |-> want,
                            information |-> Information(p, kind)]
    /\ UNCHANGED find_handles

\* NtOpenFile falls back to reading what it may not write.
nt_open_file(p, write) ==
    /\ fs[p] # None
    /\ NewHandle(fs[p], write /\ fs[p] # Dir)
    /\ file_dirs' = IF fs[p] = Dir THEN Plus(file_dirs, given', p) ELSE file_dirs
    /\ created' = NoCall
    /\ UNCHANGED <<fs, lengths, find_handles>>

\* CreateFile makes the parents whatever becomes of the file.
create_file(p, kind, write) ==
    LET f == MadeAll(fs, Parent(p))
        writes == write \/ kind # "OPEN_EXISTING"
        fails == \/ ~IsDir(f, Parent(p))
                 \/ f[p] = None /\ kind \in {"OPEN_EXISTING", "TRUNCATE_EXISTING"}
                 \/ f[p] # None /\ kind = "CREATE_NEW"
                 \/ f[p] = Dir /\ writes
        node == IF f[p] # None THEN f[p] ELSE Len(lengths) + 1 IN
    /\ IF fails
        THEN fs' = f /\ UNCHANGED <<lengths, files, given>>
        ELSE /\ fs' = [f EXCEPT ![p] = node]
             /\ lengths' = IF node > Len(lengths) THEN Append(lengths, 0)
                           ELSE IF node > 0 /\ kind \in {"CREATE_ALWAYS", "TRUNCATE_EXISTING"} THEN Emptied(node)
                           ELSE lengths
             /\ Len(lengths') <= MaxFiles
             /\ NewHandle(node, writes)
    /\ created' = NoCall
    /\ UNCHANGED <<file_dirs, find_handles>>

\* GetTempFileName creates its file, or empties the one that has the name.
temp_file_name(p) ==
    LET f == MadeAll(fs, Parent(p)) IN
    /\ fs' = IF IsDir(f, Parent(p)) /\ f[p] = None THEN [f EXCEPT ![p] = Len(lengths) + 1] ELSE f
    /\ lengths' = IF fs'[p] > Len(lengths) THEN Append(lengths, 0)
                  ELSE IF fs'[p] > 0 THEN Emptied(fs'[p])
                  ELSE lengths
    /\ Len(lengths') <= MaxFiles
    /\ created' = NoCall
    /\ UNCHANGED <<files, file_dirs, find_handles, given>>

(***************************************************************************)
(* Paths that change under open handles.                                   *)
(***************************************************************************)
create_directory(p) == /\ fs' = MadeAll(fs, p)
                       /\ created' = NoCall
                       /\ UNCHANGED <<lengths, files, file_dirs, find_handles, given>>

delete_file(p) == /\ fs[p] > 0
                  /\ fs' = [fs EXCEPT ![p] = None]
                  /\ created' = NoCall
                  /\ UNCHANGED <<lengths, files, file_dirs, find_handles, given>>

\* The host's rename.  The copy that follows a rename that failed can succeed
\* only between two devices, and the sandbox is one.
Renames(f, s, d) == /\ f[s] # None /\ IsDir(f, Parent(d))
                    /\ ~Inside(s, d)
                    /\ f[s] > 0 => f[d] # Dir
                    /\ f[s] = Dir => /\ f[d] <= None
                                     /\ \A q \in Paths : Inside(d, q) /\ q # d => f[q] = None
                    /\ \A q \in Paths : Inside(s, q) /\ f[q] # None
                                          => d \o SubSeq(q, Len(s) + 1, Len(q)) \in Paths

Renamed(f, s, d) ==
    [q \in Paths |-> IF Inside(s, q) THEN None
                      ELSE IF Inside(d, q)
                      THEN LET from == s \o SubSeq(q, Len(d) + 1, Len(q)) IN
                           IF from \in Paths THEN f[from] ELSE None
                      ELSE f[q]]

move_file(s, d) ==
    LET f == MadeAll(fs, Parent(d)) IN
    /\ fs' = IF Renames(f, s, d) THEN Renamed(f, s, d) ELSE f
    /\ created' = NoCall
    /\ UNCHANGED <<lengths, files, file_dirs, find_handles, given>>

\* A file copied to itself is opened for writing, and emptied, before it is read.
copy_file(s, d, fail_if_exists) ==
    LET f == MadeAll(fs, Parent(d)) IN
    /\ fail_if_exists => fs[d] = None
    /\ IF IsFile(f, s) /\ IsDir(f, Parent(d)) /\ f[d] # Dir
        THEN /\ fs' = [f EXCEPT ![d] = IF @ = None THEN Len(lengths) + 1 ELSE @]
             /\ lengths' = IF f[d] = None THEN Append(lengths, lengths[f[s]])
                           ELSE IF s = d THEN Emptied(f[s])
                           ELSE [lengths EXCEPT ![f[d]] = lengths[f[s]]]
        ELSE fs' = f /\ lengths' = lengths
    /\ Len(lengths') <= MaxFiles
    /\ created' = NoCall
    /\ UNCHANGED <<files, file_dirs, find_handles, given>>

(***************************************************************************)
(* Reading, writing and closing through handles.                           *)
(***************************************************************************)
Smaller(a, b) == IF a < b THEN a ELSE b

\* An offset moves the position and leaves it there; -1 is "no offset".
nt_read_file(h, offset, length) ==
    LET at == IF offset >= 0 THEN offset ELSE files[h].pos
        left == lengths[files[h].node] - at IN
    /\ files[h].node > 0
    /\ files' = [files EXCEPT ![h].pos = at + (IF left > 0 THEN Smaller(left, length) ELSE 0)]
    /\ created' = NoCall
    /\ UNCHANGED <<fs, lengths, file_dirs, find_handles, given>>

\* NtWriteFile, one unit at a time: at an offset, at the end or at the position.
nt_write_file(h, offset) ==
    LET n == files[h].node
        at == CASE offset = "end"  -> lengths[n]
                [] offset = "here" -> files[h].pos
                [] OTHER           -> 0
        written == IF files[h].writes THEN 1 ELSE 0 IN
    /\ n > 0
    /\ at + written <= MaxSize
    /\ files' = [files EXCEPT ![h].pos = at + written]
    /\ lengths' = IF at + written > lengths[n] /\ written = 1 THEN [lengths EXCEPT ![n] = at + 1] ELSE lengths
    /\ created' = NoCall
    /\ UNCHANGED <<fs, file_dirs, find_handles, given>>

\* A position before the start is refused by the host and changes nothing.
set_file_pointer(h, distance, method) ==
    LET n == files[h].node
        to == CASE method = 0 -> IF distance < 0 THEN 0 ELSE distance
                [] method = 1 -> files[h].pos + distance
                [] OTHER      -> lengths[n] + distance IN
    /\ n > 0
    /\ to <= MaxSize
    /\ files' = [files EXCEPT ![h].pos = IF to < 0 THEN @ ELSE to]
    /\ created' = NoCall
    /\ UNCHANGED <<fs, lengths, file_dirs, find_handles, given>>

Closing(h) == /\ files' = Minus(files, h)
              /\ file_dirs' = Minus(file_dirs, h)
              /\ find_handles' = Minus(find_handles, h)

close_handle(h) == /\ Closing(h)
                   /\ created' = NoCall
                   /\ UNCHANGED <<fs, lengths, given>>

(***************************************************************************)
(* Enumerations: a copy of the directory, sorted, and a position in it.    *)
(***************************************************************************)
EntriesOf(dir) == {n \in {Last(p) : p \in Paths} : Append(dir, n) \in Paths /\ fs[Append(dir, n)] # None}
Snapshot(names) == [entries |-> SetToSortSeq(names, <), pos |-> 0]

\* "." and ".." are answered for a directory that does not exist too.
find_first_file(dir) ==
    LET names == {Dot, DotDot} \cup (IF IsDir(fs, dir) THEN EntriesOf(dir) ELSE {}) IN
    /\ given < MaxOpen
    /\ given' = given + 1
    /\ find_handles' = Plus(find_handles, given', [Snapshot(names) EXCEPT !.pos = 1])
    /\ created' = NoCall
    /\ UNCHANGED <<fs, lengths, files, file_dirs>>

find_next_file(h) == /\ find_handles[h].pos < Len(find_handles[h].entries)
                     /\ find_handles' = [find_handles EXCEPT ![h].pos = @ + 1]
                     /\ created' = NoCall
                     /\ UNCHANGED <<fs, lengths, files, file_dirs, given>>

find_close(h) == /\ find_handles' = Minus(find_handles, h)
                 /\ created' = NoCall
                 /\ UNCHANGED <<fs, lengths, files, file_dirs, given>>

\* The position moves on before the length of the guest's buffer is looked at:
\* an entry that did not fit is not offered again.
nt_query_directory_file(h, restart) ==
    LET fresh == restart \/ h \notin DOMAIN find_handles
        state == IF fresh THEN Snapshot(IF IsDir(fs, file_dirs[h]) THEN EntriesOf(file_dirs[h]) ELSE {})
                 ELSE find_handles[h] IN
    /\ fresh => h \in DOMAIN file_dirs
    /\ find_handles' = Plus(find_handles, h,
                            [state EXCEPT !.pos = IF @ < Len(state.entries) THEN @ + 1 ELSE @])
    /\ created' = NoCall
    /\ UNCHANGED <<fs, lengths, files, file_dirs, given>>

Calls ==
    \/ \E p \in Paths :
        \/ \E kind \in Kinds, want \in SUBSET {"dir", "file"}, hosts \in BOOLEAN :
              \E writes \in IF kind = "open" THEN BOOLEAN ELSE {TRUE} :
                  nt_create_file(p, kind, want, writes, hosts)
        \/ \E write \in BOOLEAN : nt_open_file(p, write)
        \/ \E kind \in {"CREATE_NEW", "CREATE_ALWAYS", "OPEN_EXISTING", "OPEN_ALWAYS", "TRUNCATE_EXISTING"},
              write \in BOOLEAN : create_file(p, kind, write)
        \/ temp_file_name(p) \/ create_directory(p) \/ delete_file(p)
        \/ \E d \in Paths : \/ move_file(p, d)
                            \/ \E fail \in BOOLEAN : copy_file(p, d, fail)
        \/ find_first_file(p)
    \/ \E h \in DOMAIN files :
        \/ \E offset \in -1 .. MaxSize, length \in 0 .. 1 : nt_read_file(h, offset, length)
        \/ \E offset \in {"start", "here", "end"} : nt_write_file(h, offset)
        \/ \E distance \in -1 .. 1, method \in 0 .. 2 : set_file_pointer(h, distance, method)
        \/ \E restart \in BOOLEAN : nt_query_directory_file(h, restart)
    \/ \E h \in DOMAIN files \cup DOMAIN find_handles : close_handle(h)
    \/ \E h \in DOMAIN find_handles : find_next_file(h) \/ find_close(h)

\* The guest has read what NtCreateFile told it.
Returns == /\ created' = NoCall
           /\ UNCHANGED <<fs, lengths, files, file_dirs, find_handles, given>>

FsNext == IF created = NoCall THEN Calls ELSE Returns
FsSpec == FsInit /\ [][FsNext]_fsvars

(***************************************************************************)
(* What the calls promise.                                                 *)
(***************************************************************************)

\* NtCreateFile tells the truth about what it did: "created" only where nothing
\* was, "overwritten" and "superseded" only of a file that is empty afterwards,
\* "opened" only of what is as it was; the kind asked for is the kind opened, in
\* a directory that exists.  A call that fails changes nothing, but for the
\* directory it made before the host refused to open it.
CreateIsTrue ==
    [][created' # NoCall =>
        LET p == created'.path
            same == lengths' = lengths
            elsewhere == \A q \in Paths \ {p} : fs'[q] = fs[q] IN
        /\ elsewhere
        /\ IF created'.status # "SUCCESS"
            THEN /\ same
                 /\ fs'[p] # fs[p] => /\ created'.status = "ACCESS_DENIED"
                                      /\ created'.want = {"dir"} /\ fs[p] = None
            ELSE /\ IsDir(fs, Parent(p))
                 /\ created'.want = {"dir"} => fs'[p] = Dir
                 /\ created'.want = {"file"} => fs'[p] > 0
                 /\ CASE created'.information = "created" -> fs[p] = None /\ fs'[p] # None
                      [] created'.information = "opened"  -> fs'[p] = fs[p] /\ fs[p] # None /\ same
                      [] OTHER -> fs'[p] = fs[p] /\ fs[p] > 0 /\ lengths'[fs[p]] = 0
                 /\ \A n \in DOMAIN lengths : n # fs[p] => lengths'[n] = lengths[n]]_fsvars

=============================================================================
