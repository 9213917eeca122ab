--------------------------- MODULE PosixStandard ----------------------------
(***************************************************************************)
(* What the calls of a program on files do, as POSIX has it, on files of a *)
(* fixed size and with failures: descriptors refer to descriptions of open *)
(* files, with an offset that duplicates share.  No part of the program is *)
(* modelled here; the runtime is compared with it.                         *)
(*                                                                         *)
(* Where the runtime says that it does something else, or differs in a way *)
(* the README lists, the call has no result here and ends the comparison.  *)
(***************************************************************************)
EXTENDS Integers, SequencesExt

CONSTANTS MaxFds, DirentSize, OsDirents, MaxArgs, StdoutSize

Gives(r, ret, data) == [r |-> r, ret |-> ret, errno |-> "", data |-> data, error |-> ""]
Returns(r, ret) == Gives(r, ret, <<>>)
Fails(r, errno) == [Returns(r, -1) EXCEPT !.errno = errno]
Error(r, error) == [Returns(r, 0) EXCEPT !.error = error]
NoAnswer(r) == Error(r, "undefined")

\* The descriptions of open files.  The offset is known through those descriptors that
\* it was moved by, or that were made of these.
Description(name, access) == [name |-> name, off |-> 0, access |-> access, known |-> {}]
ReadWrite == {"read", "write"}

Start(os) ==
  [fds |-> [fd \in 0..2 |-> fd + 1], cloexec |-> {}, umask |-> {},
   descs |-> <<[Description("tty", {"read"}) EXCEPT !.known = {0}],
               [Description("tty", {"write"}) EXCEPT !.known = {1}],
               [Description("tty", {"write"}) EXCEPT !.known = {2}]>>,
   files |-> [name \in DOMAIN os.files |-> [kind |-> "os", removed |-> FALSE, unsure |-> FALSE, stat |-> <<>>] @@ os.files[name]],
   input |-> os.input, ready |-> os.ready, signal |-> os.signal,
   failures |-> 0, fail |-> 0, strict |-> FALSE,
   calls |-> [fn \in {"read", "write", "close", "ftruncate", "getcwd"} |-> 0]]

\* What a path names.
Exists(r, path) == path \in DOMAIN r.files /\ ~r.files[path].removed
Symbolic(r, path) == Exists(r, path) /\ r.files[path].kind = "symbolic"
Desc(r, fd) == r.descs[r.fds[fd]]
File(r, fd) == r.files[Desc(r, fd).name]
IsSym(r, fd) == File(r, fd).kind = "symbolic"
Knows(r, fd) == fd \in Desc(r, fd).known

Moved(r, fd, off) ==
  [r EXCEPT !.descs[r.fds[fd]] =
     [@ EXCEPT !.off = off, !.known = IF off = Desc(r, fd).off THEN @ ELSE {fd}]]
Free(r) == {fd \in 0..(MaxFds - 1) : fd \notin DOMAIN r.fds}
Least(fds) == CHOOSE fd \in fds : \A other \in fds : fd <= other

\* A failure that is injected.
Count(r, fn) == [r EXCEPT !.calls[fn] = @ + 1]
Injected(r, fn) == r.failures > 0 /\ r.fail = r.calls[fn]
Injects(r, errno) == Fails([r EXCEPT !.failures = @ - 1], errno)

-----------------------------------------------------------------------------
(* Open, close, read, write, seek *)

AccessOf(flags) ==
  CASE "O_RDWR" \in flags -> ReadWrite
    [] "O_WRONLY" \in flags -> {"write"}
    [] OTHER -> {"read"}

\* The mode of a symbolic file that was opened is not what it was.
OpenDescription(r, path, flags) ==
  LET fd == Least(Free(r))
      desc == [Description(path, AccessOf(flags)) EXCEPT !.known = {fd}]
  IN Returns([r EXCEPT !.descs = Append(@, desc), !.fds = (fd :> Len(r.descs) + 1) @@ @,
                       !.files[path].unsure = TRUE], fd)

Open(r, path, flags) ==
  LET stat == r.files[path].stat IN
  CASE Free(r) = {} -> Fails(r, "EMFILE")
    [] Free(r) # {} /\ ~Exists(r, path) -> Fails(r, "ENOENT")
    [] Free(r) # {} /\ Exists(r, path) /\ ~Symbolic(r, path) -> OpenDescription(r, path, flags)
    [] OTHER ->
         IF {"O_CREAT", "O_EXCL"} \subseteq flags THEN Fails(r, "EEXIST")
         ELSE IF "O_EXCL" \in flags THEN Fails(r, "EACCES")
         ELSE IF r.files[path].unsure \/ {"O_TRUNC", "O_RDWR"} \cap flags # {} THEN NoAnswer(r)
         ELSE IF "O_WRONLY" \in flags THEN
                IF "w" \in stat.mode THEN OpenDescription(r, path, flags) ELSE Fails(r, "EACCES")
         ELSE IF "r" \in stat.mode THEN OpenDescription(r, path, flags) ELSE NoAnswer(r)

\* Relative to a directory, which is to be one of the system.
At(r, base, outcome) ==
  CASE base = -100 -> outcome
    [] base # -100 /\ base \notin DOMAIN r.fds -> Fails(r, "EBADF")
    [] base # -100 /\ base \in DOMAIN r.fds -> IF IsSym(r, base) THEN Fails(r, "ENOENT") ELSE outcome

Forget(r, fd) ==
  [r EXCEPT !.descs[r.fds[fd]].known = @ \ {fd}, !.cloexec = @ \ {fd},
            !.fds = [n \in DOMAIN @ \ {fd} |-> @[n]]]
Close(q, fd) ==
  LET r == Count(q, "close")
  IN CASE fd \notin DOMAIN r.fds -> Fails(r, "EBADF")
       [] fd \in DOMAIN r.fds /\ Injected(r, "close") -> Injects(r, "EIO")
       [] OTHER -> Returns(Forget(r, fd), 0)

\* Of a file from an offset, as much as there is.
FirstOf(seq, n) == SubSeq(seq, 1, IF n > Len(seq) THEN Len(seq) ELSE n)
Bytes(file, off, n) ==
  IF off >= Len(file.contents) THEN <<>>
  ELSE FirstOf(SubSeq(file.contents, off + 1, Len(file.contents)), n)

Read(q, fd, n) ==
  LET r == Count(q, "read")
      d == Desc(r, fd)
      data == Bytes(File(r, fd), d.off, n)
  IN CASE n = 0 -> Returns(r, 0)
       [] n > 0 /\ fd \notin DOMAIN r.fds -> Fails(r, "EBADF")
       [] n > 0 /\ fd \in DOMAIN r.fds ->
            IF Injected(r, "read") THEN Injects(r, "EIO")
            ELSE IF File(r, fd).type = "tty" THEN
                   IF r.fds[fd] # 1 THEN NoAnswer(r)
                   ELSE LET typed == FirstOf(r.input, n)
                        IN Gives([r EXCEPT !.input = SubSeq(@, Len(typed) + 1, Len(@))], Len(typed), typed)
            ELSE IF "read" \notin d.access THEN IF IsSym(r, fd) THEN NoAnswer(r) ELSE Fails(r, "EBADF")
            ELSE IF File(r, fd).type = "dir" /\ ~IsSym(r, fd) THEN Fails(r, "EISDIR")
            ELSE IF ~Knows(r, fd) THEN NoAnswer(r)
            ELSE Gives(Moved(r, fd, d.off + Len(data)), Len(data), data)

\* A file of a fixed size takes what there is room for; others grow.
Written(file, off, data) ==
  [i \in 1..(IF file.kind = "symbolic" \/ Len(file.contents) > off + Len(data)
             THEN Len(file.contents) ELSE off + Len(data)) |->
     IF off < i /\ i <= off + Len(data) THEN data[i - off]
     ELSE IF i <= Len(file.contents) THEN file.contents[i] ELSE 0]

Write(q, fd, data) ==
  LET r == Count(q, "write")
      d == Desc(r, fd)
      end == d.off + Len(data)
  IN CASE fd \notin DOMAIN r.fds -> Fails(r, "EBADF")
       [] fd \in DOMAIN r.fds /\ Injected(r, "write") -> Injects(r, "EIO")
       [] OTHER ->
            IF File(r, fd).type = "tty" THEN IF "write" \in d.access THEN Returns(r, Len(data)) ELSE NoAnswer(r)
            ELSE IF "write" \notin d.access THEN IF IsSym(r, fd) THEN NoAnswer(r) ELSE Fails(r, "EBADF")
            ELSE IF ~Knows(r, fd) \/ (IsSym(r, fd) /\ r.strict /\ end > Len(File(r, fd).contents)) THEN NoAnswer(r)
            ELSE Returns([Moved(r, fd, end) EXCEPT !.files[d.name].contents = Written(r.files[d.name], d.off, data)],
                         Len(data))

Seek(r, fd, offset, whence) ==
  LET d == Desc(r, fd)
      to == offset + (CASE whence = "SEEK_SET" -> 0
                        [] whence = "SEEK_CUR" -> d.off
                        [] whence = "SEEK_END" -> Len(File(r, fd).contents))
  IN CASE fd \notin DOMAIN r.fds -> Fails(r, "EBADF")
       [] fd \in DOMAIN r.fds /\ File(r, fd).type = "tty" -> Fails(r, "ESPIPE")
       [] OTHER ->
            IF whence \notin {"SEEK_SET", "SEEK_CUR", "SEEK_END"} THEN Fails(r, "EINVAL")
            ELSE IF whence = "SEEK_CUR" /\ ~Knows(r, fd) THEN NoAnswer(r)
            ELSE IF File(r, fd).type = "dir" /\ ~IsSym(r, fd) /\ (whence # "SEEK_SET" \/ offset # 0) THEN NoAnswer(r)
            ELSE IF to < 0 THEN Fails(r, "EINVAL")
            ELSE Returns([Moved(r, fd, to) EXCEPT !.descs[r.fds[fd]].known = @ \cup {fd}], to)

-----------------------------------------------------------------------------
(* The rest of what is asked of descriptors and paths *)

OfDescriptor(r, fd, symbolic, other) ==
  IF fd \notin DOMAIN r.fds THEN Fails(r, "EBADF") ELSE IF IsSym(r, fd) THEN symbolic ELSE other
OfPath(r, path, symbolic, other) ==
  CASE ~Exists(r, path) -> Fails(r, "ENOENT")
    [] Exists(r, path) /\ Symbolic(r, path) -> symbolic
    [] OTHER -> other

StatData(r, path) ==
  CASE r.files[path].kind = "os" -> Gives(r, 0, <<r.files[path].type, Len(r.files[path].contents)>>)
    [] r.files[path].kind # "os" ->
         IF r.files[path].unsure \/ r.files[path].removed THEN NoAnswer(r)
         ELSE Gives(r, 0, <<r.files[path].stat>>)
Stat(r, path) == OfPath(r, path, StatData(r, path), StatData(r, path))
FStat(r, fd) == OfDescriptor(r, fd, StatData(r, Desc(r, fd).name), StatData(r, Desc(r, fd).name))

\* Of the owner; only a member of the group sets the bit of the group.
ChangeMode(r, path, mode) ==
  LET stat == r.files[path].stat
  IN IF ~stat.mine THEN Fails(r, "EPERM")
     ELSE Returns([r EXCEPT !.files[path].unsure = FALSE,
                            !.files[path].stat.mode = IF stat.group THEN mode ELSE mode \ {"setgid"}], 0)
ChMod(r, path, mode) ==
  IF r.failures > 0 THEN NoAnswer(r) ELSE OfPath(r, path, ChangeMode(r, path, mode), Returns(r, 0))
FChMod(r, fd, mode) ==
  IF r.failures > 0 /\ fd \in DOMAIN r.fds THEN NoAnswer(r)
  ELSE OfDescriptor(r, fd, ChangeMode(r, Desc(r, fd).name, mode), Returns(r, 0))

Truncate(q, fd, n) ==
  LET r == Count(q, "ftruncate")
      name == Desc(r, fd).name
  IN IF fd \in DOMAIN r.fds /\ Injected(r, "ftruncate") THEN Injects(r, "EIO")
     ELSE OfDescriptor(r, fd, Fails(r, "EIO"),
            IF File(r, fd).type # "reg" THEN Fails(r, "EINVAL")
            ELSE Returns([r EXCEPT !.files[name].contents = [i \in 1..n |-> IF i <= Len(@) THEN @[i] ELSE 0]], 0))

\* The symbolic files that are left, and then what the directory contains.
Names == <<"A", "B">>
Entries(r, fd, n) ==
  LET d == Desc(r, fd)
      read == d.off - OsDirents
      data == Bytes(File(r, fd), read, n \div DirentSize)
  IN IF IsSym(r, fd) THEN Fails(r, "EINVAL")
     ELSE IF File(r, fd).type # "dir" \/ (d.off = 0 /\ n < OsDirents) \/ ~Knows(r, fd) THEN NoAnswer(r)
     ELSE IF d.off = 0 THEN Gives(Moved(r, fd, OsDirents), OsDirents, SelectSeq(Names, LAMBDA path : Exists(r, path)))
     ELSE Gives(Moved(r, fd, d.off + Len(data)), Len(data) * DirentSize, data)
ReadDirectory(r, fd, n) == IF fd \in DOMAIN r.fds THEN Entries(r, fd, n) ELSE Fails(r, "EBADF")

Terminal(r, fd, request) ==
  LET left == Len(File(r, fd).contents) - Desc(r, fd).off
  IN CASE request \in {"TCGETS", "TCSETS", "TCSETSF"} -> Returns(r, 0)
       [] request = "TIOCGWINSZ" -> Gives(r, 0, <<24, 80>>)
       [] request = "FIONREAD" -> IF Knows(r, fd) THEN Gives(r, 0, <<IF left > 0 THEN left ELSE 0>>) ELSE NoAnswer(r)
       [] OTHER -> Fails(r, "EINVAL")
Control(r, fd, request) ==
  OfDescriptor(r, fd,
    CASE request = "TCSETSW" -> NoAnswer(r)
      [] request # "TCSETSW" -> IF File(r, fd).stat.type = "chr" \/ request = "MTIOCGET"
                                THEN Terminal(r, fd, request) ELSE Fails(r, "ENOTTY"),
    IF File(r, fd).type = "tty" THEN Returns(r, 0) ELSE Fails(r, "ENOTTY"))

Flags(r, fd, cmd, arg) ==
  OfDescriptor(r, fd,
    CASE cmd = "F_GETFD" -> Returns(r, IF fd \in r.cloexec THEN 1 ELSE 0)
      [] cmd = "F_SETFD" -> Returns([r EXCEPT !.cloexec = IF arg % 2 = 1 THEN @ \cup {fd} ELSE @ \ {fd}], 0)
      [] OTHER -> NoAnswer(r),
    NoAnswer(r))

\* A descriptor that is closed for another one is a call of close.
Duplicate(q, old, new) ==
  LET r == IF new \in DOMAIN q.fds
           THEN Forget([Count(q, "close") EXCEPT
                          !.failures = IF Injected(Count(q, "close"), "close") THEN @ - 1 ELSE @], new)
           ELSE q
  IN CASE old \notin DOMAIN q.fds \/ new \notin 0..(MaxFds - 1) -> Fails(q, "EBADF")
       [] old = new /\ old \in DOMAIN q.fds -> NoAnswer(q)
       [] OTHER -> Returns([r EXCEPT !.fds = (new :> r.fds[old]) @@ @,
                                     !.descs[r.fds[old]].known = IF old \in @ THEN @ \cup {new} ELSE @], new)
Dup(r, old) ==
  IF old \in DOMAIN r.fds /\ Free(r) = {} THEN Fails(r, "EMFILE")
  ELSE Duplicate(r, old, IF Free(r) = {} THEN 0 ELSE Least(Free(r)))

RemoveFile(r, path, type) ==
  LET wrong == IF type = "dir" THEN "ENOTDIR" ELSE IF r.files[path].stat.type = "dir" THEN "EISDIR" ELSE "EPERM"
  IN IF ~Symbolic(r, path) THEN Fails(r, "EPERM")
     ELSE IF r.files[path].stat.type # type THEN Fails(r, wrong)
     ELSE Returns([r EXCEPT !.files[path].removed = TRUE], 0)

\* Each descriptor that is ready, and how often one is; a file of the system that two of
\* them are open for, and a symbolic one in two sets, are not spoken of.
Ready(r, fd) == IsSym(r, fd) \/ Desc(r, fd).name \in r.ready
Wait(r, n, sets) ==
  LET asked == [k \in 1..3 |-> {fd \in sets[k] : fd < n}]
      all == UNION {asked[k] : k \in 1..3}
      ready == [k \in 1..3 |-> {fd \in asked[k] : Ready(r, fd)}]
      sym == [k \in 1..3 |-> {fd \in asked[k] : IsSym(r, fd)}]
      sum(s) == Cardinality(s[1]) + Cardinality(s[2]) + Cardinality(s[3])
      symbolic == UNION {sym[k] : k \in 1..3}
  IN IF ~(all \subseteq DOMAIN r.fds) THEN Fails(r, "EBADF")
     ELSE IF sum(sym) # Cardinality(symbolic) \/ \E fd \in DOMAIN r.fds \ symbolic, other \in DOMAIN r.fds :
               fd # other /\ r.fds[fd] = r.fds[other] THEN NoAnswer(r)
     ELSE IF r.signal /\ all # symbolic THEN IF symbolic = {} THEN Fails(r, "EINTR") ELSE Gives(r, sum(sym), sym)
     ELSE Gives(r, sum(ready), ready)

Directory(q) ==
  LET r == Count(q, "getcwd") IN IF Injected(r, "getcwd") THEN Injects(r, "ERANGE") ELSE Returns(r, 0)

-----------------------------------------------------------------------------
(* The command line *)

\* The numbers that follow an option are its own.
Numbers ==
  [sym_arg |-> 1, sym_args |-> 3, sym_files |-> 2, sym_stdin |-> 1, sym_stdout |-> 0,
   save_all_writes |-> 0, fd_fail |-> 0, max_fail |-> 1]
IsOption(word) == word[1] = "option"
Own(argv) == {k \in DOMAIN argv : \E j \in 1..(k - 1) : IsOption(argv[j]) /\ k <= j + Numbers[argv[j][2]]}
IsAt(argv, k, name) == IsOption(argv[k]) /\ argv[k][2] = name

Wrong(argv) ==
  \/ argv[Len(argv)] = <<"word", "--help">> /\ Len(argv) = 2
  \/ \E k \in DOMAIN argv : IsOption(argv[k]) /\
       \/ k + Numbers[argv[k][2]] > Len(argv)
       \/ \E j \in 1..Numbers[argv[k][2]] : argv[k + j][1] # "number"
       \/ argv[k][2] = "sym_args" /\ argv[k + 1][2] > argv[k + 2][2]

\* The lengths of the symbolic arguments that an option stands for, and the arguments,
\* the symbolic ones numbered.
Lengths(argv, k, n) ==
  CASE IsAt(argv, k, "sym_arg") -> <<argv[k + 1][2]>>
    [] IsAt(argv, k, "sym_args") ->
         LET low == argv[k + 1][2]
         IN [i \in 1..(low + (n % (argv[k + 2][2] + 1 - low))) |-> argv[k + 3][2]]
    [] OTHER -> <<>>
Arguments(argv, n) ==
  LET before(k) == FoldLeft(LAMBDA sum, j : sum + Len(Lengths(argv, j, n)), 0, [j \in 1..(k - 1) |-> j])
  IN FlattenSeq([k \in DOMAIN argv |->
       IF k \in Own(argv) THEN <<>>
       ELSE IF ~IsOption(argv[k]) THEN <<argv[k]>>
       ELSE LET lengths == Lengths(argv, k, n)
            IN [i \in DOMAIN lengths |-> <<"sym", before(k) + i - 1, lengths[i]>>]])

\* The last of several options counts.
Said(argv, name, j, default) ==
  LET k == SelectLastInSeq([k \in DOMAIN argv |-> IF IsAt(argv, k, name) THEN 1 ELSE 0], LAMBDA b : b = 1)
  IN IF k = 0 THEN default ELSE argv[k + j][2]
Failures(argv) ==
  LET k == SelectLastInSeq([k \in DOMAIN argv |-> IF IsAt(argv, k, "fd_fail") \/ IsAt(argv, k, "max_fail") THEN 1 ELSE 0],
                           LAMBDA b : b = 1)
  IN IF k = 0 THEN 0 ELSE IF IsAt(argv, k, "fd_fail") THEN 1 ELSE argv[k + 1][2]

SymFile(input, name, size) ==
  [kind |-> "symbolic", type |-> "sym", removed |-> FALSE, unsure |-> FALSE,
   contents |-> SubSeq(input.contents[name], 1, size), stat |-> input.stat]

Begin(r, argv, input) ==
  LET n == Said(argv, "sym_files", 1, 0)
      size == Said(argv, "sym_files", 2, 0)
      in == Said(argv, "sym_stdin", 1, 0)
      has(name) == \E k \in DOMAIN argv : IsAt(argv, k, name)
      files == {Names[i] : i \in 1..n} \cup (IF in > 0 THEN {"stdin"} ELSE {})
                 \cup (IF has("sym_stdout") THEN {"stdout"} ELSE {})
      sizeOf(name) == IF name = "stdin" THEN in ELSE IF name = "stdout" THEN StdoutSize ELSE size
      left == Arguments(argv, input.n_args)
  IN IF Wrong(argv) \/ Len(left) > MaxArgs THEN Error(r, "user")
     ELSE IF n > 0 /\ size = 0 THEN Error(r, "assert")
     ELSE Gives([r EXCEPT
                   !.files = [name \in files |-> SymFile(input, name, sizeOf(name))] @@ @,
                   !.descs[1].name = IF in > 0 THEN "stdin" ELSE @,
                   !.descs[2].name = IF has("sym_stdout") THEN "stdout" ELSE @,
                   !.failures = Failures(argv), !.fail = input.fail, !.strict = has("save_all_writes")],
                Len(left), left)

-----------------------------------------------------------------------------

Refused ==
  [fn \in {"chown", "lchown", "link", "symlink", "rename", "utime", "setsid", "mount", "mmap", "kill"} |-> "EPERM"]
  @@ [mkdir |-> "EIO", mkfifo |-> "EIO", pipe |-> "ENFILE", wait |-> "ECHILD", futimes |-> "EBADF",
      socketcall |-> "EAFNOSUPPORT", execv |-> "EACCES", fork |-> "ENOMEM"]

\* What a call c with the values v yields.
Call(r, c, v, input) ==
  CASE c.fn = "klee_init_env" -> Begin(r, c.argv, input)
    [] c.fn = "access" -> OfPath(r, c.path, Returns(r, 0), Returns(r, 0))
    [] c.fn = "umask" -> Gives([r EXCEPT !.umask = c.mode \ {"setgid"}], 0, r.umask)
    [] c.fn = "open" -> Open(r, c.path, c.flags)
    [] c.fn = "openat" -> At(r, v[1], Open(r, c.path, c.flags))
    [] c.fn = "utimes" -> OfPath(r, c.path, Returns([r EXCEPT !.files[c.path].stat.mtime = v[1]], 0), Returns(r, 0))
    [] c.fn = "futimesat" ->
         At(r, v[1], OfPath(r, c.path, Returns([r EXCEPT !.files[c.path].stat.mtime = v[2]], 0), Returns(r, 0)))
    [] c.fn = "close" -> Close(r, v[1])
    [] c.fn = "read" -> Read(r, v[1], v[2])
    [] c.fn = "write" -> Write(r, v[1], Tail(v))
    [] c.fn = "lseek" -> Seek(r, v[1], v[2], c.whence)
    [] c.fn \in {"stat", "lstat"} -> Stat(r, c.path)
    [] c.fn = "fstatat" -> At(r, v[1], Stat(r, c.path))
    [] c.fn = "fstat" -> FStat(r, v[1])
    [] c.fn \in {"chdir", "statfs"} -> OfPath(r, c.path, Fails(r, "ENOENT"), Returns(r, 0))
    [] c.fn = "fchdir" -> OfDescriptor(r, v[1], Fails(r, "ENOENT"),
                            IF File(r, v[1]).type = "dir" THEN Returns(r, 0) ELSE Fails(r, "ENOTDIR"))
    [] c.fn = "chmod" -> ChMod(r, c.path, c.mode)
    [] c.fn = "fchmod" -> FChMod(r, v[1], c.mode)
    [] c.fn \in {"chown", "lchown"} -> OfPath(r, c.path, Fails(r, Refused[c.fn]), Returns(r, 0))
    [] c.fn = "fchown" -> OfDescriptor(r, v[1], Fails(r, "EPERM"), NoAnswer(r))
    [] c.fn = "ftruncate" -> Truncate(r, v[1], v[2])
    [] c.fn = "getdents" -> ReadDirectory(r, v[1], v[2])
    [] c.fn = "ioctl" -> Control(r, v[1], c.request)
    [] c.fn = "fcntl" -> Flags(r, v[1], c.cmd, v[2])
    [] c.fn = "fstatfs" -> OfDescriptor(r, v[1], Fails(r, "EBADF"), Returns(r, 0))
    [] c.fn = "fsync" -> OfDescriptor(r, v[1], Returns(r, 0), Returns(r, 0))
    [] c.fn = "dup2" -> Duplicate(r, v[1], v[2])
    [] c.fn = "dup" -> Dup(r, v[1])
    [] c.fn = "rmdir" -> RemoveFile(r, c.path, "dir")
    [] c.fn = "unlink" -> RemoveFile(r, c.path, "reg")
    [] c.fn = "unlinkat" -> IF v[1] = -100 THEN RemoveFile(r, c.path, "reg") ELSE NoAnswer(r)
    [] c.fn = "readlink" -> OfPath(r, c.path, IF r.files[c.path].stat.type = "lnk" THEN NoAnswer(r) ELSE Fails(r, "EINVAL"),
                                   Fails(r, "EINVAL"))
    [] c.fn = "select" -> Wait(r, v[1], c.sets)
    [] c.fn = "getcwd" -> Directory(r)
    [] c.fn = "chroot" -> IF c.path = "/" THEN Returns(r, 0) ELSE Fails(r, "ENOENT")
    [] c.fn = "longjmp" -> NoAnswer(r)
    [] c.fn \in {"setgid", "setuid", "sigaction", "sync", "nanosleep"} -> Returns(r, 0)
    [] OTHER -> Fails(r, Refused[c.fn])
=============================================================================
