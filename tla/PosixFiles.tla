----------------------------- MODULE PosixFiles -----------------------------
(***************************************************************************)
(* The POSIX runtime that is linked with a program: symbolic files, the    *)
(* descriptors for them and for files of the operating system, and the     *)
(* failures of system calls that it injects.                               *)
(*                                                                         *)
(* A call is an operator from the runtime's globals to an outcome, for one *)
(* input of the program: the file contents, the stat structures and the    *)
(* numbers of the calls that fail are the symbolic input.                  *)
(***************************************************************************)
EXTENDS Integers, SequencesExt

CONSTANTS
  MaxFds,     \* MAX_FDS, 32
  DirentSize, \* sizeof(struct dirent64), 280
  DirentHead, \* of it, what is before the rest of the name
  OsDirents,  \* offset where the operating system's directory entries start, 4096
  MaxArgs,    \* new_argv of klee_init_env, 1024
  StdoutSize  \* of the symbolic standard output, 1024

\* exe_file_t, exe_sym_env_t and exe_file_system_t; a file is known by its name.
NoFile == "none"
Closed == [fd |-> 0, flags |-> {}, off |-> 0, dfile |-> NoFile]
Opened(fd, flags) == [Closed EXCEPT !.fd = fd, !.flags = flags]
SymFileNames == <<"A", "B">>

\* The bits of a mode stand for those of the owner, of which 022 masks none.
exe_env(os) ==
  [fds |-> [fd \in 0..(MaxFds - 1) |->
              CASE fd = 0 -> Opened(0, {"eOpen", "eReadable"})
                [] fd \in {1, 2} -> Opened(fd, {"eOpen", "eWriteable"})
                [] OTHER -> Closed],
   umask |-> {}, save_all_writes |-> FALSE,
   n_sym_files |-> 0, sym_stdout |-> FALSE, dfiles |-> <<>>, stdout_writes |-> 0,
   max_failures |-> 0, fail |-> <<>>,
   n_calls |-> [fn \in {"read", "write", "close", "ftruncate", "getcwd", "chmod", "fchmod"} |-> 0],
   os |-> os]

\* What a call returns, what it wrote for its caller, a value it made concrete, and the
\* error that ends the path.
Gives(m, ret, data) ==
  [m |-> m, ret |-> ret, errno |-> "", data |-> data, concrete |-> <<>>, error |-> ""]
Returns(m, ret) == Gives(m, ret, <<>>)
Fails(m, errno) == [Returns(m, -1) EXCEPT !.errno = errno]
Dies(m, error) == [Returns(m, 0) EXCEPT !.error = error]

-----------------------------------------------------------------------------
(* The operating system: files and directories by name, open files with an  *)
(* offset of its own, a standard input and an output.                       *)

Sys(m, os, ret, data) == Gives([m EXCEPT !.os = os], ret, data)
os_file(m, fd) == m.os.files[m.os.open[fd].name]
os_exists(m, path) == path \in DOMAIN m.os.files
os_named(m, path) == IF os_exists(m, path) THEN Returns(m, 0) ELSE Fails(m, "ENOENT")
Part(seq, off, count) ==
  SubSeq(seq, off + 1, IF off + count > Len(seq) THEN Len(seq) ELSE off + count)

os_open(m, path, flags) ==
  LET fd == CHOOSE n \in 0..99 : n \notin DOMAIN m.os.open /\ \A k \in 0..(n - 1) : k \in DOMAIN m.os.open
  IN IF os_exists(m, path)
     THEN Sys(m, [m.os EXCEPT !.open = (fd :> [name |-> path, off |-> 0, flags |-> flags]) @@ @], fd, <<>>)
     ELSE Fails(m, "ENOENT")

os_pread(m, fd, count, off) ==
  LET f == os_file(m, fd)
  IN CASE f.type = "tty" -> Fails(m, "ESPIPE")
       [] f.type # "tty" /\ "O_WRONLY" \in m.os.open[fd].flags -> Fails(m, "EBADF")
       [] f.type = "dir" /\ "O_WRONLY" \notin m.os.open[fd].flags -> Fails(m, "EISDIR")
       [] f.type = "reg" /\ "O_WRONLY" \notin m.os.open[fd].flags -> LET data == Part(f.contents, off, count) IN Gives(m, Len(data), data)

os_read(m, count) ==
  LET data == Part(m.os.input, 0, count)
  IN Sys(m, [m.os EXCEPT !.input = SubSeq(@, Len(data) + 1, Len(@))], Len(data), data)

Spliced(seq, off, data) ==
  [k \in 1..(IF Len(seq) > off + Len(data) THEN Len(seq) ELSE off + Len(data)) |->
     IF k \in (off + 1)..(off + Len(data)) THEN data[k - off]
     ELSE IF k <= Len(seq) THEN seq[k] ELSE 0]

os_pwrite(m, fd, data, off) ==
  LET name == m.os.open[fd].name
  IN CASE os_file(m, fd).type = "tty" -> Fails(m, "ESPIPE")
       [] os_file(m, fd).type # "tty" /\ {"O_WRONLY", "O_RDWR"} \cap m.os.open[fd].flags = {} -> Fails(m, "EBADF")
       [] OTHER ->
            Sys(m, [m.os EXCEPT !.files[name].contents = Spliced(@, off, data)], Len(data), <<>>)

os_write(m, data) == Sys(m, [m.os EXCEPT !.output = @ \o data], Len(data), <<>>)

os_lseek(m, fd, offset, whence) ==
  LET base == CASE whence = "SEEK_SET" -> 0
                [] whence = "SEEK_CUR" -> m.os.open[fd].off
                [] whence = "SEEK_END" -> Len(os_file(m, fd).contents)
                [] OTHER -> -offset - 1
  IN CASE os_file(m, fd).type = "tty" -> Fails(m, "ESPIPE")
       [] OTHER -> IF base + offset < 0 THEN Fails(m, "EINVAL")
                   ELSE Sys(m, [m.os EXCEPT !.open[fd].off = base + offset], base + offset, <<>>)

\* As many entries as there is room for.
os_getdents(m, fd, count) ==
  LET f == os_file(m, fd)
      at == m.os.open[fd].off
      data == Part(f.contents, at, count \div DirentSize)
  IN IF f.type # "dir" THEN Fails(m, "ENOTDIR")
     ELSE Sys(m, [m.os EXCEPT !.open[fd].off = at + Len(data)], Len(data) * DirentSize, data)

-----------------------------------------------------------------------------
(* Files and descriptors *)

\* A path of one character that names a file that was not removed.
get_sym_file(m, path) ==
  IF \E i \in 1..m.n_sym_files : path = SymFileNames[i] /\ m.dfiles[path].stat.ino # 0
  THEN path ELSE NoFile
IsSym(m, path) == get_sym_file(m, path) # NoFile
StatOf(m, path) == m.dfiles[path].stat

IsOpen(m, fd) == fd \in DOMAIN m.fds /\ "eOpen" \in m.fds[fd].flags
get_file(m, fd) == m.fds[fd]
OfSym(m, fd) == get_file(m, fd).dfile # NoFile

\* A call about a descriptor: of no file, of a symbolic one, or of one of the system.
OnFile(m, fd, symbolic, concrete) ==
  CASE ~IsOpen(m, fd) -> Fails(m, "EBADF")
    [] IsOpen(m, fd) /\ OfSym(m, fd) -> symbolic
    [] OTHER -> concrete
\* A call about a path, alone or under the directory of a descriptor.
OnPath(m, path, symbolic, concrete) == IF IsSym(m, path) THEN symbolic ELSE concrete

\* The counter of a function is a static variable of it.  The numbers of the chmods that
\* fail are nowhere allocated.
Counted(m, fn) == [m EXCEPT !.n_calls[fn] = @ + 1]
Unless(m, fn, errno, outcome) ==
  CASE m.max_failures > 0 /\ fn \notin DOMAIN m.fail -> Dies(m, "ptr")
    [] m.max_failures > 0 /\ fn \in DOMAIN m.fail /\ m.fail[fn] = m.n_calls[fn] ->
         Fails([m EXCEPT !.max_failures = @ - 1], errno)
    [] OTHER -> outcome

\* The bits of a mode: 0777, and those above it.
Access == {"r", "w"}

access(m, path) == OnPath(m, path, Returns(m, 0), os_named(m, path))
umask(m, mask) == Gives([m EXCEPT !.umask = mask \cap Access], 0, m.umask)

\* O_RDONLY is no bit.
has_permission(flags, stat) ==
  LET read_access == {"O_RDONLY", "O_RDWR"} \cap flags # {}
      write_access == {"O_WRONLY", "O_RDWR"} \cap flags # {}
  IN ~(read_access /\ "r" \in stat.mode) /\ ~(write_access /\ "w" \notin stat.mode)

Unused(m) == {fd \in DOMAIN m.fds : ~IsOpen(m, fd)}
Lowest(fds) == CHOOSE fd \in fds : \A other \in fds : fd <= other
AccessFlags(flags) ==
  {"eOpen"} \cup (CASE {"O_WRONLY", "O_RDWR"} \cap flags = {} -> {"eReadable"}
                    [] {"O_WRONLY", "O_RDWR"} \cap flags = {"O_WRONLY"} -> {"eWriteable"}
                    [] OTHER -> {"eReadable", "eWriteable"})

opens(m, fd, r, flags) ==
  IF r.ret = -1 THEN r
  ELSE Returns([r.m EXCEPT !.fds[fd] = Opened(r.ret, AccessFlags(flags))], fd)

fd_open(m, path, flags, mode) ==
  IF Unused(m) = {} THEN Fails(m, "EMFILE")
  ELSE LET fd == Lowest(Unused(m))
           zero == [m EXCEPT !.fds[fd] = Closed]
           df == get_sym_file(m, path)
           with == [m EXCEPT !.fds[fd] = [Closed EXCEPT !.dfile = df]]
       IN CASE df = NoFile -> opens(m, fd, os_open(zero, path, flags), flags)
            [] df # NoFile /\ {"O_CREAT", "O_EXCL"} \subseteq flags -> Fails(with, "EEXIST")
            [] df # NoFile /\ ({"O_TRUNC", "O_RDONLY"} \subseteq flags
                               \/ ("O_EXCL" \in flags /\ "O_CREAT" \notin flags)
                               \/ ~has_permission(flags, StatOf(m, df))) -> Fails(with, "EACCES")
            [] OTHER -> Returns([with EXCEPT !.dfiles[df].stat.mode = (@ \ Access) \cup (mode \ m.umask),
                                             !.fds[fd].flags = AccessFlags(flags)], fd)

\* A directory of the operating system that a path is under, or the current one.
AT_FDCWD == -100
Under(m, basefd, outcome) ==
  CASE basefd = AT_FDCWD -> outcome
    [] basefd # AT_FDCWD -> OnFile(m, basefd, Fails(m, "ENOENT"), outcome)

fd_openat(m, basefd, path, flags, mode) ==
  Under(m, basefd,
    IF IsSym(m, path) THEN fd_open(m, path, flags, mode)
    ELSE IF Unused(m) = {} THEN Fails(m, "EMFILE")
    ELSE LET fd == Lowest(Unused(m))
         IN opens(m, fd, os_open([m EXCEPT !.fds[fd] = Closed], path, flags), flags))

\* The time of the last change.
utimes(m, path, time) ==
  OnPath(m, path, Returns([m EXCEPT !.dfiles[path].stat.mtime = time], 0), os_named(m, path))
futimesat(m, fd, path, time) == Under(m, fd, utimes(m, path, time))

\* The operating system's descriptor is not closed.
close(n, fd) ==
  LET m == Counted(n, "close")
  IN IF ~IsOpen(m, fd) THEN Fails(m, "EBADF")
     ELSE Unless(m, "close", "EIO", Returns([m EXCEPT !.fds[fd] = Closed], 0))

Moved(m, fd, n) == [m EXCEPT !.fds[fd].off = @ + n]

\* __concretize_size
Concretized(r, size) == [r EXCEPT !.concrete = <<size>>]

concrete_read(m, fd, count) ==
  LET f == get_file(m, fd)
      r == IF f.fd = 0 THEN os_read(m, count) ELSE os_pread(m, f.fd, count, f.off)
  IN Concretized(IF r.ret = -1 \/ f.fd = 0 THEN r ELSE [r EXCEPT !.m = Moved(@, fd, r.ret)], count)

symbolic_read(m, fd, count) ==
  LET f == get_file(m, fd)
      df == m.dfiles[f.dfile]
      n == IF f.off + count > df.size THEN df.size - f.off ELSE count
  IN IF df.size < f.off THEN Returns(m, 0)
     ELSE Gives(Moved(m, fd, n), n, Part(df.contents, f.off, n))

read(k, fd, count) ==
  LET m == Counted(k, "read")
  IN IF count = 0 THEN Returns(m, 0)
     ELSE OnFile(m, fd, Unless(m, "read", "EIO", symbolic_read(m, fd, count)),
                        Unless(m, "read", "EIO", concrete_read(m, fd, count)))

concrete_write(m, fd, data) ==
  LET f == get_file(m, fd)
      r == IF f.fd \in {1, 2} THEN os_write(m, data) ELSE os_pwrite(m, f.fd, data, f.off)
  IN Concretized(IF r.ret = -1 \/ f.fd \in {1, 2} THEN r ELSE [r EXCEPT !.m = Moved(@, fd, r.ret)],
                 Len(data))

\* What is beyond the end is dropped, and counts as written.
symbolic_write(m, fd, data) ==
  LET f == get_file(m, fd)
      df == m.dfiles[f.dfile]
      actual_count == CASE f.off + Len(data) <= df.size -> Len(data)
                        [] f.off + Len(data) > df.size -> IF f.off < df.size THEN df.size - f.off ELSE 0
  IN IF f.off + Len(data) > df.size /\ m.save_all_writes THEN Dies(m, "assert")
     ELSE Returns([Moved(m, fd, Len(data)) EXCEPT
                     !.dfiles[f.dfile].contents =
                        IF actual_count = 0 THEN @ ELSE Spliced(@, f.off, SubSeq(data, 1, actual_count)),
                     !.stdout_writes = IF f.dfile = "stdout" /\ m.sym_stdout THEN @ + actual_count ELSE @],
                  Len(data))

write(k, fd, data) ==
  LET m == Counted(k, "write")
  IN OnFile(m, fd, Unless(m, "write", "EIO", symbolic_write(m, fd, data)),
                   Unless(m, "write", "EIO", concrete_write(m, fd, data)))

\* The operating system's offset is brought to that of the descriptor first.
concrete_lseek(m, fd, offset, whence) ==
  LET f == get_file(m, fd)
      start == os_lseek(m, f.fd, f.off, "SEEK_SET")
      r == CASE whence = "SEEK_SET" -> os_lseek(m, f.fd, offset, whence)
             [] whence # "SEEK_SET" -> IF start.ret = -1 THEN start
                                       ELSE os_lseek(start.m, f.fd, offset, whence)
  IN IF r.ret = -1 THEN r ELSE [r EXCEPT !.m.fds[fd].off = r.ret]

symbolic_lseek(m, fd, offset, whence) ==
  LET f == get_file(m, fd)
      new_off == CASE whence = "SEEK_SET" -> offset
                   [] whence = "SEEK_CUR" -> f.off + offset
                   [] whence = "SEEK_END" -> m.dfiles[f.dfile].size + offset
                   [] OTHER -> -1
  IN IF new_off < 0 THEN Fails(m, "EINVAL")
     ELSE Returns([m EXCEPT !.fds[fd].off = new_off], new_off)

fd_lseek(m, fd, offset, whence) ==
  OnFile(m, fd, symbolic_lseek(m, fd, offset, whence), concrete_lseek(m, fd, offset, whence))

-----------------------------------------------------------------------------
(* What is known of a file, and changes of it *)

os_stat(m, path) ==
  IF os_exists(m, path) THEN Gives(m, 0, <<m.os.files[path].type, Len(m.os.files[path].contents)>>)
  ELSE Fails(m, "ENOENT")
StatData(m, path) == Gives(m, 0, <<StatOf(m, path)>>)

fd_stat(m, path) == OnPath(m, path, StatData(m, path), os_stat(m, path))
fd_lstat(m, path) == OnPath(m, path, StatData(m, path), os_stat(m, path))
fstatat(m, fd, path) == Under(m, fd, OnPath(m, path, StatData(m, path), os_stat(m, path)))
fd_fstat(m, fd) ==
  OnFile(m, fd, StatData(m, get_file(m, fd).dfile), os_stat(m, m.os.open[get_file(m, fd).fd].name))

chdir(m, path) == OnPath(m, path, Fails(m, "ENOENT"), os_named(m, path))
fchdir(m, fd) ==
  OnFile(m, fd, Fails(m, "ENOENT"),
         IF os_file(m, get_file(m, fd).fd).type = "dir" THEN Returns(m, 0) ELSE Fails(m, "ENOTDIR"))

\* By the owner; a file of another group is not made to set that.
df_chmod(m, df, mode) ==
  LET stat == StatOf(m, df)
  IN IF ~stat.mine THEN Fails(m, "EPERM")
     ELSE Returns([m EXCEPT !.dfiles[df].stat.mode = IF stat.group THEN mode ELSE mode \ {"setgid"}], 0)

chmod(k, path, mode) ==
  LET m == Counted(k, "chmod")
  IN Unless(m, "chmod", "EIO", OnPath(m, path, df_chmod(m, path, mode), os_named(m, path)))
fchmod(m, fd, mode) ==
  IF ~IsOpen(m, fd) THEN Fails(m, "EBADF")
  ELSE LET n == Counted(m, "fchmod")
       IN Unless(n, "fchmod", "EIO",
                 OnFile(n, fd, df_chmod(n, get_file(n, fd).dfile, mode), Returns(n, 0)))

df_chown(m) == Fails(m, "EPERM")
chown(m, path) == OnPath(m, path, df_chown(m), os_named(m, path))
lchown(m, path) == OnPath(m, path, df_chown(m), os_named(m, path))
\* fchown passes the program's descriptor on instead of the operating system's.
fchown(m, fd) ==
  OnFile(m, fd, df_chown(m), IF fd \in DOMAIN m.os.open THEN Returns(m, 0) ELSE Fails(m, "EBADF"))

os_ftruncate(m, fd, length) ==
  IF os_file(m, fd).type # "reg" THEN Fails(m, "EINVAL")
  ELSE Sys(m, [m.os EXCEPT !.files[m.os.open[fd].name].contents =
                 [i \in 1..length |-> IF i <= Len(@) THEN @[i] ELSE 0]], 0, <<>>)
fd_ftruncate(k, fd, length) ==
  LET m == Counted(k, "ftruncate")
  IN OnFile(m, fd, Unless(m, "ftruncate", "EIO", Fails(m, "EIO")),
                   Unless(m, "ftruncate", "EIO", os_ftruncate(m, get_file(m, fd).fd, length)))

\* The symbolic files first, and an entry of no file up to the offset where those of the
\* operating system's directory start.  A reader passes over entries of no file.
our_dirents(m, fd, count) ==
  LET off == get_file(m, fd).off
      i == off \div DirentSize
      entries == Part(SymFileNames, i, m.n_sym_files - i)
      pad == IF count >= OsDirents THEN OsDirents ELSE count
  IN IF i * DirentSize # off \/ i > m.n_sym_files THEN Fails(m, "EINVAL")
     ELSE IF Len(entries) * DirentSize + DirentHead > count THEN Dies(m, "ptr")
     ELSE Gives([m EXCEPT !.fds[fd].off = pad], pad, SelectSeq(entries, LAMBDA name : IsSym(m, name)))

os_dirents(m, fd, count) ==
  LET f == get_file(m, fd)
      sought == os_lseek(m, f.fd, f.off - OsDirents, "SEEK_SET")
      r == os_getdents(sought.m, f.fd, count)
  IN IF sought.ret = -1 THEN Dies(m, "assert")
     ELSE IF r.ret = -1 THEN r
     ELSE [r EXCEPT !.m.fds[fd].off = os_lseek(r.m, f.fd, 0, "SEEK_CUR").ret + OsDirents]

fd_getdents(m, fd, count) ==
  OnFile(m, fd, Fails(m, "EINVAL"),
         IF get_file(m, fd).off < OsDirents THEN our_dirents(m, fd, count) ELSE os_dirents(m, fd, count))

\* The requests of a terminal, for a symbolic file that may be one.
symbolic_ioctl(m, fd, request) ==
  LET df == m.dfiles[get_file(m, fd).dfile]
      off == get_file(m, fd).off
      terminal(outcome) == IF df.stat.type = "chr" THEN outcome ELSE Fails(m, "ENOTTY")
  IN CASE request \in {"TCGETS", "TCSETS", "TCSETSF"} -> terminal(Returns(m, 0))
       [] request = "TCSETSW" -> IF fd = 0 THEN Returns(m, 0) ELSE Fails(m, "ENOTTY")
       [] request = "TIOCGWINSZ" -> terminal(Gives(m, 0, <<24, 80>>))
       [] request = "TIOCSWINSZ" -> terminal(Fails(m, "EINVAL"))
       [] request = "FIONREAD" ->
            terminal(Gives(m, 0, <<IF off < df.size THEN df.size - off ELSE 0>>))
       [] OTHER -> Fails(m, "EINVAL")
os_ioctl(m, fd) == IF os_file(m, fd).type = "tty" THEN Returns(m, 0) ELSE Fails(m, "ENOTTY")
ioctl(m, fd, request) == OnFile(m, fd, symbolic_ioctl(m, fd, request), os_ioctl(m, get_file(m, fd).fd))

symbolic_fcntl(m, fd, cmd, arg) ==
  CASE cmd = "F_GETFD" -> Returns(m, IF "eCloseOnExec" \in get_file(m, fd).flags THEN 1 ELSE 0)
    [] cmd = "F_SETFD" ->
         Returns([m EXCEPT !.fds[fd].flags = (@ \ {"eCloseOnExec"})
                    \cup (IF arg % 2 = 1 THEN {"eCloseOnExec"} ELSE {})], 0)
    [] cmd = "F_GETFL" -> Returns(m, 0)
    [] OTHER -> Fails(m, "EINVAL")
fcntl(m, fd, cmd, arg) == OnFile(m, fd, symbolic_fcntl(m, fd, cmd, arg), Returns(m, 0))

fd_statfs(m, path) == OnPath(m, path, Fails(m, "ENOENT"), os_named(m, path))
fstatfs(m, fd) == OnFile(m, fd, Fails(m, "EBADF"), Returns(m, 0))
fsync(m, fd) == OnFile(m, fd, Returns(m, 0), Returns(m, 0))

-----------------------------------------------------------------------------
(* Copies of descriptors, removal, waiting *)

\* The descriptor is closed, and then the other one copied, also if it is the same.  What
\* close returns does not count.
dup2(m, oldfd, newfd) ==
  LET n == IF IsOpen(m, newfd) THEN close(m, newfd).m ELSE m
  IN IF ~IsOpen(m, oldfd) \/ newfd \notin DOMAIN m.fds THEN Fails(m, "EBADF")
     ELSE Returns([n EXCEPT !.fds[newfd] = [n.fds[oldfd] EXCEPT !.flags = @ \ {"eCloseOnExec"}]], newfd)
dup(m, oldfd) ==
  CASE ~IsOpen(m, oldfd) -> Fails(m, "EBADF")
    [] IsOpen(m, oldfd) /\ Unused(m) = {} -> Fails(m, "EMFILE")
    [] OTHER -> dup2(m, oldfd, Lowest(Unused(m)))

Removed(m, path) == Returns([m EXCEPT !.dfiles[path].stat.ino = 0], 0)
rmdir(m, path) ==
  OnPath(m, path,
         IF StatOf(m, path).type = "dir" THEN Removed(m, path) ELSE Fails(m, "ENOTDIR"),
         Fails(m, "EPERM"))
removes(m, path) ==
  CASE StatOf(m, path).type = "reg" -> Removed(m, path)
    [] StatOf(m, path).type = "dir" -> Fails(m, "EISDIR")
    [] OTHER -> Fails(m, "EPERM")
unlink(m, path) == OnPath(m, path, removes(m, path), Fails(m, "EPERM"))
\* unlinkat looks at the path alone.
unlinkat(m, dirfd, path) == OnPath(m, path, removes(m, path), Fails(m, "EPERM"))

readlink(m, path, bufsize) ==
  OnPath(m, path,
         IF StatOf(m, path).type # "lnk" THEN Fails(m, "EINVAL")
         ELSE Gives(m, IF bufsize > 5 THEN 5 ELSE bufsize,
                    SubSeq(<<path, ".", "l", "n", "k">>, 1, IF bufsize > 5 THEN 5 ELSE bufsize)),
         IF os_exists(m, path) THEN Fails(m, "EINVAL") ELSE Fails(m, "ENOENT"))

\* Of the system's descriptors those that are ready, unless a signal comes.
os_select(m, sets) ==
  IF m.os.signal THEN Fails(m, "EINTR")
  ELSE LET ready == [k \in 1..3 |-> {fd \in sets[k] : m.os.open[fd].name \in m.os.ready}]
       IN Gives(m, FoldLeft(LAMBDA n, k : n + Cardinality(ready[k]), 0, <<1, 2, 3>>), ready)

\* Symbolic files are always ready, and count once; the system is asked about the others.
\* Descriptors that share one of the system are all reported ready.
select(m, nfds, sets) ==
  LET asked == {fd \in 0..(nfds - 1) : \E k \in 1..3 : fd \in sets[k]}
      count == Cardinality({fd \in asked : OfSym(m, fd)})
      ours == [k \in 1..3 |-> {fd \in asked : fd \in sets[k] /\ OfSym(m, fd)}]
      os == [k \in 1..3 |-> {m.fds[fd].fd : fd \in {fd \in asked : fd \in sets[k] /\ ~OfSym(m, fd)}}]
      r == os_select(m, os)
      back(k) == {fd \in 0..(nfds - 1) : IsOpen(m, fd) /\ ~OfSym(m, fd) /\ m.fds[fd].fd \in r.data[k]}
  IN CASE \E fd \in asked : ~IsOpen(m, fd) -> Fails(m, "EBADF")
       [] (\A fd \in asked : IsOpen(m, fd) /\ OfSym(m, fd)) -> Gives(m, count, ours)
       [] OTHER -> IF r.ret = -1 THEN IF count = 0 THEN r ELSE Gives(m, count, ours)
                   ELSE Gives(m, count + r.ret, [k \in 1..3 |-> ours[k] \cup back(k)])

getcwd(k) == LET m == Counted(k, "getcwd") IN Unless(m, "getcwd", "ERANGE", Returns(m, 0))
chroot(m, path) == IF path = "/" THEN Returns(m, 0) ELSE Fails(m, "ENOENT")

-----------------------------------------------------------------------------
(* Before main: the files that the command line asks for, and the arguments *)
(* left for the program.  The symbolic input has the contents and the stat  *)
(* structure of each file, the numbers of the calls that fail, and how many *)
(* arguments there are.                                                     *)

create_new_dfile(m, name, size, input) ==
  [m EXCEPT !.dfiles = (name :> [size |-> size, contents |-> Part(input.contents[name], 0, size),
                                 stat |-> input.stat]) @@ @]

klee_init_fds(m, o, input) ==
  LET files == FoldLeft(LAMBDA n, k : create_new_dfile(n, SymFileNames[k], o.file_length, input),
                        [m EXCEPT !.n_sym_files = o.n_files], [k \in 1..o.n_files |-> k])
      withStdin == IF o.stdin_length = 0 THEN files
                   ELSE [create_new_dfile(files, "stdin", o.stdin_length, input)
                           EXCEPT !.fds[0].dfile = "stdin"]
      withStdout == IF ~o.sym_stdout THEN withStdin
                    ELSE [create_new_dfile(withStdin, "stdout", StdoutSize, input)
                            EXCEPT !.fds[1].dfile = "stdout", !.sym_stdout = TRUE]
  IN IF o.n_files > 0 /\ o.file_length = 0 THEN Dies(m, "assert")
     ELSE Gives([withStdout EXCEPT
                   !.max_failures = o.max_failures, !.save_all_writes = o.save_all_writes,
                   !.fail = IF o.max_failures = 0 THEN <<>>
                            ELSE [fn \in {"read", "write", "close", "ftruncate", "getcwd"} |-> input.fail]],
                Len(o.argv), o.argv)

\* The options, each with the number of its arguments.
OptionArgs ==
  [sym_arg |-> 1, sym_args |-> 3, sym_files |-> 2, sym_stdin |-> 1, sym_stdout |-> 0,
   save_all_writes |-> 0, fd_fail |-> 0, max_fail |-> 1]

\* A symbolic argument, by its number and length.
add_args(o, n, len) ==
  [o EXCEPT !.argv = @ \o [i \in 1..n |-> <<"sym", o.sym_arg_num + i - 1, len>>],
            !.sym_arg_num = @ + n]

\* klee_range: a number from the first up to the second.
RangeFails(v) == v[1] >= v[2] + 1
klee_range(v, input) == v[1] + (input.n_args % (v[2] + 1 - v[1]))

Option(o, name, v, input) ==
  CASE name = "sym_arg" -> add_args(o, 1, v[1])
    [] name = "sym_args" -> add_args(o, klee_range(v, input), v[3])
    [] name = "sym_files" -> [o EXCEPT !.n_files = v[1], !.file_length = v[2]]
    [] name = "sym_stdin" -> [o EXCEPT !.stdin_length = v[1]]
    [] name = "sym_stdout" -> [o EXCEPT !.sym_stdout = TRUE]
    [] name = "save_all_writes" -> [o EXCEPT !.save_all_writes = TRUE]
    [] name = "fd_fail" -> [o EXCEPT !.max_failures = 1]
    [] name = "max_fail" -> [o EXCEPT !.max_failures = v[1]]

\* An option is <<"option", name>>, a number <<"number", n>>, and other words are copied.
RECURSIVE Options(_, _, _)
Options(argv, o, input) ==
  IF argv = <<>> \/ o.error THEN o
  ELSE IF Head(argv)[1] # "option" THEN
    Options(Tail(argv), IF Len(o.argv) = MaxArgs THEN [o EXCEPT !.error = TRUE]
                        ELSE [o EXCEPT !.argv = Append(@, Head(argv))], input)
  ELSE LET name == Head(argv)[2]
           n == OptionArgs[name]
           v == [k \in 1..n |-> argv[k + 1][2]]
       IN IF \/ Len(argv) <= n
             \/ \E k \in 1..n : argv[k + 1][1] # "number"
             \/ name = "sym_args" /\ RangeFails(v)
             \/ name = "sym_arg" /\ Len(o.argv) = MaxArgs
             \/ name = "sym_args" /\ Len(o.argv) + klee_range(v, input) > MaxArgs
          THEN [o EXCEPT !.error = TRUE]
          ELSE Options(SubSeq(argv, n + 2, Len(argv)), Option(o, name, v, input), input)

klee_init_env(m, argv, input) ==
  LET o == Options(argv, [argv |-> <<>>, sym_arg_num |-> 0, n_files |-> 0, file_length |-> 0,
                          stdin_length |-> 0, sym_stdout |-> FALSE, save_all_writes |-> FALSE,
                          max_failures |-> 0, error |-> FALSE], input)
  IN IF o.error \/ (Len(argv) = 2 /\ argv[2] = <<"word", "--help">>) THEN Dies(m, "user")
     ELSE klee_init_fds(m, o, input)

-----------------------------------------------------------------------------
(* Calls that are not modelled by the runtime: they do nothing, or fail.    *)

ignored(fn) == fn \in {"sigaction", "sigprocmask", "fdatasync", "sync"}

files_errno ==
  [socketcall |-> "EAFNOSUPPORT", mkdir |-> "EIO", mkfifo |-> "EIO", mknod |-> "EIO",
   pipe |-> "ENFILE", link |-> "EPERM", symlink |-> "EPERM", rename |-> "EPERM"]
times_errno == [clock_settime |-> "EPERM", utime |-> "EPERM", futimes |-> "EBADF"]
processes_errno == [fn \in {"wait", "wait3", "wait4", "waitpid", "waitid"} |-> "ECHILD"]
system_errno ==
  [fn \in {"mount", "umount", "umount2", "swapon", "swapoff", "setgroups", "sethostname", "setpgid",
           "setpgrp", "setpriority", "setresgid", "setresuid", "setrlimit", "setrlimit64", "setsid",
           "settimeofday", "reboot", "mlock", "munlock", "pause", "readahead", "mmap", "mmap64",
           "munmap"} |-> "EPERM"]
illegal_errno ==
  [fn \in {"execl", "execlp", "execle", "execv", "execvp", "execve"} |-> "EACCES"]
    @@ [fn \in {"fork", "vfork"} |-> "ENOMEM"] @@ [kill |-> "EPERM"]
stub_errno == files_errno @@ times_errno @@ processes_errno @@ system_errno @@ illegal_errno

stub(m, fn) ==
  CASE ignored(fn) \/ fn \in {"nanosleep", "times", "setuid", "setgid", "_setjmp"} -> Returns(m, 0)
    [] fn = "longjmp" -> Dies(m, "xxx")
    [] fn = "getloadavg" -> Returns(m, -1)
    [] fn \in DOMAIN stub_errno -> Fails(m, stub_errno[fn])

-----------------------------------------------------------------------------

\* The third argument of open is looked at if there is one.
CreationMode(c) == IF "O_CREAT" \in c.flags THEN c.mode ELSE {}

\* A call, of a function and what is constant of its arguments, with the values v of the
\* others.
Call(m, c, v, input) ==
  CASE c.fn = "klee_init_env" -> klee_init_env(m, c.argv, input)
    [] c.fn = "access" -> access(m, c.path)
    [] c.fn = "umask" -> umask(m, c.mode)
    [] c.fn = "open" -> fd_open(m, c.path, c.flags, CreationMode(c))
    [] c.fn = "openat" -> fd_openat(m, v[1], c.path, c.flags, CreationMode(c))
    [] c.fn = "utimes" -> utimes(m, c.path, v[1])
    [] c.fn = "futimesat" -> futimesat(m, v[1], c.path, v[2])
    [] c.fn = "close" -> close(m, v[1])
    [] c.fn = "read" -> read(m, v[1], v[2])
    [] c.fn = "write" -> write(m, v[1], Tail(v))
    [] c.fn = "lseek" -> fd_lseek(m, v[1], v[2], c.whence)
    [] c.fn = "stat" -> fd_stat(m, c.path)
    [] c.fn = "lstat" -> fd_lstat(m, c.path)
    [] c.fn = "fstatat" -> fstatat(m, v[1], c.path)
    [] c.fn = "fstat" -> fd_fstat(m, v[1])
    [] c.fn = "chdir" -> chdir(m, c.path)
    [] c.fn = "fchdir" -> fchdir(m, v[1])
    [] c.fn = "chmod" -> chmod(m, c.path, c.mode)
    [] c.fn = "fchmod" -> fchmod(m, v[1], c.mode)
    [] c.fn = "chown" -> chown(m, c.path)
    [] c.fn = "lchown" -> lchown(m, c.path)
    [] c.fn = "fchown" -> fchown(m, v[1])
    [] c.fn = "ftruncate" -> fd_ftruncate(m, v[1], v[2])
    [] c.fn = "getdents" -> fd_getdents(m, v[1], v[2])
    [] c.fn = "ioctl" -> ioctl(m, v[1], c.request)
    [] c.fn = "fcntl" -> fcntl(m, v[1], c.cmd, v[2])
    [] c.fn = "statfs" -> fd_statfs(m, c.path)
    [] c.fn = "fstatfs" -> fstatfs(m, v[1])
    [] c.fn = "fsync" -> fsync(m, v[1])
    [] c.fn = "dup2" -> dup2(m, v[1], v[2])
    [] c.fn = "dup" -> dup(m, v[1])
    [] c.fn = "rmdir" -> rmdir(m, c.path)
    [] c.fn = "unlink" -> unlink(m, c.path)
    [] c.fn = "unlinkat" -> unlinkat(m, v[1], c.path)
    [] c.fn = "readlink" -> readlink(m, c.path, v[1])
    [] c.fn = "select" -> select(m, v[1], c.sets)
    [] c.fn = "getcwd" -> getcwd(m)
    [] c.fn = "chroot" -> chroot(m, c.path)
    [] OTHER -> stub(m, c.fn)
=============================================================================
