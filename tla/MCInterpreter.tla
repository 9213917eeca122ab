--------------------------- MODULE MCInterpreter ---------------------------
EXTENDS SpecialFunctions

X == R(<<"x">>)
Reg(n) == R(<<n>>)
Let(n, fn, args) == Do(<<n>>, fn, args)
Case(c, cases, default) == [op |-> "switch", cond |-> c, cases |-> cases, default |-> default]
Indirect(a, ls) == [op |-> "indirectbr", addr |-> a, to |-> ls]
NewObject(n) == [op |-> "alloca", dest |-> <<n>>, size |-> C(1)]
LoadOf(n, a) == [op |-> "load", dest |-> <<n>>, addr |-> a]
StoreTo(a, v) == [op |-> "store", addr |-> a, val |-> v]
Stuck == [op |-> "unreachable"]
Call1(n, callee, arg) == Call(<<n>>, callee, <<arg>>)

\* A function of the blocks in the given order.
Fn(params, width, blocks) ==
  [params |-> [k \in DOMAIN params |-> <<params[k]>>], width |-> width,
   order |-> [k \in DOMAIN blocks |-> <<blocks[k][1]>>],
   block |-> [l \in {<<blocks[k][1]>> : k \in DOMAIN blocks} |->
                blocks[CHOOSE k \in DOMAIN blocks : <<blocks[k][1]>> = l][2]]]

\* The system a program runs on, and what of the input the runtime reads.
AnOS ==
  [files |-> "tty" :> [type |-> "tty", contents |-> <<>>] @@ "/f" :> [type |-> "reg", contents |-> <<5, 6>>]
             @@ "/d" :> [type |-> "dir", contents |-> <<"/f", "/d", "/g">>],
   open |-> 0 :> [name |-> "tty", off |-> 0, flags |-> {}]
            @@ [fd \in {1, 2} |-> [name |-> "tty", off |-> 0, flags |-> {"O_WRONLY"}]],
   input |-> <<7, 8>>, output |-> <<>>, ready |-> {"/f"}, signal |-> FALSE]

AnInput(x) ==
  [contents |-> [A |-> <<x, x + 1, x + 2>>, B |-> <<x + 3, x + 4, x + 5>>, stdin |-> <<x + 6, x>>, stdout |-> <<0, x>>],
   stat |-> [ino |-> 1, type |-> <<"reg", "dir", "chr", "lnk", "reg">>[x + 1],
             mode |-> <<{"r", "w"}, {"r"}, {"w"}, {}, {"r", "w", "setgid"}>>[x + 1],
             mine |-> x # 2, group |-> x # 4, mtime |-> x],
   fail |-> 1 + (x % 2), n_args |-> x, made |-> <<<<x, 1, x + 3, 0>>, <<x % 2, 2, 0, x>>>>]

\* errno, a table, and strings: the names of two functions, and of none.
Globals5 ==
  <<Object("global", FALSE, <<0>>), Object("global", TRUE, <<4, 5>>), Object("global", TRUE, <<1, 0>>),
    Object("global", TRUE, <<2, 0>>), Object("global", FALSE, <<3, 0>>)>>

\* Functions of the system.
System ==
  [plus |-> [found |-> TRUE, spoils |-> FALSE, fn |-> "add", errno |-> 2],
   least |-> [found |-> TRUE, spoils |-> FALSE, fn |-> "udiv", errno |-> 0],
   wild |-> [found |-> TRUE, spoils |-> TRUE, fn |-> "add", errno |-> 0],
   gone |-> [found |-> FALSE, spoils |-> FALSE, fn |-> "add", errno |-> 0]]

Program(fns) ==
  [fns |-> fns, entry |-> "main", functions |-> (100 :> "inc" @@ 101 :> "half" @@ 102 :> "none"),
   labels |-> (200 :> <<"a">> @@ 201 :> <<"b">>), loopBound |-> 0, lower |-> FALSE,
   breakSelect |-> FALSE, thread |-> FALSE, onlyReplaySeeds |-> FALSE, seeds |-> {},
   os |-> AnOS, input |-> [x \in Inputs |-> AnInput(x)], lazyInit |-> FALSE,
   globals |-> Globals5, names |-> <<1>> :> "inc" @@ <<2>> :> "half", external |-> System,
   noExternals |-> FALSE, externalSymCalls |-> FALSE, seedObjects |-> 9]

\* A loop that swaps two values x times.
Loop ==
  Program([main |-> Fn(<<"x">>, 3,
    <<<<"entry", <<Goto(<<"head">>)>>>>,
      <<"head", <<Phi(<<"i">>, <<<<"entry">>, <<"body">>>>, <<C(0), Reg("j")>>),
                  Phi(<<"p">>, <<<<"body">>, <<"entry">>>>, <<Reg("q"), C(1)>>),
                  Phi(<<"q">>, <<<<"entry">>, <<"body">>>>, <<C(2), Reg("p")>>),
                  Let("c", "ult", <<Reg("i"), X>>), If(Reg("c"), <<"body">>, <<"end">>)>>>>,
      <<"body", <<Let("j", "add", <<Reg("i"), C(1)>>), Goto(<<"head">>)>>>>,
      <<"end", <<Ret(<<Reg("p")>>)>>>>>>)])

\* A switch with two cases for one block, and a phi where they meet.
Cases ==
  Program([main |-> Fn(<<"x">>, 3,
    <<<<"entry", <<Case(X, <<<<0, <<"a">>>>, <<1, <<"b">>>>, <<2, <<"a">>>>>>, <<"other">>)>>>>,
      <<"a", <<Goto(<<"end">>)>>>>,
      <<"b", <<Phi(<<"s">>, <<<<"entry">>>>, <<X>>), Goto(<<"end">>)>>>>,
      <<"other", <<Let("d", "udiv", <<C(6), X>>), Goto(<<"end">>)>>>>,
      <<"end", <<Phi(<<"r">>, <<<<"b">>, <<"a">>, <<"other">>>>, <<Reg("s"), C(5), Reg("d")>>),
                 Let("u", "sub", <<X, C(1)>>), Let("t", "shl", <<Reg("r"), Reg("u")>>),
                 Ret(<<Reg("t")>>)>>>>>>)])

Inc == Fn(<<"v">>, 3, <<<<"entry", <<Let("w", "add", <<Reg("v"), C(1)>>), Ret(<<Reg("w")>>)>>>>>>)
Half == Fn(<<"v">>, 2, <<<<"entry", <<Let("w", "lshr", <<Reg("v"), C(1)>>), Ret(<<Reg("w")>>)>>>>>>)
None == Fn(<<>>, 0, <<<<"entry", <<Ret(<<>>)>>>>>>)

\* Calls through a pointer, to functions of other types and to no function.
Pointers ==
  Program([main |-> Fn(<<"x">>, 3,
    <<<<"entry", <<Let("c", "ult", <<X, C(2)>>), Let("f", "select", <<Reg("c"), C(100), C(101)>>),
                   Let("z", "eq", <<X, C(4)>>), Let("g", "select", <<Reg("z"), C(7), Reg("f")>>),
                   [Call1("r", Reg("g"), X) EXCEPT !.sext = TRUE, !.normal = <<"next">>]>>>>,
      <<"next", <<Call(<<>>, F("none"), <<X>>), Ret(<<Reg("r")>>)>>>>>>),
    inc |-> Inc, half |-> Half, none |-> None])

\* Functions called with too few arguments, or for a result they do not have.
WrongCalls ==
  Program([main |-> Fn(<<"x">>, 3,
    <<<<"entry", <<Let("c", "eq", <<X, C(0)>>), If(Reg("c"), <<"a">>, <<"b">>)>>>>,
      <<"a", <<Call(<<"r">>, F("inc"), <<>>), Ret(<<Reg("r")>>)>>>>,
      <<"b", <<Call1("r", F("none"), X), Ret(<<X>>)>>>>>>),
    inc |-> Inc, none |-> None])

Labels ==
  Program([main |-> Fn(<<"x">>, 3,
    <<<<"entry", <<Let("y", "add", <<X, C(0)>>), Let("z", "eq", <<X, C(0)>>), Let("u", "eq", <<X, C(1)>>),
                   Let("l", "select", <<Reg("z"), C(200), C(201)>>), Let("m", "select", <<Reg("u"), C(7), Reg("l")>>),
                   Indirect(Reg("m"), <<<<"a">>, <<"b">>, <<"a">>>>)>>>>,
      <<"a", <<Ret(<<X>>)>>>>,
      <<"b", <<Phi(<<"r">>, <<<<"entry">>>>, <<X>>), Stuck>>>>>>)])

\* Jumps to the one address there is: a destination, another block, and none; and to more.
OneLabel ==
  LET to(name, l) == <<name, <<Indirect(l, <<<<"a">>>>)>>>>
      either(name, n, a, b) ==
        <<name, <<Let(name \o "c", "eq", <<X, C(n)>>), Let(name \o "l", "select", <<Reg(name \o "c"), C(a), C(b)>>),
                  Indirect(Reg(name \o "l"), <<<<"a">>>>)>>>>
  IN Program([main |-> Fn(<<"x">>, 3,
       <<<<"entry", <<Case(X, <<<<0, <<"p">>>>, <<1, <<"q">>>>, <<2, <<"r">>>>>>, <<"s">>)>>>>,
         either("p", 0, 200, 201), to("q", C(201)), either("r", 2, 201, 7), either("s", 3, 200, 7),
         <<"a", <<Ret(<<X>>)>>>>, <<"b", <<Ret(<<C(1)>>)>>>>>>)])
NoLabel ==
  Program([main |-> Fn(<<"x">>, 3, <<<<"entry", <<Let("y", "add", <<X, C(1)>>), Indirect(C(7), <<<<"a">>>>)>>>>, <<"a", <<Ret(<<X>>)>>>>>>)])

\* Two objects, and a pointer to one, the other, or neither.
Objects ==
  Program([main |-> Fn(<<"x">>, 3,
    <<<<"entry", <<NewObject("p"), NewObject("q"), StoreTo(Reg("p"), C(3)),
                   Let("c", "ult", <<X, C(2)>>), Let("a", "select", <<Reg("c"), Reg("p"), Reg("q")>>),
                   Let("z", "eq", <<X, C(3)>>), Let("b", "select", <<Reg("z"), C(0), Reg("a")>>),
                   StoreTo(Reg("b"), X), LoadOf("r", Reg("p")), LoadOf("t", Reg("a")),
                   Let("s", "add", <<Reg("r"), Reg("t")>>),
                   Call1("k", F("keep"), X), LoadOf("e", Reg("k")), Ret(<<Reg("s")>>)>>>>>>),
    keep |-> Fn(<<"v">>, 3, <<<<"entry", <<NewObject("o"), StoreTo(Reg("o"), Reg("v")), Ret(<<Reg("v")>>)>>>>>>)])

\* A thread that gets stuck for one input.
Alone ==
  [Program([main |-> Fn(<<"x">>, 3,
    <<<<"entry", <<Let("c", "eq", <<X, C(2)>>), If(Reg("c"), <<"a">>, <<"b">>)>>>>,
      <<"a", <<Stuck>>>>,
      <<"b", <<Ret(<<>>)>>>>>>)]) EXCEPT !.thread = TRUE]

CastOf(n, fn, v, from, to) == [op |-> "cast", dest |-> <<n>>, fn |-> fn, args |-> <<v>>, from |-> from, to |-> to]
Gep(n, args, types) == [op |-> "gep", dest |-> <<n>>, args |-> args, types |-> types]
Float2(n, fn, a, b) == [op |-> "fp", dest |-> <<n>>, fn |-> fn, args |-> <<a, b>>, from |-> 32, to |-> 32]
Float1(n, fn, v, from, to) == [op |-> "fp", dest |-> <<n>>, fn |-> fn, args |-> <<v>>, from |-> from, to |-> to]
FloatIs(n, pred, a, b) == [op |-> "fcmp", dest |-> <<n>>, pred |-> pred, fn |-> pred, args |-> <<a, b>>, from |-> 32]
Aggregate(n, op, args, field) ==
  [op |-> op, dest |-> <<n>>, args |-> args, types |-> <<<<"struct", <<0, 1, 2>>>>>>, indices |-> <<field>>,
   aggregate |-> 24, width |-> 8]
Vector(n, op, args) == [op |-> op, dest |-> <<n>>, args |-> args, bits |-> 3, count |-> 3]

\* Conversions, and pointers to one of two objects by an index.
Conversions ==
  Program([main |-> Fn(<<"x">>, 3,
    <<<<"entry", <<CastOf("t", "trunc", X, 3, 2), CastOf("s", "sext", Reg("t"), 2, 3),
                   CastOf("z", "zext", Reg("t"), 2, 3), Let("d", "sub", <<Reg("s"), Reg("z")>>),
                   NewObject("p"), NewObject("q"), StoreTo(Reg("q"), C(6)),
                   CastOf("n", "ptrtoint", Reg("q"), 10, 20), CastOf("m", "inttoptr", Reg("n"), 20, 10),
                   Gep("a", <<Reg("m"), Reg("s"), C(1), C(7)>>, <<<<"array", 8>>, <<"struct", <<8, 16>>>>, <<"array", 16>>>>),
                   [op |-> "fence"], LoadOf("r", Reg("a")), Let("o", "add", <<Reg("r"), Reg("d")>>),
                   Ret(<<Reg("o")>>)>>>>>>)])

\* Fields of a structure, elements of a vector.
Aggregates ==
  Program([main |-> Fn(<<"x">>, 3,
    <<<<"entry", <<Aggregate("a", "insertvalue", <<C(0), X>>, 1), Aggregate("b", "insertvalue", <<Reg("a"), C(5)>>, 0),
                   Aggregate("c", "insertvalue", <<Reg("b"), Reg("x")>>, 2), Aggregate("d", "extractvalue", <<Reg("c")>>, 1),
                   Vector("u", "insertelement", <<C(0), Reg("d"), C(0)>>), Vector("v", "insertelement", <<Reg("u"), C(6), C(2)>>),
                   Vector("w", "extractelement", <<Reg("v"), C(0)>>), Let("k", "ult", <<X, C(3)>>),
                   If(Reg("k"), <<"out">>, <<"symbolic">>)>>>>,
      <<"out", <<Let("j", "eq", <<X, C(0)>>), If(Reg("j"), <<"read">>, <<"write">>)>>>>,
      <<"read", <<Vector("y", "extractelement", <<Reg("v"), C(3)>>), Ret(<<Reg("w")>>)>>>>,
      <<"write", <<Let("i", "eq", <<X, C(1)>>), If(Reg("i"), <<"beyond">>, <<"end">>)>>>>,
      <<"beyond", <<Vector("y", "insertelement", <<Reg("v"), X, C(4)>>), Ret(<<Reg("w")>>)>>>>,
      <<"end", <<Ret(<<Reg("w")>>)>>>>,
      <<"symbolic", <<Let("i", "eq", <<X, C(3)>>), If(Reg("i"), <<"get">>, <<"put">>)>>>>,
      <<"get", <<Vector("y", "extractelement", <<Reg("v"), X>>), Ret(<<Reg("y")>>)>>>>,
      <<"put", <<Let("h", "eq", <<X, C(4)>>), If(Reg("h"), <<"stop">>, <<"put2">>)>>>>,
      <<"put2", <<Vector("y", "insertelement", <<Reg("v"), C(1), X>>), Ret(<<Reg("y")>>)>>>>,
      <<"stop", <<[op |-> "illegal"], Ret(<<>>)>>>>>>)])

\* Arithmetic, comparisons and conversions of numbers, all in turn.
Numbers(fn) ==
  Program([main |-> Fn(<<"x">>, 3,
    <<<<"entry", <<Float1("f", "sitofp", X, 3, 32), Float2("g", fn, Reg("f"), C(1)), Float2("h", "fadd", Reg("g"), X),
                   FloatIs("c", "ult", Reg("h"), C(1)), If(Reg("c"), <<"less">>, <<"not">>)>>>>,
      <<"less", <<Float1("u", "fptoui", Reg("g"), 32, 3), Ret(<<Reg("u")>>)>>>>,
      <<"not", <<Float1("d", "fpext", Reg("h"), 32, 64), Float1("e", "fptrunc", Reg("d"), 64, 32),
                 Float1("i", "fptosi", Reg("e"), 32, 3), Float1("k", "uitofp", Reg("i"), 3, 32), Ret(<<Reg("k")>>)>>>>>>)])

\* A comparison, by every predicate, of a number with every other.
Compared(n) ==
  Program([main |-> Fn(<<"x">>, 3,
    <<<<"entry", [k \in 1..16 |-> FloatIs("c" \o ToString(k), Predicates[k], X, C(n))]
                 \o [k \in 1..16 |-> IF k = 1 THEN Let("s1", "add", <<C(0), Reg("c1")>>)
                                     ELSE Let("s" \o ToString(k), "add", <<Reg("s" \o ToString(k - 1)), Reg("c" \o ToString(k))>>)]
                 \o <<If(Reg("c3"), <<"a">>, <<"b">>)>>>>,
      <<"a", <<Ret(<<Reg("s16")>>)>>>>, <<"b", <<Let("o", "add", <<Reg("c10"), Reg("c13")>>), Ret(<<Reg("o")>>)>>>>>>)])

\* Formats of numbers that are not known.
Half16(fn, from, to) ==
  Program([main |-> Fn(<<"x">>, 3,
    <<<<"entry", <<Float1("f", fn, X, from, to), Ret(<<X>>)>>>>>>)])

-----------------------------------------------------------------------------
\* A call of the runtime.
Posix1(fn, args) ==
  [op |-> "runtime", dest |-> <<>>, fn |-> fn, args |-> args, path |-> "A", flags |-> {}, mode |-> {},
   whence |-> "SEEK_SET", request |-> "", cmd |-> "", sets |-> <<{}, {}, {}>>, argv |-> <<>>]
OnPath(fn, path) == [Posix1(fn, <<>>) EXCEPT !.path = path]
OfFd(fn, fd) == Posix1(fn, <<C(fd)>>)
OpenAs(path, flags) == [OnPath("open", path) EXCEPT !.flags = flags, !.mode = {"r"}]
At(fn, fd, path) == [OfFd(fn, fd) EXCEPT !.path = path]
ReadOf(fd, n) == Posix1("read", <<C(fd), n>>)
WriteTo(fd, data) == Posix1("write", <<C(fd)>> \o data)
SeekTo(fd, n, whence) == [Posix1("lseek", <<C(fd), C(n)>>) EXCEPT !.whence = whence]
WithMode(call, mode) == [call EXCEPT !.mode = mode]
IoCtl(fd, request) == [OfFd("ioctl", fd) EXCEPT !.request = request]
FCntl(fd, cmd, arg) == [Posix1("fcntl", <<C(fd), C(arg)>>) EXCEPT !.cmd = cmd]
SelectOn(n, read, write, except) == [OfFd("select", n) EXCEPT !.sets = <<read, write, except>>]
Dup2(old, new) == Posix1("dup2", <<C(old), C(new)>>)

CommandLine(words) == [Posix1("klee_init_env", <<>>) EXCEPT !.argv = words]
Option(name, numbers) == <<<<"option", name>>>> \o [k \in DOMAIN numbers |-> <<"number", numbers[k]>>]
Name == <<<<"word", "prog">>>>

\* A program that makes these calls one after the other.
Calls(calls) ==
  Program([main |-> Fn(<<"x">>, 3,
    <<<<"entry", Append([k \in DOMAIN calls |-> [calls[k] EXCEPT !.dest = <<"r" \o ToString(k)>>]], Ret(<<>>))>>>>)])

Setups ==
  <<<<CommandLine(Name \o Option("sym_files", <<1, 2>>) \o Option("sym_stdin", <<1>>) \o Option("sym_stdout", <<>>)),
      OpenAs("A", {}), OpenAs("/f", {"O_RDWR"})>>,
    <<CommandLine(Name \o Option("sym_files", <<2, 3>>) \o Option("max_fail", <<2>>) \o Option("save_all_writes", <<>>)),
      OpenAs("/d", {}), OpenAs("A", {"O_WRONLY"})>>>>

Alphabet ==
  <<OnPath("access", "A"), OnPath("access", "/g"), WithMode(OnPath("umask", "A"), {"r", "setgid"}),
    OpenAs("A", {"O_CREAT", "O_EXCL"}), OpenAs("A", {"O_EXCL"}), OpenAs("A", {}), OpenAs("B", {"O_WRONLY"}),
    OpenAs("/f", {"O_WRONLY"}), OpenAs("/g", {}),
    [At("openat", 3, "A") EXCEPT !.flags = {"O_WRONLY"}], [At("openat", 4, "/f") EXCEPT !.flags = {"O_RDWR"}],
    Posix1("utimes", <<C(4)>>), Posix1("futimesat", <<C(3), X>>), OfFd("close", 3), OfFd("close", 4), OfFd("close", 0),
    ReadOf(3, X), ReadOf(4, X), ReadOf(0, C(1)), ReadOf(1, C(1)), WriteTo(3, <<X, C(1)>>), WriteTo(4, <<C(2), C(3), C(4)>>),
    WriteTo(1, <<C(1)>>), SeekTo(3, 1, "SEEK_SET"), SeekTo(3, -1, "SEEK_CUR"), SeekTo(4, -1, "SEEK_END"), SeekTo(4, 1, "SEEK_CUR"),
    SeekTo(0, 0, "SEEK_SET"), SeekTo(3, 0, "SEEK_HOLE"),
    OnPath("stat", "A"), OnPath("lstat", "/f"), OfFd("fstat", 3), OfFd("fstat", 4), At("fstatat", 3, "A"), At("fstatat", -100, "/g"),
    OnPath("chdir", "A"), OfFd("fchdir", 3), WithMode(OnPath("chmod", "A"), {"r", "w", "setgid"}), WithMode(OfFd("fchmod", 3), {"w"}),
    OnPath("chown", "A"), OnPath("lchown", "/f"), OfFd("fchown", 3), Posix1("ftruncate", <<C(4), C(1)>>), Posix1("ftruncate", <<C(3), C(1)>>),
    Posix1("getdents", <<C(3), C(8)>>), Posix1("getdents", <<C(4), C(8)>>), IoCtl(3, "TCGETS"), IoCtl(3, "TIOCGWINSZ"), IoCtl(3, "FIONREAD"),
    IoCtl(0, "TCSETSW"), IoCtl(3, "TIOCSWINSZ"), IoCtl(3, "MTIOCGET"), IoCtl(4, "TCSETS"),
    FCntl(3, "F_SETFD", 1), FCntl(3, "F_GETFD", 0), FCntl(3, "F_GETFL", 0), FCntl(3, "F_SETFD", 0), OnPath("statfs", "A"), OfFd("fstatfs", 3), OfFd("fsync", 4),
    Dup2(3, 4), Dup2(0, 3), OfFd("dup", 3), OfFd("dup", 4), OnPath("rmdir", "A"), OnPath("unlink", "A"), OnPath("unlink", "/f"), At("unlinkat", -100, "B"),
    OnPath("readlink", "/f"), Posix1("readlink", <<C(3)>>), SelectOn(5, {3, 4}, {}, {3}), SelectOn(5, {3}, {4}, {}), SelectOn(1, {0}, {}, {}),
    Posix1("getcwd", <<>>), OnPath("chroot", "/"), OnPath("chroot", "A"), Posix1("nanosleep", <<>>), Posix1("kill", <<>>), Posix1("longjmp", <<>>)>>

\* After each beginning, three calls: from each of the alphabet on, in steps of the same size.
CallSequences(steps) ==
  LET n == Len(Alphabet)
      size == n * Len(steps)
  IN [k \in 1..(size * Len(Setups)) |->
        LET m == (k - 1) % size
            start == m % n
            step == steps[(m \div n) + 1]
        IN Calls(Setups[((k - 1) \div size) + 1]
                   \o [i \in 1..3 |-> Alphabet[((start + (i - 1) * step) % n) + 1]])]

SetUp(words) == CommandLine(Name \o words)
SymFiles(n, size) == Option("sym_files", <<n, size>>)

\* A directory with the symbolic files in front; what was written is read again; copies of
\* a descriptor, and no descriptor left.
FilePrograms ==
  <<Calls(<<SetUp(SymFiles(2, 1)), OpenAs("/d", {}), OnPath("unlink", "A"), Posix1("getdents", <<C(3), C(7)>>),
            Posix1("getdents", <<C(3), C(4)>>), Posix1("getdents", <<C(3), C(8)>>), SeekTo(3, 0, "SEEK_SET"),
            Posix1("getdents", <<C(3), C(6)>>)>>),
    Calls(<<SetUp(SymFiles(1, 2)), OpenAs("/d", {}), Posix1("getdents", <<C(3), C(2)>>)>>),
    Calls(<<SetUp(SymFiles(1, 2)), OpenAs("A", {"O_WRONLY"}), WriteTo(3, <<X, C(1), X>>), WithMode(OnPath("chmod", "A"), {"r", "w"}),
            OpenAs("A", {}), ReadOf(4, X), SeekTo(4, -1, "SEEK_END"), ReadOf(4, C(2)), OnPath("stat", "A")>>),
    Calls(<<SetUp(SymFiles(1, 2) \o Option("save_all_writes", <<>>)), OpenAs("A", {"O_WRONLY"}), WriteTo(3, <<X, C(1)>>), WriteTo(3, <<X>>)>>),
    Calls(<<SetUp(Option("sym_stdout", <<>>)), WriteTo(1, <<X>>), SeekTo(1, 0, "SEEK_SET"), ReadOf(1, C(1)), OfFd("fstat", 1)>>),
    Calls(<<SetUp(Option("fd_fail", <<>>)), OpenAs("/f", {"O_RDWR"}), WriteTo(3, <<C(3)>>), SeekTo(3, 0, "SEEK_SET"), ReadOf(3, C(2)),
            ReadOf(3, C(2)), OfFd("close", 3), OfFd("close", 3), Posix1("getcwd", <<>>)>>),
    Calls(<<OpenAs("/f", {"O_RDWR"}), OfFd("dup", 3), ReadOf(3, C(1)), SeekTo(4, 0, "SEEK_SET"), ReadOf(4, C(2)), Dup2(4, 5), ReadOf(5, C(1)),
            OfFd("dup", 3), OpenAs("/d", {}), At("openat", -100, "/d"), Dup2(5, 5)>>),
    Calls(<<SetUp(SymFiles(1, 2)), OpenAs("/f", {"O_WRONLY"}), Dup2(1, 4), WriteTo(4, <<C(1)>>), ReadOf(3, C(1)), Dup2(3, 6), Dup2(7, 1)>>),
    Calls(<<SetUp(SymFiles(2, 2)), OnPath("unlink", "B"), [Posix1("readlink", <<C(3)>>) EXCEPT !.path = "B"], OnPath("readlink", "/g"), At("unlinkat", 3, "A"), OnPath("stat", "A")>>),
    Calls(<<SetUp(SymFiles(1, 2)), WithMode(OnPath("chmod", "A"), {"setgid"}), OnPath("stat", "A"), Posix1("readlink", <<C(3)>>)>>),
    [Calls(<<SetUp(SymFiles(1, 2)), OpenAs("A", {}), OpenAs("/f", {}), SelectOn(6, {3, 4}, {}, {}), SelectOn(6, {4}, {}, {}), OpenAs("/f", {}),
             SelectOn(6, {4, 5}, {4}, {0}), SelectOn(6, {2, 3}, {3}, {})>>) EXCEPT !.os.signal = TRUE],
    [Calls(<<OpenAs("/f", {}), ReadOf(3, X), ReadOf(3, C(1))>>) EXCEPT !.seeds = {0, 1, 3}],
    Calls(<<Posix1("sync", <<>>), Posix1("mkdir", <<>>), Posix1("futimes", <<>>), Posix1("wait", <<>>), Posix1("mount", <<>>), Posix1("fork", <<>>),
            Posix1("socketcall", <<>>), Posix1("setuid", <<>>), Posix1("longjmp", <<>>)>>)>>

\* What is on the command line.
ArgumentPrograms ==
  LET commandLines ==
        <<Name \o Option("sym_arg", <<2>>) \o <<<<"word", "w">>>> \o Option("sym_args", <<0, 1, 3>>),
          Name \o Option("sym_args", <<1, 4, 2>>), Name \o Option("sym_args", <<1, 0, 2>>), Name \o Option("sym_args", <<2, 2>>),
          Name \o Option("sym_arg", <<1>>) \o Option("sym_arg", <<2>>) \o Option("sym_arg", <<2>>) \o Option("sym_arg", <<2>>),
          Name \o <<<<"option", "sym_files">>, <<"number", 1>>, <<"word", "w">>>>, SubSeq(Option("max_fail", <<1>>), 1, 1),
          Name \o <<<<"word", "--help">>>>, Name \o <<<<"word", "--help">>, <<"word", "w">>>>, Name \o Name \o Name \o Name \o Name,
          SymFiles(1, 0), SymFiles(1, 2) \o SymFiles(0, 0) \o Option("fd_fail", <<>>) \o Option("max_fail", <<0>>)>>
  IN [k \in DOMAIN commandLines |-> Calls(<<CommandLine(commandLines[k]), OpenAs("A", {})>>)]

-----------------------------------------------------------------------------
\* For each input another block.
ForEach(before, blocks) ==
  LET name(n) == <<"b" \o ToString(n)>>
  IN Program([main |-> Fn(<<"x">>, 3,
       <<<<"entry", Append(before, Case(X, [n \in 1..4 |-> <<n - 1, name(n)>>], name(5)))>>>>
         \o [n \in 1..5 |-> <<name(n)[1], blocks[n]>>]),
     inc |-> Inc, half |-> Half])

\* A program of one block.
Straight(code) == Program([main |-> Fn(<<"x">>, 3, <<<<"entry", code>>>>), inc |-> Inc, half |-> Half])

Does(fn, args) == Call(<<>>, F(fn), args)
Gives(n, fn, args) == Call(<<n>>, F(fn), args)
Returning(code, v) == Append(code, Ret(<<v>>))
Then(code) == Returning(code, C(1))
Array(n, size) == [NewObject(n) EXCEPT !.size = size]
Beyond(n, p, k) == Gep(n, <<p, k>>, <<<<"array", 1>>>>)
Choice(n, cond, a, b) == Let(n, "select", <<cond, a, b>>)
Global(n) == C(GlobalAddress(n))
Is(n, v) == Let(n, "eq", <<X, C(v)>>)

\* What is allocated, used and released; and what is not there to be released.
Heap ==
  ForEach(<<Gives("p", "malloc", <<C(2)>>), StoreTo(Reg("p"), X), Beyond("q", Reg("p"), C(1)), StoreTo(Reg("q"), C(6)),
            Gives("n", "new", <<C(1)>>), NewObject("l")>>,
    <<Returning(<<Gives("r", "realloc", <<Reg("p"), C(3)>>), Beyond("s", Reg("r"), C(1)), LoadOf("t", Reg("s")), Does("free", <<Reg("r")>>)>>, Reg("t")),
      Then(<<Does("free", <<Reg("p")>>), Does("free", <<Reg("p")>>)>>),
      Then(<<Does("free", <<C(0)>>), Does("delete", <<Reg("n")>>), LoadOf("t", Reg("n"))>>),
      Then(<<Does("free", <<Reg("l")>>)>>),
      Then(<<Does("delete", <<Reg("q")>>)>>)>>)
MoreHeap ==
  ForEach(<<Gives("p", "malloc", <<C(2)>>), StoreTo(Reg("p"), X)>>,
    <<Then(<<Gives("r", "realloc", <<Reg("p"), C(0)>>), LoadOf("t", Reg("p"))>>),
      Returning(<<Gives("r", "realloc", <<C(0), C(1)>>), StoreTo(Reg("r"), X), LoadOf("t", Reg("r"))>>, Reg("t")),
      Then(<<Gives("r", "realloc", <<C(7), C(1)>>)>>),
      Returning(<<Gives("r", "calloc", <<C(2), C(2)>>), LoadOf("t", Reg("r"))>>, Reg("t")),
      Then(<<Call(<<"r">>, F("free"), <<Reg("p")>>)>>)>>)

\* Sizes that differ.
SizeOf(name, size) ==
  Straight(Returning(<<Let("n", "add", <<X, C(size)>>), Gives("p", name, <<Reg("n")>>), Let("z", "eq", <<Reg("p"), C(0)>>),
                       Gives("s", "klee_get_obj_size", <<Reg("p")>>)>>, Reg("s")))
TwoSizes ==
  Straight(Returning(<<Let("c", "ult", <<X, C(2)>>), Let("n", "shl", <<C(1), Reg("c")>>), Gives("p", "malloc", <<Reg("n")>>),
                       StoreTo(Reg("p"), X), Gives("s", "klee_get_obj_size", <<Reg("p")>>)>>, Reg("s")))
FixedSize(n) == Straight(Then(<<Gives("p", "malloc", <<C(n)>>), StoreTo(Reg("p"), X)>>))
Locals(size) ==
  Straight(Then(<<Let("n", "add", <<X, C(size)>>), Array("p", Reg("n")), Beyond("q", Reg("p"), C(2)), StoreTo(Reg("q"), X)>>))

\* One of several objects, or none.
SomeObjects ==
  <<Gives("p", "malloc", <<C(1)>>), Gives("q", "malloc", <<C(2)>>), StoreTo(Reg("p"), C(4)), StoreTo(Reg("q"), C(5)),
    Is("c", 0), Is("d", 1), Is("e", 2), Choice("u", Reg("c"), Reg("p"), Reg("q")), Choice("v", Reg("d"), C(0), Reg("u")),
    Choice("w", Reg("e"), Global(2), Reg("v"))>>
ReleasesOne(name) == Straight(SomeObjects \o Then(<<Does(name, <<Reg("w")>>), Gives("s", "klee_get_obj_size", <<Reg("q")>>)>>))
Reallocs(size) == Straight(SomeObjects \o Then(<<Gives("r", "realloc", <<Reg("v"), size>>), LoadOf("t", Reg("r"))>>))
MeasuresOne == Straight(SomeObjects \o Returning(<<Gives("s", "klee_get_obj_size", <<Reg("w")>>)>>, Reg("s")))

\* The path condition, forking, and values.
Assumes(limit) ==
  Straight(Returning(<<Let("c", "ult", <<X, C(limit)>>), Does("klee_assume", <<Reg("c")>>), Let("d", "uge", <<X, C(2)>>),
                       Does("klee_assume", <<Reg("d")>>)>>, X))
ForksLess(value) ==
  Straight(Returning(SomeObjects \o <<Does("klee_set_forking", <<value>>), LoadOf("t", Reg("u")), Does("klee_set_forking", <<C(1)>>),
                                      LoadOf("y", Reg("u"))>>, Reg("t")))
ValueOf(v) == Straight(Returning(<<Let("h", "lshr", <<X, C(1)>>), Gives("r", "klee_get_value", <<v>>), Let("s", "add", <<Reg("r"), X>>)>>, Reg("s")))
Prefers(p) == Straight(SomeObjects \o Then(<<Does("klee_prefer_cex", <<p, X>>)>>))

\* Objects made symbolic.
MadeOnes ==
  ForEach(<<Gives("p", "malloc", <<C(2)>>), Beyond("q", Reg("p"), C(1))>>,
    <<Returning(<<Does("klee_make_symbolic", <<Reg("p"), C(2)>>), LoadOf("t", Reg("p"))>>, Reg("t")),
      Then(<<Does("klee_make_symbolic", <<Reg("p"), C(1)>>)>>),
      Then(<<Does("klee_make_symbolic", <<Reg("q"), C(1)>>)>>),
      Then(<<Does("klee_make_symbolic", <<Global(2), C(2)>>)>>),
      Returning(<<Does("klee_make_symbolic", <<Reg("p"), C(2)>>), Does("klee_make_symbolic", <<Global(5), C(2)>>), LoadOf("s", Global(5)),
                  LoadOf("t", Reg("q"))>>, Reg("s"))>>)
MakesOne(size) ==
  Straight(SomeObjects \o Returning(<<Does("klee_make_symbolic", <<Reg("w"), size>>), LoadOf("t", Reg("p"))>>, Reg("t")))
MakesTwice ==
  Straight(Returning(<<NewObject("p"), NewObject("q"), Does("klee_make_symbolic", <<Reg("p"), C(1)>>), Does("klee_make_symbolic", <<Reg("q"), C(1)>>),
                       LoadOf("s", Reg("p")), LoadOf("t", Reg("q")), Let("u", "add", <<Reg("s"), Reg("t")>>)>>, Reg("u")))

\* Objects at addresses of the caller's, and accesses that are looked for.
Fixed ==
  ForEach(<<Gives("p", "malloc", <<C(2)>>), Beyond("q", Reg("p"), C(1))>>,
    <<Returning(<<Does("klee_define_fixed_object", <<C(900), C(2)>>), StoreTo(C(901), X), LoadOf("t", C(901))>>, Reg("t")),
      Then(<<Does("klee_check_memory_access", <<Reg("q"), C(1)>>)>>),
      Then(<<Does("klee_check_memory_access", <<Reg("q"), C(2)>>)>>),
      Then(<<Does("klee_check_memory_access", <<C(5), C(1)>>)>>),
      Returning(<<Gives("e", "__errno_location", <<>>), StoreTo(Reg("e"), X), Gives("r", "klee_get_errno", <<>>)>>, Reg("r"))>>)
FixedTwice ==
  Straight(Then(<<Does("klee_define_fixed_object", <<C(900), C(2)>>), Does("klee_define_fixed_object", <<C(901), C(1)>>)>>))
FixedAnywhere == Straight(Then(<<Gep("a", <<C(900), X>>, <<<<"array", 2>>>>), Does("klee_define_fixed_object", <<Reg("a"), C(1)>>)>>))
ChecksAny == Straight(SomeObjects \o Then(<<Does("klee_check_memory_access", <<Reg("w"), C(1)>>)>>))

\* Functions called by other names.
AliasesOf(old, new) ==
  Straight(Returning(<<Does("klee_alias_function", <<old, new>>), Gives("r", "inc", <<X>>), Does("klee_alias_function", <<old, old>>),
                       Gives("s", "inc", <<X>>), Let("t", "sub", <<Reg("s"), Reg("r")>>)>>, Reg("t")))
Says(fn) ==
  ForEach(<<NewObject("l"), StoreTo(Reg("l"), X)>>,
    <<Then(<<Does(fn, <<Global(3)>>)>>), Then(<<Does(fn, <<C(3)>>)>>), Then(<<Does(fn, <<Reg("l")>>)>>), Then(<<Does(fn, <<Global(5)>>)>>),
      Then(<<Does(fn, <<Global(4)>>)>>)>>)
SaysAny(fn, p) == Straight(SomeObjects \o Then(<<NewObject("l"), StoreTo(Reg("l"), X), Beyond("m", Reg("q"), C(1)), Does(fn, <<p>>)>>))

\* The ends of a program.
Ends5(names, args) == ForEach(<<>>, [n \in 1..5 |-> Then(<<Does(names[n], args[n])>>)])
AnEnd == Ends5(<<"abort", "__assert_fail", "exit", "klee_silent_exit", "__ubsan_handle_add_overflow">>,
               <<<<>>, <<Global(3)>>, <<X>>, <<C(0)>>, <<>>>>)
AnotherEnd == Ends5(<<"__ubsan_handle_sub_overflow", "__ubsan_handle_mul_overflow", "__ubsan_handle_divrem_overflow", "abort", "exit">>,
                    <<<<>>, <<>>, <<>>, <<>>, <<C(3)>>>>)
AssertsAtNothing == Straight(Then(<<Does("__assert_fail", <<C(3)>>)>>))
OwnExit ==
  Program([main |-> Fn(<<"x">>, 3, <<<<"entry", <<Does("exit", <<X>>), Ret(<<X>>)>>>>>>),
           exit |-> Fn(<<"v">>, 0, <<<<"entry", <<Ret(<<>>)>>>>>>), malloc |-> Inc])
OwnMalloc == [OwnExit EXCEPT !.fns.main = Fn(<<"x">>, 3, <<<<"entry", Then(<<Gives("p", "malloc", <<C(1)>>), StoreTo(Reg("p"), X)>>)>>>>)]

\* Functions of the system, and errno after them.
Outside(name, args) ==
  Straight(Returning(<<Gives("r", name, args), Gives("e", "klee_get_errno", <<>>), Let("s", "add", <<Reg("r"), Reg("e")>>)>>, Reg("s")))
OutsideThread(name) == [Straight(Returning(<<Gives("r", name, <<C(1), C(2)>>)>>, Reg("r"))) EXCEPT !.thread = TRUE]
ErrnoIsMoved(name) ==
  Straight(Then(<<Gives("p", "realloc", <<Global(1), C(2)>>), Gives("r", name, [k \in 1..(IF name = "plus" THEN 2 ELSE 0) |-> C(k)])>>))
SetsErrno ==
  Straight(Returning(<<StoreTo(Global(1), X), Does("plus", <<C(1), C(1)>>), LoadOf("r", Global(1))>>, Reg("r")))

SpecialPrograms ==
  <<Heap, MoreHeap, SizeOf("malloc", 0), SizeOf("malloc", 3), [SizeOf("malloc", 3) EXCEPT !.lazyInit = TRUE], [SizeOf("new", 1) EXCEPT !.thread = TRUE],
    TwoSizes, [TwoSizes EXCEPT !.lazyInit = TRUE], FixedSize(0), FixedSize(6), FixedSize(7), Locals(0), [Locals(0) EXCEPT !.thread = TRUE],
    [Locals(3) EXCEPT !.thread = TRUE], [Locals(1) EXCEPT !.seeds = {1, 3}, !.onlyReplaySeeds = TRUE],
    ReleasesOne("free"), [ReleasesOne("delete") EXCEPT !.seeds = {0}, !.onlyReplaySeeds = TRUE], Reallocs(C(2)), Reallocs(X), MeasuresOne,
    Assumes(4), Assumes(2), [Assumes(4) EXCEPT !.seeds = {0, 3}], ForksLess(C(0)), ForksLess(X), [ForksLess(C(0)) EXCEPT !.seeds = {0, 4}],
    [ForksLess(C(0)) EXCEPT !.seeds = {0}], [ForksLess(C(0)) EXCEPT !.seeds = {1, 3}],
    ValueOf(Reg("h")), [ValueOf(Reg("h")) EXCEPT !.seeds = {0, 3}], ValueOf(C(2)), Prefers(Reg("u")), Prefers(Reg("p")), Prefers(C(9)), Prefers(Reg("v")),
    MadeOnes, MakesOne(C(1)), MakesOne(C(2)), MakesOne(X), MakesTwice, [MakesTwice EXCEPT !.seeds = {1, 2}, !.seedObjects = 1],
    [MakesTwice EXCEPT !.seeds = {1, 2}, !.seedObjects = 2], Fixed, FixedTwice, FixedAnywhere, ChecksAny, [MeasuresOne EXCEPT !.thread = TRUE],
    AliasesOf(Global(3), Global(4)), AliasesOf(Global(3), Global(5)), AliasesOf(Global(5), Global(4)), AliasesOf(Global(3), C(5)), AliasesOf(C(4), C(5)),
    Says("klee_warning"), Says("klee_print_range"), SaysAny("klee_warning", Reg("u")), SaysAny("klee_print_range", Reg("l")), SaysAny("klee_warning", Reg("m")),
    AnEnd, AnotherEnd, AssertsAtNothing, OwnExit, OwnMalloc, Outside("plus", <<C(1), C(2)>>), Outside("plus", <<X, C(2)>>),
    [Outside("plus", <<X, C(2)>>) EXCEPT !.externalSymCalls = TRUE], [Outside("plus", <<C(1), C(2)>>) EXCEPT !.noExternals = TRUE],
    Outside("wild", <<C(1), C(2)>>), Outside("gone", <<C(1), C(2)>>), Outside("least", <<C(1), C(2)>>),
    OutsideThread("plus"), OutsideThread("least"), [OutsideThread("plus") EXCEPT !.noExternals = TRUE], SetsErrno, ErrnoIsMoved("plus"), ErrnoIsMoved("klee_get_errno"),
    [Pointers EXCEPT !.thread = TRUE]>>

APrograms ==
  <<Loop, [Loop EXCEPT !.loopBound = 1], [Loop EXCEPT !.thread = TRUE],
    Cases, [Cases EXCEPT !.lower = TRUE], [Cases EXCEPT !.seeds = {0, 3}, !.onlyReplaySeeds = TRUE],
    [Cases EXCEPT !.thread = TRUE, !.seeds = {1}],
    Pointers, [Pointers EXCEPT !.breakSelect = TRUE], WrongCalls, [WrongCalls EXCEPT !.thread = TRUE],
    Labels, OneLabel, NoLabel, Objects, [Objects EXCEPT !.thread = TRUE], Alone, [Objects EXCEPT !.seeds = {0, 2}, !.onlyReplaySeeds = TRUE],
    Conversions, [Conversions EXCEPT !.thread = TRUE], Aggregates, [Aggregates EXCEPT !.thread = TRUE],
    [Numbers("fadd") EXCEPT !.seeds = {1, 2}], [Numbers("fsub") EXCEPT !.thread = TRUE],
    Numbers("fmul"), Numbers("fdiv"), Numbers("frem"), [Numbers("frem") EXCEPT !.thread = TRUE],
    Compared(1), Compared(2), [Compared(1) EXCEPT !.thread = TRUE], [Compared(3) EXCEPT !.thread = TRUE],
    Half16("fpext", 16, 32), Half16("fptrunc", 32, 16), [Half16("uitofp", 3, 16) EXCEPT !.thread = TRUE]>>
  \o SpecialPrograms \o FilePrograms \o ArgumentPrograms \o CallSequences(<<1, 2, 3, 5, 7, 11, 13, 17, 29, 37>>)
=============================================================================
