------------------------------ MODULE SdkFiles ------------------------------
(***************************************************************************)
(* The file operations of the SDK: FileSystem (filesystem.ts), which runs  *)
(* a shell command in the sandbox for almost every operation and tells the *)
(* errors apart by what the command says, and Session.downloadFile.        *)
(*                                                                         *)
(* The tree of the sandbox is two levels deep: <<n>> is an entry of the    *)
(* root, <<n, m>> one of the directory <<n>>.  A file is the set of the    *)
(* calls whose data it holds.                                              *)
(***************************************************************************)
EXTENDS Naturals, Sequences, FiniteSets

CONSTANTS
  Entries,   \* names of files
  Hidden,    \* those that begin with a dot
  FirstDirs, \* those that are directories of the root at first
  Named,     \* the paths the calls are made with
  MaxChanges, \* bound: how often the tree changes
  Writers,   \* the calls of the program
  WriterMenu \* WriterMenu[c]: the operations call c may make

VARIABLES
  tree,      \* the files of the sandbox
  changes,   \* how often they have changed
  writer     \* the calls

filesVars == <<tree, changes, writer>>

Tops  == {<<n>> : n \in Entries}
Paths == Tops \cup {<<n, m>> : n, m \in Entries}

ASSUME SdkFilesAssumption ==
  /\ IsFiniteSet(Entries) /\ Hidden \subseteq Entries /\ FirstDirs \subseteq Entries
  /\ Named \subseteq Paths /\ MaxChanges \in Nat

Absent   == [kind |-> "none", to |-> <<>>, data |-> {}]
Dir      == [Absent EXCEPT !.kind = "dir"]
File(s)  == [Absent EXCEPT !.kind = "file", !.data = s]
Link(p)  == [Absent EXCEPT !.kind = "link", !.to = p]
Nowhere  == <<>>

-----------------------------------------------------------------------------
(***************************************************************************)
(* Paths and shell commands, in the sandbox.                               *)
(***************************************************************************)

\* One link of the root is followed; they point into the root.
Hop(t, p) == IF t[p].kind = "link" THEN t[p].to ELSE p

Hops(t, p) ==
  LET hop[i \in 0..Cardinality(Entries)] == IF i = 0 THEN p ELSE Hop(t, hop[i - 1])
  IN hop

\* Where the links of the root lead, but for those that go round in a circle.
TopFollow(t, p) ==
  LET last == Hops(t, p)[Cardinality(Entries)]
  IN IF t[last].kind = "link" THEN Nowhere ELSE last

\* The entry a path names, the links of its directory followed.
Place(t, p) ==
  IF Len(p) = 1 THEN p
  ELSE LET d == TopFollow(t, <<p[1]>>)
       IN IF d # Nowhere /\ t[d].kind = "dir" THEN <<d[1], p[2]>> ELSE Nowhere

\* The entry a path leads to, every link followed.
Follow(t, p) ==
  LET e == Place(t, p)
  IN IF e = Nowhere THEN Nowhere
     ELSE IF t[e].kind = "link" THEN TopFollow(t, t[e].to) ELSE e

Kind(t, p)   == IF Follow(t, p) = Nowhere THEN "none" ELSE t[Follow(t, p)].kind
Children(t, d) == {e \in Paths : Len(e) = 2 /\ e[1] = d[1] /\ t[e].kind # "none"}

\* What a command says on its standard error, or "" when it succeeds.
NoSuchFile == "No such file or directory"
NotADir    == "Not a directory"
Loop       == "Too many levels of symbolic links"
Other      == "other"

\* What is said of a path whose directory cannot be entered.
Enter(t, p) ==
  LET d == TopFollow(t, <<p[1]>>) IN
  CASE Len(p) = 1 \/ Place(t, p) # Nowhere -> ""
    [] Place(t, p) = Nowhere /\ d = Nowhere -> Loop
    [] OTHER -> IF t[d].kind = "none" THEN NoSuchFile ELSE NotADir

\* What stat and lstat say: test -e, find and ls say the same.
ShellLstat(t, p) ==
  IF Enter(t, p) # "" THEN Enter(t, p) ELSE IF t[Place(t, p)].kind = "none" THEN NoSuchFile ELSE ""

ShellStat(t, p) ==
  CASE ShellLstat(t, p) # "" -> ShellLstat(t, p)
    [] ShellLstat(t, p) = "" /\ Follow(t, p) = Nowhere -> Loop
    [] OTHER -> IF Kind(t, p) = "none" THEN NoSuchFile ELSE ""

\* readlink says nothing of what it fails for; realpath does not mind when the
\* last component is missing; chmod and chown do not do a dangling link.
ShellReadlink(t, p) ==
  IF ShellLstat(t, p) = "" /\ t[Place(t, p)].kind = "link" THEN "" ELSE Other
ShellRealpath(t, p) ==
  IF Enter(t, p) # "" THEN Enter(t, p) ELSE IF Follow(t, p) = Nowhere THEN Loop ELSE ""
ShellChmod(t, p) ==
  IF ShellLstat(t, p) = "" /\ ShellStat(t, p) # "" THEN Other ELSE ShellStat(t, p)

Fail(t, say)    == [say |-> say, tree |-> t]
Put(t, e, node) == [say |-> "", tree |-> [t EXCEPT ![e] = node]]

\* rm: a directory only with -r; nothing to remove is no error with -f.
ShellRm(t, p, recursive, force) ==
  LET e == Place(t, p)
      said == ShellLstat(t, p)
  IN CASE said # "" -> Fail(t, IF force /\ said \in {NoSuchFile, NotADir} THEN "" ELSE said)
       [] said = "" /\ t[e].kind = "dir" /\ ~recursive -> Fail(t, Other)
       [] OTHER -> [say |-> "", tree |-> [x \in Paths |->
            IF x = e \/ (t[e].kind = "dir" /\ x \in Children(t, e)) THEN Absent ELSE t[x]]]

ShellRmdir(t, p) ==
  LET e == Place(t, p) IN
  CASE ShellLstat(t, p) # "" -> Fail(t, ShellLstat(t, p))
    [] ShellLstat(t, p) = "" /\ t[e].kind # "dir" -> Fail(t, NotADir)
    [] OTHER -> IF Children(t, e) # {} THEN Fail(t, "not empty") ELSE Put(t, e, Absent)

\* mkdir, with or without -p.
ShellMkdir(t, p, parents) ==
  LET top == <<p[1]>>
      s == IF parents /\ Len(p) = 2 /\ t[top].kind = "none" THEN Put(t, top, Dir).tree ELSE t
      e == Place(s, p)
  IN CASE e # Nowhere /\ s[e].kind = "none" -> Put(s, e, Dir)
       [] parents /\ Kind(s, p) = "dir"      -> Fail(s, "")
       [] OTHER                              -> Fail(t, Other)

\* mv, cp and ln put what they make into a directory named as their destination.
Aim(t, p, q) == IF Kind(t, q) = "dir" THEN <<Follow(t, q)[1], p[Len(p)]>> ELSE q

\* mv renames a link, takes the entries of a directory along, and does not
\* put a directory in the place of anything else.
ShellMv(t, p, q) ==
  LET from == Place(t, p)
      to   == Place(t, Aim(t, p, q))
      moved(x) == CASE x = to   -> t[from]
                    [] x = from -> Absent
                    [] x \in Children(t, from) /\ t[from].kind = "dir" -> Absent
                    [] OTHER -> IF t[from].kind = "dir" /\ Len(x) = 2 /\ x[1] = to[1]
                                THEN t[<<from[1], x[2]>>] ELSE t[x]
  IN CASE ShellLstat(t, p) # "" -> Fail(t, ShellLstat(t, p))
       [] ShellLstat(t, p) = "" /\ to = Nowhere -> Fail(t, Enter(t, q))
       [] OTHER -> IF \/ from = to
                      \/ t[from].kind = "dir" /\ (t[to].kind # "none" \/ to[1] = from[1])
                   THEN Fail(t, Other)
                   ELSE [say |-> "", tree |-> [x \in Paths |-> moved(x)]]

\* cp follows links on both sides, but not a dangling one.
ShellCp(t, p, q) ==
  LET aim == Aim(t, p, q)
      to  == IF Kind(t, aim) = "file" THEN Follow(t, aim) ELSE Place(t, aim)
  IN CASE ShellStat(t, p) # "" -> Fail(t, ShellStat(t, p))
       [] ShellStat(t, p) = "" /\ to = Nowhere -> Fail(t, Enter(t, q))
       [] OTHER -> IF Kind(t, p) # "file" \/ to = Follow(t, p) \/ t[to].kind \in {"dir", "link"}
                   THEN Fail(t, Other) ELSE Put(t, to, t[Follow(t, p)])

ShellLn(t, target, p) ==
  LET e == Place(t, Aim(t, target, p)) IN
  IF e = Nowhere THEN Fail(t, Enter(t, p))
  ELSE IF t[e].kind # "none" THEN Fail(t, "File exists") ELSE Put(t, e, Link(target))

\* truncate, to the length of 0 that is its default, makes the file when there is none.
ShellTruncate(t, p) ==
  LET e == Follow(t, p) IN
  CASE e = Nowhere -> Fail(t, ShellRealpath(t, p))
    [] OTHER -> IF t[e].kind = "dir" THEN Fail(t, Other) ELSE Put(t, e, File({}))

\* The guest's own writeFiles: it makes the directories on the way, and does
\* not write through a link.
GuestWrite(t, p, data) ==
  LET s == IF Len(p) = 2 THEN ShellMkdir(t, <<p[1]>>, TRUE).tree ELSE t
      e == Place(s, p)
  IN IF e = Nowhere \/ s[e].kind \in {"dir", "link"} THEN Fail(s, Other) ELSE Put(s, e, File(data))

\* The guest's readFile: null for a file that is not there, and an error for
\* whatever else is not a regular file.
GuestRead(t, p) ==
  CASE ShellStat(t, p) = NoSuchFile -> "null"
    [] OTHER -> IF Kind(t, p) = "file" THEN "ok" ELSE "error"

-----------------------------------------------------------------------------
(***************************************************************************)
(* FileSystem: the operations that look.                                   *)
(***************************************************************************)

\* The code of an error, by what the command said.
Told(say) ==
  CASE say = ""          -> "ok"
    [] say = NoSuchFile  -> "ENOENT"
    [] say = "not empty" -> "ENOTEMPTY"
    [] OTHER             -> "EACCES"

\* The operations that tell one error apart, none, or throw what the API said.
ToldExists(say) == CASE say = "" -> "ok" [] say = "File exists" -> "EEXIST" [] OTHER -> "EACCES"
ToldNone(say)   == IF say = "" THEN "ok" ELSE "EACCES"
Raised(say)     == IF say = "" THEN "ok" ELSE "error"

FsReadFile(t, p) == IF GuestRead(t, p) = "null" THEN "ENOENT" ELSE GuestRead(t, p)

\* mutant: stat as lstat
FsStatUnfollowed(t, p) == Told(ShellLstat(t, p))

FsStat(t, p) == Told(ShellStat(t, p))
FsLstat(t, p) == Told(ShellLstat(t, p))
FsExists(t, p) == ShellStat(t, p) = ""
FsAccess(t, p) == IF ShellStat(t, p) = "" THEN "ok" ELSE "ENOENT"
FsRealpath(t, p) == Told(ShellRealpath(t, p))
FsReadlink(t, p) ==
  CASE ShellReadlink(t, p) = ""         -> "ok"
    [] ShellReadlink(t, p) = NoSuchFile -> "ENOENT"
    [] OTHER                            -> "EINVAL"

\* What is listed: ls shows what a link leads to and no hidden entries; find
\* shows them, and does not follow a link.
Within(t, d) == IF d # Nowhere /\ t[d].kind = "dir" THEN {e[2] : e \in Children(t, d)} ELSE {}

FsReaddir(t, p) ==
  [code |-> Told(ShellLstat(t, p)),
   names |-> IF Kind(t, p) = "dir" THEN Within(t, Follow(t, p)) \ Hidden
             ELSE IF ShellLstat(t, p) = "" THEN {p[Len(p)]} ELSE {}]

FsReaddirTyped(t, p) ==
  [code |-> Told(ShellLstat(t, p)), names |-> Within(t, Place(t, p))]

-----------------------------------------------------------------------------
(***************************************************************************)
(* FileSystem: the operations that change the tree.                        *)
(***************************************************************************)

NoWriter == [pc |-> "idle", path |-> <<>>, found |-> {}, late |-> FALSE, res |-> "none"]

\* A call that has returned makes way for another.
Returned(res) == [NoWriter EXCEPT !.res = res]

\* Nothing but a directory is made deeper than the tree goes.
Fits(t) == \A e \in Paths : Len(e) = 2 => t[e].kind # "dir"

\* What is read of a path.
Content(t, p) == IF Kind(t, p) = "file" THEN t[Follow(t, p)].data ELSE {}

\* Calls about to append to a file that has changed since they read it.
Overtakes(t, calls) ==
  [c \in Writers |->
    LET p == calls[c].path IN
    IF calls[c].pc = "append" /\ Content(tree, p) # Content(t, p)
    THEN [calls[c] EXCEPT !.late = TRUE] ELSE calls[c]]

Can(c, op) == writer[c].pc = "idle" /\ op \in WriterMenu[c]

\* One command, and the code its error is given.
Effect(c, r, code) ==
  /\ Fits(r.tree)
  /\ tree' = r.tree
  /\ changes' = changes + IF r.tree = tree THEN 0 ELSE 1
  /\ changes' <= MaxChanges
  /\ writer' = Overtakes(r.tree, [writer EXCEPT ![c] = Returned(code)])

Written(c, r) == Effect(c, r, Raised(r.say))
Command(c, r) == Effect(c, r, Told(r.say))

FsWriteFile(c, p) == Can(c, "write") /\ Written(c, GuestWrite(tree, p, {c}))
FsMkdir(c, p) ==
  LET deep == ShellMkdir(tree, p, TRUE)
      flat == ShellMkdir(tree, p, FALSE)
  IN Can(c, "mkdir") /\ (Effect(c, deep, ToldNone(deep.say)) \/ Effect(c, flat, Raised(flat.say)))
FsMkdtemp(c, p) ==
  LET r == ShellMkdir(tree, p, FALSE)
  IN Can(c, "mkdir") /\ ShellLstat(tree, p) # "" /\ Effect(c, r, ToldNone(r.say))
FsSymlink(c, q, p) ==
  LET r == ShellLn(tree, q, p) IN Can(c, "link") /\ q \in Tops /\ Effect(c, r, ToldExists(r.say))
FsUnlink(c, p) == Can(c, "rm") /\ Command(c, ShellRm(tree, p, FALSE, FALSE))
FsRm(c, p) == Can(c, "rm") /\ \E r, f \in BOOLEAN : Command(c, ShellRm(tree, p, r, f))
FsRmdir(c, p) == Can(c, "rm") /\ Command(c, ShellRmdir(tree, p))
FsRename(c, p, q) == Can(c, "mv") /\ Command(c, ShellMv(tree, p, q))
FsCopyFile(c, p, q) == Can(c, "mv") /\ Command(c, ShellCp(tree, p, q))
FsTruncate(c, p) == Can(c, "write") /\ Command(c, ShellTruncate(tree, p))

\* The mode and the owner of a file are not kept.
FsChmod(c, p) == Can(c, "mode") /\ Command(c, Fail(tree, ShellChmod(tree, p)))
FsChown(c, p) == Can(c, "mode") /\ Command(c, Fail(tree, ShellChmod(tree, p)))

\* appendFile reads the file, and writes what it found and its own data.
FsAppendRead(c, p) ==
  /\ Can(c, "append")
  /\ writer' = [writer EXCEPT ![c] =
       IF GuestRead(tree, p) = "error" THEN Returned("error")
       ELSE [NoWriter EXCEPT !.pc = "append", !.path = p,
                             !.found = Content(tree, p)]]
  /\ UNCHANGED <<tree, changes>>

\* mutant: what was there is read over
FsAppendAlone(c) ==
  /\ writer[c].pc = "append"
  /\ Written(c, GuestWrite(tree, writer[c].path, {c}))

FsAppendWrite(c) ==
  /\ writer[c].pc = "append"
  /\ Written(c, GuestWrite(tree, writer[c].path, writer[c].found \cup {c}))

-----------------------------------------------------------------------------
(***************************************************************************)
(* Session.downloadFile.                                                   *)
(***************************************************************************)

\* The file is opened, and the local one made or emptied, its directory made
\* on the way if that was asked for; either can fail.
Download(c, p) ==
  /\ Can(c, "download")
  /\ \/ /\ GuestRead(tree, p) = "ok"
        /\ writer' = [writer EXCEPT ![c] = [NoWriter EXCEPT !.pc = "copy"]]
     \/ \E res \in {GuestRead(tree, p), "error"} \ {"ok"} :
          writer' = [writer EXCEPT ![c] = Returned(res)]
  /\ UNCHANGED <<tree, changes>>

\* pipeline: every byte is written, or the connection, the disk or the signal
\* ends it, and part of the file stays behind.
DownloadEnd(c) ==
  /\ writer[c].pc = "copy"
  /\ \E res \in {"ok", "error"} : writer' = [writer EXCEPT ![c] = Returned(res)]
  /\ UNCHANGED <<tree, changes>>

FilesInit ==
  /\ tree = [p \in Paths |-> IF Len(p) = 1 /\ p[1] \in FirstDirs THEN Dir ELSE Absent]
  /\ changes = 0
  /\ writer = [c \in Writers |-> NoWriter]

FilesNext ==
  \E c \in Writers :
    \/ \E p \in Named :
         \/ FsWriteFile(c, p) \/ FsMkdir(c, p) \/ FsMkdtemp(c, p) \/ FsUnlink(c, p) \/ FsRm(c, p)
         \/ FsRmdir(c, p) \/ FsTruncate(c, p) \/ FsChmod(c, p) \/ FsChown(c, p)
         \/ FsAppendRead(c, p) \/ Download(c, p)
         \/ \E q \in Named : FsRename(c, p, q) \/ FsCopyFile(c, p, q) \/ FsSymlink(c, q, p)
    \/ FsAppendWrite(c) \/ DownloadEnd(c)

FilesSpec == FilesInit /\ [][FilesNext]_filesVars

-----------------------------------------------------------------------------
(***************************************************************************)
(* What the file operations promise.                                       *)
(***************************************************************************)

\* However the tree came about, the ways to look at a path agree: it can be
\* accessed, and exists, if and only if stat finds it; what can be read is a
\* file stat finds; lstat finds all that and the links that lead nowhere; and
\* the two listings of a directory differ in the hidden entries only.
ViewsAgree ==
  \A p \in Paths :
    /\ FsExists(tree, p) <=> FsAccess(tree, p) = "ok"
    /\ FsExists(tree, p) <=> FsStat(tree, p) = "ok"
    /\ FsReadFile(tree, p) = "ENOENT" <=> FsStat(tree, p) = "ENOENT"
    /\ FsStat(tree, p) = "ok" => FsLstat(tree, p) = "ok" /\ FsRealpath(tree, p) = "ok"
    /\ FsLstat(tree, p) = "ok" /\ FsReadlink(tree, p) # "ok" => FsStat(tree, p) = "ok"
    /\ FsLstat(tree, p) = "ok" /\ tree[Place(tree, p)].kind = "dir" =>
         FsReaddir(tree, p).names = FsReaddirTyped(tree, p).names \ Hidden

\* An append loses nothing of a file that did not change between its read and
\* its write.
AppendsKept ==
  [][\A c \in Writers :
       LET p == writer[c].path IN
       writer[c].pc = "append" /\ ~writer[c].late /\ writer'[c].res = "ok"
         => Content(tree', p) = Content(tree, p) \cup {c}]_filesVars

=============================================================================
