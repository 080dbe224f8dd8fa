-------------------------------- MODULE MyCp --------------------------------
(***************************************************************************)
(* mycp's main.c over a file system.  A path is a sequence of names below  *)
(* the current directory; the place it leads to is a path without links,   *)
(* and the file system is a function from places to what is there.  A file *)
(* is a sequence of blocks of the size copy_file reads.  Each step is one  *)
(* stage of copy_file, one entry of a directory, or main() up to its call. *)
(* open, read, write, close, opendir, readdir, mkdir and the stat of an    *)
(* entry may fail at any time; malloc does not.                            *)
(***************************************************************************)
EXTENDS Naturals, Sequences

CONSTANTS
  Names,     (* of files, directories and links                            *)
  Blocks,    (* what a block may hold; "part" if not all of it was written *)
  Systems,   (* the file systems to begin with, and their links            *)
  Commands,  (* what the program is called with                            *)
  PATH_MAX,  (* names a path may have before calls fail with ENAMETOOLONG  *)
  MaxFails   (* calls that fail for no other reason (model bound)          *)

Paths == Seq(Names)

Node(kind, data) == [kind |-> kind, data |-> data]
Dir   == Node("dir", <<>>)
Nodes == [kind : {"dir", "file", "special"}, data : Seq(Blocks)]

Parent(p)   == SubSeq(p, 1, Len(p) - 1)
Under(p, q) == Len(p) <= Len(q) /\ SubSeq(q, 1, Len(p)) = p

(* What there is has a place in a directory, that one in another, and so   *)
(* on up to the current one.                                               *)
IsTree(s) ==
  /\ DOMAIN s \subseteq Paths /\ s \in [DOMAIN s -> Nodes]
  /\ <<>> \in DOMAIN s /\ s[<<>>].kind = "dir"
  /\ \A p \in DOMAIN s \ {<<>>} : Parent(p) \in DOMAIN s /\ s[Parent(p)].kind = "dir"

(* A symbolic link is in a directory, too, and leads to a place, whether   *)
(* anything is there or not.  (Of several links in a row each stands for   *)
(* where the last one leads.)                                              *)
AreLinks(l, s) ==
  /\ l \in [DOMAIN l -> Paths] /\ DOMAIN l \subseteq Paths \ {<<>>}
  /\ \A p \in DOMAIN l :
       /\ p \notin DOMAIN s /\ Parent(p) \in DOMAIN s /\ s[Parent(p)].kind = "dir"
       /\ \A n \in 0..Len(l[p]) : SubSeq(l[p], 1, n) \notin DOMAIN l

ASSUME MyCpAssumption ==
  /\ "part" \in Blocks
  /\ \A s \in Systems : IsTree(s.tree) /\ AreLinks(s.links, s.tree)
  /\ Commands \subseteq [origin : Paths, dest : Paths, slash : BOOLEAN]
  /\ PATH_MAX \in Nat /\ MaxFails \in Nat

VARIABLES
  fs,        (* the file system                                            *)
  was,       (* the one to begin with (history)                            *)
  links,     (* where the links lead; mycp makes none and removes none     *)
  arg,       (* argv: origin, dest, and whether dest ends with "/"         *)
  pc,        (* "main", "file" and "copy" (copy_file), "enter" and "dir"   *)
             (* (copy_dir), "done"                                         *)
  from, to,  (* arguments of the call being made, then of copy_file        *)
  pos,       (* blocks copy_file has read                                  *)
  stack,     (* calls of copy_dir, the innermost last                      *)
  told,      (* a message was printed (history)                            *)
  missed,    (* directories whose reading failed, and files whose copy     *)
             (* close() failed on: nothing is said of either (history)     *)
  rc,        (* exit status                                                *)
  fails      (* calls that have failed (for the bound)                     *)

vars == <<fs, was, links, arg, pc, from, to, pos, stack, told, missed, rc, fails>>

Init ==
  /\ \E s \in Systems : fs = s.tree /\ links = s.links
  /\ was = fs
  /\ arg \in Commands
  /\ pc = "main" /\ from = arg.origin /\ to = arg.dest /\ pos = 0 /\ stack = <<>>
  /\ told = FALSE /\ missed = {} /\ rc = 0 /\ fails = 0

-----------------------------------------------------------------------------
(* Where a path leads if the links are l: link by link from the left.      *)
Lead(l) ==
  LET place[p \in Paths] ==
        IF p = <<>> THEN <<>>
        ELSE LET q == Append(place[Parent(p)], p[Len(p)])
             IN  IF q \in DOMAIN l THEN l[q] ELSE q
  IN  place

Real(p) == Lead(links)[p]
IsLink(p) == p # <<>> /\ Append(Real(Parent(p)), p[Len(p)]) \in DOMAIN links

(* The names in the directory at a place of file system s. *)
Entries(s, place) == {x \in Names : Append(place, x) \in DOMAIN s \union DOMAIN links}

(* System calls. *)
There(p, kind) == Len(p) <= PATH_MAX /\ Real(p) \in DOMAIN fs /\ fs[Real(p)].kind = kind
StatFails(p)   == \A kind \in {"dir", "file", "special"} : ~There(p, kind)

(* A new entry can be made where p leads: by open() through a link, too,   *)
(* but not by mkdir().                                                     *)
Room(p) ==
  LET place == Real(p)
  IN  /\ Len(p) <= PATH_MAX /\ place \notin DOMAIN fs
      /\ Parent(place) \in DOMAIN fs /\ fs[Parent(place)].kind = "dir"
Vacant(p) == Room(p) /\ ~IsLink(p)
With(p, node) == [q \in DOMAIN fs \union {Real(p)} |-> IF q = Real(p) THEN node ELSE fs[q]]

(* open(to, O_WRONLY | O_CREAT | O_TRUNC) *)
Opens(p)  == There(p, "file") \/ There(p, "special") \/ Room(p)
Opened(p) == IF There(p, "special") THEN fs ELSE With(p, Node("file", <<>>))

Fault   == fails < MaxFails /\ fails' = fails + 1
NoFault == UNCHANGED fails

Say    == told' = TRUE /\ UNCHANGED missed
Silent == UNCHANGED <<told, missed>>
Misses(p) == missed' = missed \union {p} /\ UNCHANGED told
Args   == UNCHANGED <<was, links, arg>>

Exit(code) == pc' = "done" /\ rc' = code /\ UNCHANGED <<from, to, pos, stack>>

Call(place, a, b) ==
  /\ pc' = place /\ from' = a /\ to' = b /\ pos' = 0
  /\ UNCHANGED <<stack, rc>>

(* copy_file or copy_dir returns to the loop of copy_dir, or to main(). *)
Mut_Return(calls) ==
  /\ stack' = [k \in DOMAIN calls |-> [calls[k] EXCEPT !.seen = {}]]
  /\ pc' = IF calls = <<>> THEN "done" ELSE "dir"
  /\ UNCHANGED <<from, to, pos, rc>>

Return(calls) ==
  /\ stack' = calls /\ pc' = IF calls = <<>> THEN "done" ELSE "dir"
  /\ UNCHANGED <<from, to, pos, rc>>

-----------------------------------------------------------------------------
(* main()                                                                  *)

DestThere == ~StatFails(arg.dest) /\ (arg.slash => There(arg.dest, "dir"))
Inside    == Append(arg.dest, arg.origin[Len(arg.origin)])

Refuse == pc = "main" /\ Say /\ Exit(1) /\ NoFault /\ UNCHANGED fs /\ Args

NoOrigin    == StatFails(arg.origin) /\ Refuse
NotCopiable == There(arg.origin, "special") /\ Refuse
DirOnFile   == There(arg.origin, "dir") /\ DestThere /\ There(arg.dest, "file") /\ Refuse

FileToFile ==
  /\ pc = "main" /\ There(arg.origin, "file") /\ ~There(arg.dest, "dir")
  /\ DestThere \/ ~arg.slash
  /\ Call("file", arg.origin, arg.dest)
  /\ UNCHANGED fs /\ Silent /\ NoFault /\ Args

FileIntoDir ==
  /\ pc = "main" /\ There(arg.origin, "file") /\ There(arg.dest, "dir")
  /\ Call("file", arg.origin, Inside)
  /\ UNCHANGED fs /\ Silent /\ NoFault /\ Args

(* mkdir(dest): for a file if dest ends with "/", for a directory always. *)
Makes ==
  /\ pc = "main" /\ ~DestThere
  /\ There(arg.origin, "dir") \/ (There(arg.origin, "file") /\ arg.slash)

MakeDest ==
  /\ Makes /\ Vacant(arg.dest)
  /\ fs' = With(arg.dest, Dir)
  /\ IF There(arg.origin, "dir") THEN Call("enter", arg.origin, arg.dest)
     ELSE Call("file", arg.origin, Inside)
  /\ Silent /\ NoFault /\ Args

MakeFails ==
  /\ Makes
  /\ \/ Vacant(arg.dest) /\ Fault
     \/ ~Vacant(arg.dest) /\ NoFault
  /\ Say /\ Exit(1) /\ UNCHANGED fs /\ Args

DirToDir ==
  /\ pc = "main" /\ There(arg.origin, "dir") /\ DestThere /\ ~There(arg.dest, "file")
  /\ Call("enter", arg.origin, arg.dest)
  /\ UNCHANGED fs /\ Silent /\ NoFault /\ Args

Main ==
  \/ NoOrigin \/ NotCopiable \/ DirOnFile
  \/ FileToFile \/ FileIntoDir \/ MakeDest \/ MakeFails \/ DirToDir

-----------------------------------------------------------------------------
(* copy_file(from, to)                                                     *)

FileOpen ==
  /\ pc = "file" /\ Opens(to)
  /\ fs' = Opened(to)
  /\ pc' = "copy"
  /\ UNCHANGED <<from, to, pos, stack, rc>> /\ Silent /\ NoFault /\ Args

FileOpenFails ==
  /\ pc = "file"
  /\ \/ Opens(to) /\ Fault
     \/ ~Opens(to) /\ NoFault
  /\ Say /\ Return(stack) /\ UNCHANGED fs /\ Args

Block == fs[Real(from)].data[pos + 1]
More  == pos < Len(fs[Real(from)].data)
Mut_Written(b) == IF There(to, "file") THEN [fs EXCEPT ![Real(to)].data = <<b>>] ELSE fs
Written(b) == IF There(to, "file") THEN [fs EXCEPT ![Real(to)].data = Append(@, b)] ELSE fs

Copy ==
  /\ pc = "copy" /\ More
  /\ fs' = Written(Block) /\ pos' = pos + 1
  /\ UNCHANGED <<pc, from, to, stack, rc>> /\ Silent /\ NoFault /\ Args

(* read fails, or write takes nothing or only a part of the block. *)
CopyFails ==
  /\ pc = "copy" /\ Fault
  /\ \/ UNCHANGED fs
     \/ More /\ fs' = Written("part")
  /\ Say /\ Return(stack) /\ Args

CopyEnd ==
  /\ pc = "copy" /\ ~More
  /\ Return(stack) /\ UNCHANGED fs /\ Silent /\ NoFault /\ Args

(* close(to), whose result nobody looks at, could not save all of it. *)
Kept(n) == IF There(to, "file") THEN [fs EXCEPT ![Real(to)].data = SubSeq(@, 1, n)] ELSE fs

CloseFails ==
  /\ pc = "copy" /\ ~More /\ Fault
  /\ \E n \in 0..pos : fs' = Kept(n)
  /\ Return(stack) /\ Misses(from) /\ Args

-----------------------------------------------------------------------------
(* copy_dir(from, to)                                                      *)

(* opendir, and the directory to copy to.  entries are those that readdir  *)
(* has to return; others may come up if they are made meanwhile.           *)
Enter ==
  /\ pc = "enter" /\ There(from, "dir")
  /\ \/ ~StatFails(to) /\ UNCHANGED fs
     \/ StatFails(to) /\ Vacant(to) /\ fs' = With(to, Dir)
  /\ stack' = Append(stack, [from |-> from, to |-> to, seen |-> {},
                              entries |-> Entries(fs, Real(from))])
  /\ pc' = "dir"
  /\ UNCHANGED <<from, to, pos, rc>> /\ Silent /\ NoFault /\ Args

EnterFails ==
  /\ pc = "enter"
  /\ \/ Fault
     \/ StatFails(to) /\ ~Vacant(to) /\ NoFault
  /\ Say /\ Return(stack) /\ UNCHANGED fs /\ Args

Top == stack[Len(stack)]

OriginPath(x) == Append(Top.from, x)
Mut_DestPath(x) == Append(arg.dest, x)
DestPath(x) == Append(Top.to, x)

(* readdir returns entry x, and stat says what it is, or where it leads. *)
Entry(x) ==
  LET p == OriginPath(x) IN
  /\ pc = "dir" /\ x \in Entries(fs, Real(Top.from)) \ Top.seen /\ ~StatFails(p)
  /\ pc' = CASE There(p, "file") -> "file" [] There(p, "dir") -> "enter" [] OTHER -> "dir"
  /\ from' = p /\ to' = DestPath(x) /\ pos' = 0
  /\ stack' = [stack EXCEPT ![Len(stack)].seen = @ \union {x}]
  /\ UNCHANGED <<fs, rc>> /\ Silent /\ NoFault /\ Args

EntryGone(x) ==
  LET p == OriginPath(x) IN
  /\ pc = "dir" /\ x \in Entries(fs, Real(Top.from)) \ Top.seen
  /\ \/ StatFails(p) /\ NoFault
     \/ ~StatFails(p) /\ Fault
  /\ Say /\ Exit(1) /\ UNCHANGED fs /\ Args

Leave ==
  /\ pc = "dir" /\ Top.entries \subseteq Top.seen
  /\ Return(Parent(stack)) /\ UNCHANGED fs /\ Silent /\ NoFault /\ Args

(* readdir fails, which the loop takes for the end of the directory. *)
LeaveUnread ==
  /\ pc = "dir" /\ Fault
  /\ Return(Parent(stack)) /\ Misses(Top.from) /\ UNCHANGED fs /\ Args

Next ==
  \/ Main
  \/ FileOpen \/ FileOpenFails \/ Copy \/ CopyFails \/ CopyEnd \/ CloseFails
  \/ Enter \/ EnterFails \/ (\E x \in Names : Entry(x) \/ EntryGone(x))
  \/ Leave \/ LeaveUnread

Spec     == Init /\ [][Next]_vars
FairSpec == Spec /\ WF_vars(Next)

-----------------------------------------------------------------------------
(* Where the copy goes. *)
Target ==
  IF was[Real(arg.origin)].kind = "file" /\ (arg.slash \/ There(arg.dest, "dir")) THEN Inside
  ELSE arg.dest

Moved(p) == Target \o SubSeq(p, Len(arg.origin) + 1, Len(p))

(* The paths below the origin, and those that lead to something in s. *)
Below  == {arg.origin \o rest : rest \in UNION {[1..n -> Names] : n \in 0..PATH_MAX-Len(arg.origin)}}
Origin(s) == {p \in Below : Real(p) \in DOMAIN s}

(* Whatever fails, wherever the destination lies and wherever links lead,  *)
(* nothing is touched but the places to which the copy of something of the *)
(* origin leads, and the directory made for it: other files stay.          *)
OnlyCopiesChange ==
  /\ DOMAIN was \subseteq DOMAIN fs
  /\ \A place \in DOMAIN fs :
       place \notin DOMAIN was \/ fs[place] # was[place] =>
         \/ place = Real(arg.dest) /\ place \notin DOMAIN was
         \/ \E p \in Origin(fs) : place = Real(Moved(p))

(* Something of the origin would be copied to a place of the origin, or    *)
(* two things to one place.                                                *)
Overlap ==
  \E p \in Origin(was) :
    \/ \E q \in Below : Real(q) = Real(Moved(p))
    \/ \E q \in Origin(was) \ {p} : Real(Moved(q)) = Real(Moved(p))

(* There is nothing in p that copy_dir would copy. *)
Barren(p) ==
  \A q \in Origin(was) : q # <<>> /\ Parent(q) = p => was[Real(q)].kind = "special"

(* Its directory, or one above that, was not read to its end. *)
Unread(p) == \E q \in missed : q # p /\ Under(q, p)

(* If mycp ends without a message the exit status is 0, the origin is as   *)
(* it was, every file of it is there in the copy with the same blocks, and *)
(* every directory too; except where the two overlap, for what was written *)
(* to a device, for a directory with nothing to copy in it, which a file   *)
(* of its name may replace (copy_dir does not ask what it found), and for  *)
(* what the program misses without a word: the rest of a directory when    *)
(* readdir fails, and blocks of a file that are lost at its close.         *)
QuietMeansCopied ==
  pc = "done" /\ ~told =>
    /\ rc = 0
    /\ ~Overlap =>
         \A p \in Origin(was) :
           LET here == was[Real(p)] IN
           /\ Real(p) \in DOMAIN fs /\ fs[Real(p)] = here
           /\ here.kind = "file" /\ ~Unread(p) =>
                \/ There(Moved(p), "special")
                \/ There(Moved(p), "file") /\ (fs[Real(Moved(p))] = here \/ p \in missed)
           /\ here.kind = "dir" /\ ~Unread(p) =>
                There(Moved(p), "dir") \/ Barren(p) \/ p \in missed

(* mycp ends, even if it copies a directory into itself or a link leads    *)
(* back up: the paths grow too long.                                       *)
Ends == <>(pc = "done")
=============================================================================
