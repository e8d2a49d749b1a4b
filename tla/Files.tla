------------------------------- MODULE Files --------------------------------
(***************************************************************************)
(* Path names, directories, open files and the system calls on them:       *)
(* filesys/filesys.c, directory.c, file.c, the open counts of inode.c, the *)
(* descriptor tables of threads/thread.c and the calls of                  *)
(* userprog/syscall.c.                                                     *)
(*                                                                         *)
(* A struct dir or file is [node, pos, deny]: the two have one layout, and *)
(* the code mixes them up where it does not look.  A call is the walk of   *)
(* filesys_parse(), then the part under the directory's lock; remove(),    *)
(* which looks at a second directory in that part, is split further.  A    *)
(* struct inode that is freed while somebody refers to it is the end of    *)
(* what the model says (Dangling).  Bytes are counted, not kept.           *)
(***************************************************************************)
EXTENDS Integers, FiniteSets, Sequences, SequencesExt

CONSTANTS
  Proc, Sector,
  Path,         \* paths: [abs, toks, slash]
  Self,         \* [Proc -> the name of the process's executable]
  MAX_FILE_CNT,
  MaxLen,       \* bound: length of a file
  MaxCalls      \* bound: system calls made

ROOT == 1       \* ROOT_DIR_SECTOR
NULL == 0
Garbage == "?"  \* what a dead stack frame may hold instead of a name
Fd == 3 .. MAX_FILE_CNT - 1
NoFile == [node |-> NULL, pos |-> 0, deny |-> FALSE]
TooLong == "long"       \* stands for a name of more than NAME_MAX characters
Empty == [abs |-> FALSE, toks |-> <<>>, slash |-> FALSE]
Idle == [op |-> "none", dir |-> NULL, name |-> "", slash |-> FALSE, own |-> FALSE,
         sector |-> NULL, is_dir |-> FALSE, ok |-> FALSE, stage |-> "user"]

VARIABLES
  fs,         \* [dirs, parent, len, free]: on disk; [nodes]: open_inodes
  file_list,  \* [Proc -> [Fd -> struct dir or file]]
  is_dir_list, cur_dir,
  call,       \* [Proc -> the call in progress]
  calls,      \* number of calls made
  panicked,
  doubled,    \* history: inodes closed once more than they were opened
  dropped,    \* history: [Sector -> files opened that got no descriptor]
  strayed     \* history: processes whose current directory is, or is in, a file
vars == <<fs, file_list, is_dir_list, cur_dir, call, calls, panicked, doubled,
          dropped, strayed>>

NoNode == [cnt |-> 0, removed |-> FALSE, deny |-> 0]

\* filesys_init(TRUE) and do_format(): an empty root directory.
Init ==
  /\ fs = [dirs   |-> [s \in Sector |-> <<>>], parent |-> [s \in Sector |-> ROOT],
           len    |-> [s \in Sector |-> 0],    free   |-> Sector \ {ROOT},
           nodes  |-> [s \in Sector |-> NoNode]]
  /\ file_list = [p \in Proc |-> [fd \in Fd |-> NoFile]]
  /\ is_dir_list = [p \in Proc |-> [fd \in Fd |-> FALSE]]
  /\ cur_dir = [p \in Proc |-> ROOT]
  /\ call = [p \in Proc |-> Idle]
  /\ calls = 0
  /\ panicked = FALSE /\ doubled = {} /\ dropped = [s \in Sector |-> 0]
  /\ strayed = {}

----------------------------------------------------------------------------
(* In-memory inodes: inode_open() finds the struct of the sector or makes  *)
(* one, inode_close() ignores NULL, and a struct that was freed before it  *)
(* has been allocated again.                                               *)

\* Mutant: an inode that is in use already is set up again.
inode_open_Fresh(f, s) == [f EXCEPT !.nodes[s] = [NoNode EXCEPT !.cnt = 1]]

inode_open(f, s) == [f EXCEPT !.nodes[s].cnt = @ + 1]

inode_close(f, s) ==
  IF s = NULL \/ f.nodes[s].cnt = 0 THEN f
  ELSE IF f.nodes[s].cnt > 1 THEN [f EXCEPT !.nodes[s].cnt = @ - 1]
  ELSE [f EXCEPT !.nodes[s] = NoNode,
                 !.free = IF f.nodes[s].removed THEN @ \cup {s} ELSE @]

inode_is_used(f, s) == f.nodes[s].cnt > 1
inode_remove(f, s) == [f EXCEPT !.nodes[s].removed = TRUE]
inode_deny_write(f, s) == [f EXCEPT !.nodes[s].deny = @ + 1]
inode_allow_write(f, s) == [f EXCEPT !.nodes[s].deny = @ - 1]
inode_get_parent(f, s) == f.parent[s]
inode_set_parent(f, s, d) == [f EXCEPT !.parent[s] = d]

\* Their assertions: nobody denies twice, or allows what was not denied.
deny_asserted(f, s) == f.nodes[s].deny <= f.nodes[s].cnt
allow_asserted(f, s) == f.nodes[s].deny > 0 /\ deny_asserted(f, s)

----------------------------------------------------------------------------
(* Directories.                                                            *)

InUse(f, d) == {i \in DOMAIN f.dirs[d] : f.dirs[d][i].in_use}
First(S) == IF S = {} THEN 0 ELSE CHOOSE i \in S : \A j \in S : i <= j

\* The slot of the entry with the name, and of the one for the inode; or 0.
lookup(f, d, n) == First({i \in InUse(f, d) : f.dirs[d][i].name = n})
SlotOf(f, d, s) == First({i \in InUse(f, d) : f.dirs[d][i].sector = s})

dir_lookup(f, d, n) ==
  IF lookup(f, d, n) = 0 THEN NULL ELSE f.dirs[d][lookup(f, d, n)].sector

dir_get_entry_name(f, d, s) == f.dirs[d][SlotOf(f, d, s)].name
dir_entry_is_dir(f, d, s) == f.dirs[d][SlotOf(f, d, s)].is_dir
dir_entry_set_dir(f, d, s) == [f EXCEPT !.dirs[d][SlotOf(f, d, s)].is_dir = TRUE]
dir_entry_clear_dir(f, d, s) == [f EXCEPT !.dirs[d][SlotOf(f, d, s)].is_dir = FALSE]

\* dir_add() of a name that is not there yet: the first free slot, or a new
\* one, and the parent of the new inode.
dir_add(f, d, n, s) ==
  LET unused == First(DOMAIN f.dirs[d] \ InUse(f, d))
      e == [name |-> n, sector |-> s, is_dir |-> FALSE, in_use |-> TRUE]
      g == [f EXCEPT !.dirs[d] = IF unused = 0 THEN Append(@, e)
                                 ELSE [@ EXCEPT ![unused] = e]]
  IN  inode_set_parent(g, s, d)

\* dir_remove(): the entry, and the inode once nobody has it open.
dir_remove(f, d, n) ==
  LET s == dir_lookup(f, d, n)
      g == [inode_open(f, s) EXCEPT !.dirs[d][lookup(f, d, n)].in_use = FALSE]
  IN  inode_close(inode_remove(g, s), s)

\* dir_readdir(): the position after the next entry in use, or 0.
dir_readdir(f, d, pos) == First({i \in InUse(f, d) : i > pos})

----------------------------------------------------------------------------
(* filesys_parse().  The walk keeps dir open and name not yet looked up.   *)

\* Whoever leaves a directory closes its inode, and dir_close() does so again.
leave(w, d) ==
  LET g == inode_close(w.fs, d) IN
  [w EXCEPT !.fs = inode_close(g, d),
            !.doubled = IF g.nodes[d].cnt > 0 THEN @ \cup {d} ELSE @]

\* The name of directory s in its parent d is left in a dead stack frame.
named(w, d, s, intact) ==
  IF SlotOf(w.fs, d, s) = 0 THEN [w EXCEPT !.panic = TRUE]
  ELSE [w EXCEPT !.name = IF intact THEN dir_get_entry_name(w.fs, d, s) ELSE Garbage]

fail(w) == [leave(w, w.dir) EXCEPT !.ok = FALSE, !.dir = NULL]

dot_dot(w, intact) ==
  LET up == inode_get_parent(w.fs, w.dir)
      v  == [w EXCEPT !.fs = inode_open(@, up), !.dir = up]
  IN  leave(IF w.dir = ROOT THEN [v EXCEPT !.name = ""] ELSE named(v, up, w.dir, intact),
            w.dir)

step(w, tok, intact) ==
  LET s == dir_lookup(w.fs, w.dir, w.name) IN
  IF ~ w.ok \/ w.panic THEN w
  ELSE IF tok = TooLong THEN fail(w)
  ELSE IF tok = ".." THEN dot_dot(w, intact)
  ELSE IF tok = "." THEN w
  ELSE IF w.name = "" THEN [w EXCEPT !.name = tok]
  ELSE IF s = NULL THEN fail(w)
  ELSE leave([w EXCEPT !.fs = inode_open(@, s), !.dir = s, !.name = tok], w.dir)

filesys_parse(p, path, intact) ==
  LET start == IF path.abs THEN ROOT ELSE cur_dir[p]
      up == inode_get_parent(fs, start)
      w  == [fs |-> inode_open(fs, up), dir |-> up, name |-> "", ok |-> TRUE,
             panic |-> FALSE, doubled |-> doubled]
      w0 == IF start = ROOT THEN w ELSE named(w, up, start, intact)
  IN  IF path = Empty
        THEN [w EXCEPT !.fs = fs, !.ok = FALSE, !.dir = NULL]
        ELSE FoldLeft(LAMBDA v, tok : step(v, tok, intact), w0, path.toks)

----------------------------------------------------------------------------
(* The system calls that take a path.                                      *)

\* What paths from the root lead to, going through entries in K.
Reach(K(_)) ==
  LET Below(d) == {fs.dirs[d][i].sector : i \in {j \in InUse(fs, d) : K(fs.dirs[d][j])}}
      In[n \in Nat] == IF n = 0 THEN {ROOT} ELSE In[n - 1] \cup UNION {Below(d) : d \in In[n - 1]}
  IN  In[Cardinality(Sector) - 1]
Reachable == Reach(LAMBDA e : TRUE)
Tree == Reach(LAMBDA e : e.is_dir)

\* Those who refer to the in-memory inode of s: descriptors, and calls.
Holders(s) ==
  {x \in Proc \X Fd : file_list[x[1]][x[2]].node = s}
  \cup {<<p, 0>> : p \in {q \in Proc : call[q].dir = s}}
  \cup {<<p, 1>> : p \in {q \in Proc : call[q].stage \in {"checked", "unlocked"}
                                            /\ call[q].sector = s /\ ~ call[q].is_dir}}

\* A freed inode has somebody who will use it.
Dangling == \E s \in Sector : fs.nodes[s].cnt = 0 /\ Holders(s) # {}

At(p, stage) == call[p].stage = stage /\ ~ panicked /\ ~ Dangling
Return(p) == call' = [call EXCEPT ![p] = Idle]

\* The lock of directory d is held between remove_check and remove_commit.
dir_lock_free(p, d) == \A q \in Proc \ {p} : call[q].stage = "checked" => call[q].dir # d

\* lock_release() after dir_close() freed the lock along with the inode.
lock_freed(f, d) == d # NULL /\ f.nodes[d].cnt = 1 /\ f.nodes[d].removed

\* The call of filesys_parse(), and for create and mkdir free_map_allocate()
\* and inode_create(): an inode of its own, without entries.  Of what the walk
\* found, call keeps what the rest of op looks at.
walk(p, op, path) ==
  /\ At(p, "user") /\ calls < MaxCalls
  /\ \E intact \in BOOLEAN : \E w \in {filesys_parse(p, path, intact)} :
       LET new == /\ op \in {"create", "mkdir"} /\ w.ok /\ w.name # ""
                  /\ op = "create" => ~ path.slash
           s == IF new /\ w.fs.free # {} THEN First(w.fs.free) ELSE NULL
           ok == IF op \in {"create", "mkdir"} THEN s # NULL ELSE w.ok
       IN
       /\ fs' = IF s = NULL THEN w.fs
                ELSE [w.fs EXCEPT !.free = @ \ {s}, !.dirs[s] = <<>>, !.len[s] = 0,
                                  !.parent[s] = ROOT]
       /\ call' = [call EXCEPT ![p] =
            [op |-> op, dir |-> w.dir, name |-> IF ok THEN w.name ELSE "",
             slash |-> op \in {"open", "remove"} /\ ok /\ path.slash,
             own |-> op = "open" /\ ok /\ path = [Empty EXCEPT !.toks = <<Self[p]>>],
             sector |-> s, is_dir |-> FALSE, ok |-> ok, stage |-> "locked"]]
       /\ doubled' = w.doubled
       /\ panicked' \in IF op = "chdir" /\ path = Empty THEN BOOLEAN ELSE {w.panic}
  /\ calls' = calls + 1
  /\ UNCHANGED <<file_list, is_dir_list, cur_dir, dropped, strayed>>

\* What filesys_create() and mkdir() do under the lock; the name may have been
\* taken meanwhile.
add_entry(p, op) ==
  LET c == call[p] IN
  /\ At(p, "locked") /\ c.op = op /\ dir_lock_free(p, c.dir)
  /\ \E g \in {IF c.ok /\ lookup(fs, c.dir, c.name) = 0 /\ fs.nodes[c.dir].deny = 0
                 THEN LET f == dir_add(fs, c.dir, c.name, c.sector) IN
                      IF op = "mkdir" THEN dir_entry_set_dir(f, c.dir, c.sector)
                      ELSE dir_entry_clear_dir(f, c.dir, c.sector)
                 ELSE [fs EXCEPT !.free = @ \cup ({c.sector} \ {NULL})]} :
       /\ fs' = inode_close(g, c.dir)
       /\ panicked' = lock_freed(g, c.dir)
  /\ Return(p)
  /\ UNCHANGED <<file_list, is_dir_list, cur_dir, calls, doubled, dropped, strayed>>

create(p) == add_entry(p, "create")
mkdir(p) == add_entry(p, "mkdir")

\* thread_push_file(), thread_fd_set_dir() or thread_fd_clear_dir().
thread_push_file(p, file, is_dir) ==
  LET fd == First({i \in Fd : file_list[p][i].node = NULL}) IN
  IF fd = 0
    THEN /\ dropped' = [dropped EXCEPT ![file.node] = @ + 1]
         /\ UNCHANGED <<file_list, is_dir_list>>
    ELSE /\ file_list' = [file_list EXCEPT ![p][fd] = file]
         /\ is_dir_list' = [is_dir_list EXCEPT ![p][fd] = is_dir]
         /\ UNCHANGED dropped

file_open(s) == [NoFile EXCEPT !.node = s]
file_deny_write(file) == [file EXCEPT !.deny = TRUE]

\* open() of a path that names no entry: filesys_open_with_is_dir() returns
\* the struct dir and leaves *is_dir as it was, uninitialized.
open_dir(p) ==
  /\ At(p, "locked") /\ call[p].op = "open" /\ call[p].ok /\ call[p].name = ""
  /\ \E is_dir, junk \in BOOLEAN :
       thread_push_file(p, [file_open(call[p].dir) EXCEPT !.deny = junk], is_dir)
  /\ Return(p)
  /\ UNCHANGED <<fs, cur_dir, calls, panicked, doubled, strayed>>

\* open() of an entry, and the failing open().
open(p) ==
  LET c == call[p]
      s == IF c.ok THEN dir_lookup(fs, c.dir, c.name) ELSE NULL
      is_dir == s # NULL /\ dir_entry_is_dir(fs, c.dir, s)
      deny == c.own /\ ~ is_dir
      g == IF s = NULL THEN fs ELSE inode_open(fs, s)
      h == inode_close(g, c.dir)
  IN
  /\ At(p, "locked") /\ c.op = "open" /\ (c.ok => c.name # "")
  /\ dir_lock_free(p, c.dir)
  /\ IF s = NULL \/ (~ is_dir /\ c.slash)
       THEN /\ fs' = inode_close(h, s)
            /\ panicked' = lock_freed(g, c.dir)
            /\ UNCHANGED <<file_list, is_dir_list, dropped>>
       ELSE /\ thread_push_file(p, IF deny THEN file_deny_write(file_open(s))
                                    ELSE file_open(s), is_dir)
            /\ fs' = IF deny THEN inode_deny_write(h, s) ELSE h
            /\ panicked' = (lock_freed(g, c.dir) \/ ~ deny_asserted(fs', s))
  /\ Return(p)
  /\ UNCHANGED <<cur_dir, calls, doubled, strayed>>

\* The rest of chdir(): nobody asks whether it is a directory.
chdir(p) ==
  LET c == call[p]
      s == IF ~ c.ok THEN NULL ELSE IF c.name = "" THEN ROOT
           ELSE dir_lookup(fs, c.dir, c.name)
  IN
  /\ At(p, "locked") /\ c.op = "chdir" /\ dir_lock_free(p, c.dir)
  /\ cur_dir' = IF s = NULL THEN cur_dir ELSE [cur_dir EXCEPT ![p] = s]
  /\ strayed' = IF s = NULL THEN strayed ELSE IF s \in Tree THEN strayed \ {p}
                ELSE strayed \cup {p}
  /\ fs' = inode_close(fs, c.dir)
  /\ panicked' = lock_freed(fs, c.dir)
  /\ Return(p)
  /\ UNCHANGED <<file_list, is_dir_list, calls, doubled, dropped>>

thread_on_dir(s) == \E p \in Proc : call[p].stage # "exited" /\ cur_dir[p] = s

\* Mutant: the current directories of the processes are not looked at.
removable_NoCwd(f, s) == dir_readdir(f, s, 0) = 0 /\ ~ inode_is_used(f, s)

\* What filesys_remove() asks of a directory, whose inode it has opened.
removable(f, s) ==
  dir_readdir(f, s, 0) = 0 /\ ~ inode_is_used(f, s) /\ ~ thread_on_dir(s)

\* filesys_remove() up to dir_remove(): the victim is opened; if it is a
\* directory it is also closed again, by the dir_close() of temp.
remove_check(p) ==
  LET c == call[p]
      s == IF c.ok /\ c.name # "" THEN dir_lookup(fs, c.dir, c.name) ELSE NULL
      is_dir == s # NULL /\ dir_entry_is_dir(fs, c.dir, s)
      g == IF s = NULL THEN fs ELSE inode_open(fs, s)
  IN
  /\ At(p, "locked") /\ c.op = "remove"
  /\ dir_lock_free(p, c.dir) /\ (is_dir => dir_lock_free(p, s))
  /\ fs' = IF is_dir THEN inode_close(g, s) ELSE g
  /\ call' = [call EXCEPT ![p].sector = s, ![p].is_dir = is_dir, ![p].stage = "checked",
       ![p].ok = s # NULL /\ IF is_dir THEN removable(g, s) ELSE ~ c.slash]
  /\ UNCHANGED <<file_list, is_dir_list, cur_dir, calls, panicked, doubled, dropped, strayed>>

\* dir_remove(), which must succeed, and lock_release().
remove_commit(p) ==
  LET c == call[p] IN
  /\ At(p, "checked")
  /\ fs' = IF c.ok THEN dir_remove(fs, c.dir, c.name) ELSE fs
  /\ panicked' = (c.ok /\ fs.nodes[c.dir].deny > 0)
  /\ call' = [call EXCEPT ![p].stage = "unlocked"]
  /\ UNCHANGED <<file_list, is_dir_list, cur_dir, calls, doubled, dropped, strayed>>

\* The closes at the end.  That of a directory is one too many: it hits the
\* inode of somebody else, or one that was freed, or the inode that has been
\* put in its place since.
remove_end(p) ==
  LET c == call[p]
      Open == {s \in Sector : fs.nodes[s].cnt > 0}
  IN
  /\ At(p, "unlocked")
  /\ \E v \in IF c.is_dir /\ c.sector \notin Open THEN {NULL} \cup Open ELSE {c.sector} :
       /\ fs' = inode_close(inode_close(fs, v), c.dir)
       /\ doubled' = IF c.is_dir THEN doubled \cup ({v} \ {NULL}) ELSE doubled
  /\ Return(p)
  /\ UNCHANGED <<file_list, is_dir_list, cur_dir, calls, panicked, dropped, strayed>>

----------------------------------------------------------------------------
(* The system calls that take a descriptor.                                *)

thread_get_file(p, fd) == file_list[p][fd]
thread_fd_is_dir(p, fd) == is_dir_list[p][fd]
thread_remove_file(p, fd) == file_list' = [file_list EXCEPT ![p][fd] = NoFile]

\* dir_close() or file_close() of descriptor fd.
denies(p, fd) == thread_get_file(p, fd).deny /\ ~ thread_fd_is_dir(p, fd)
may_close(p, f, fd) == denies(p, fd) => allow_asserted(f, thread_get_file(p, fd).node)

file_close(p, f, fd) ==
  LET s == thread_get_file(p, fd).node IN
  IF s = NULL THEN f ELSE inode_close(IF denies(p, fd) THEN inode_allow_write(f, s) ELSE f, s)

\* thread_exit() and the part of process_exit() that closes the files.
process_exit(p) ==
  /\ \E r \in {FoldLeft(LAMBDA a, fd : IF ~ a.ok \/ ~ may_close(p, a.fs, fd)
                                         THEN [a EXCEPT !.ok = FALSE]
                                         ELSE [a EXCEPT !.fs = file_close(p, @, fd)],
                         [fs |-> fs, ok |-> TRUE], [i \in 1 .. MAX_FILE_CNT - 3 |-> i + 2])} :
       fs' = r.fs /\ panicked' = ~ r.ok
  /\ file_list' = [file_list EXCEPT ![p] = [fd \in Fd |-> NoFile]]
  /\ call' = [call EXCEPT ![p].stage = "exited"]
  /\ UNCHANGED <<is_dir_list, cur_dir, doubled, dropped, strayed>>

\* A call of p on descriptor fd; outside the table it ends the process.
FdCall(p) ==
  At(p, "user") /\ calls < MaxCalls /\ calls' = calls + 1

exit(p) == FdCall(p) /\ process_exit(p)

close(p, fd) ==
  /\ FdCall(p)
  /\ IF fd \notin Fd THEN process_exit(p)
     ELSE /\ fs' = file_close(p, fs, fd)
          /\ panicked' = ~ may_close(p, fs, fd)
          /\ thread_remove_file(p, fd)
          /\ UNCHANGED <<is_dir_list, cur_dir, call, doubled, dropped, strayed>>

\* The bytes that inode_read_at() and inode_write_at() move: here none or one.
file_read(file) == IF file.pos < fs.len[file.node] THEN 1 ELSE 0
file_write(file) == IF fs.nodes[file.node].deny > 0 THEN 0 ELSE 1

\* read() and write(); no descriptor and a directory end the process (the
\* former by a fault on the null pointer).
IsFile(p, fd) ==
  fd \in Fd /\ ~ thread_fd_is_dir(p, fd) /\ thread_get_file(p, fd).node # NULL

Advance(p, fd, n) ==
  /\ thread_get_file(p, fd).pos + n <= MaxLen
  /\ file_list' = [file_list EXCEPT ![p][fd].pos = @ + n]
  /\ UNCHANGED <<is_dir_list, cur_dir, call, panicked, doubled, dropped, strayed>>

read(p, fd) ==
  /\ FdCall(p)
  /\ IF ~ IsFile(p, fd) THEN process_exit(p)
     ELSE Advance(p, fd, file_read(thread_get_file(p, fd))) /\ UNCHANGED fs

write(p, fd) ==
  /\ FdCall(p)
  /\ IF ~ IsFile(p, fd) THEN process_exit(p)
     ELSE LET file == thread_get_file(p, fd)
              end  == file.pos + file_write(file)
          IN  /\ Advance(p, fd, file_write(file))
              /\ fs' = [fs EXCEPT !.len[file.node] = IF end > @ THEN end ELSE @]

\* seek(), tell() and filesize() end the process for a descriptor outside the
\* table, and assert that what it leads to is a file.
file_seek(file, pos) == [file EXCEPT !.pos = pos]

seek(p, fd, pos) ==
  /\ FdCall(p)
  /\ IF fd \notin Fd THEN process_exit(p)
     ELSE /\ panicked' = ~ IsFile(p, fd)
          /\ file_list' = [file_list EXCEPT ![p][fd] = IF IsFile(p, fd) THEN file_seek(@, pos)
                                                       ELSE @]
          /\ UNCHANGED <<fs, is_dir_list, cur_dir, call, doubled, dropped, strayed>>

tell(p, fd) ==
  /\ FdCall(p)
  /\ IF fd \notin Fd THEN process_exit(p)
     ELSE /\ panicked' = ~ IsFile(p, fd)
          /\ UNCHANGED <<fs, file_list, is_dir_list, cur_dir, call, doubled, dropped, strayed>>

filesize(p, fd) == tell(p, fd)

readdir(p, fd) ==
  LET dir == thread_get_file(p, fd)
      i == dir_readdir(fs, dir.node, dir.pos)
  IN
  /\ FdCall(p) /\ thread_fd_is_dir(p, fd)
  /\ IF dir.node = NULL THEN process_exit(p)
     ELSE /\ dir_lock_free(p, dir.node)
          /\ file_list' = [file_list EXCEPT ![p][fd].pos =
                             IF i = 0 THEN Len(fs.dirs[dir.node]) ELSE i]
          /\ UNCHANGED <<fs, is_dir_list, cur_dir, call, panicked, doubled, dropped, strayed>>

\* inumber() and isdir() assert that there is something.
inumber(p, fd) ==
  /\ FdCall(p)
  /\ panicked' = (thread_get_file(p, fd).node = NULL)
  /\ UNCHANGED <<fs, file_list, is_dir_list, cur_dir, call, doubled, dropped, strayed>>

isdir(p, fd) == inumber(p, fd)

Next ==
  \E p \in Proc :
    \/ \E path \in Path, op \in {"create", "mkdir", "open", "chdir", "remove"} :
          walk(p, op, path)
    \/ create(p) \/ mkdir(p) \/ open_dir(p) \/ open(p) \/ chdir(p)
    \/ remove_check(p) \/ remove_commit(p) \/ remove_end(p)
    \/ exit(p)
    \/ \E fd \in Fd \cup {MAX_FILE_CNT} :
          \/ close(p, fd)
          \/ read(p, fd) \/ write(p, fd) \/ tell(p, fd) \/ filesize(p, fd)
          \/ \E pos \in 0 .. MaxLen : seek(p, fd, pos)
    \/ \E fd \in Fd : readdir(p, fd) \/ inumber(p, fd) \/ isdir(p, fd)

Spec == Init /\ [][Next]_vars

----------------------------------------------------------------------------
(* Properties.                                                             *)

\* Whatever processes create, remove and walk through at once, every entry
\* that a path can reach leads to an inode that is allocated and has the
\* directory for its parent, so that ".." leads back and no inode is in two
\* places; no name is twice in a directory, and no process stands in a
\* directory that was removed, unless it went to a file.
TreeIsSound ==
  /\ \A d \in Reachable :
       /\ d \notin fs.free
       /\ \A i, j \in InUse(fs, d) :
            /\ fs.parent[fs.dirs[d][i].sector] = d
            /\ i # j => /\ fs.dirs[d][i].sector # fs.dirs[d][j].sector
                        /\ fs.dirs[d][i].name # fs.dirs[d][j].name
  /\ \A p \in Proc \ strayed : call[p].stage # "exited" => cur_dir[p] \in Tree

\* An open file outlives its name: unless its inode was closed too often, the
\* count of its openers is right, and as long as there is one the sector of
\* the inode is not given to another file.
HeldInodesStay ==
  ~ panicked => \A s \in Sector \ doubled :
    /\ fs.nodes[s].cnt = Cardinality(Holders(s)) + dropped[s]
    /\ fs.nodes[s].cnt > 0 => s \notin fs.free
====
