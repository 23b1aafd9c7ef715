-------------------------------- MODULE Vfs --------------------------------
(***************************************************************************)
(* The name space of the kernel: the ramfs tree (fs/ramfs.c), the dentry   *)
(* cache that holds working directories (fs/dcache.c), inode lifetimes     *)
(* (fs/inode.c) and the path system calls (fs/namei.c, fs/open.c).         *)
(*                                                                         *)
(* A file system call never sleeps and the kernel is not preempted, so on  *)
(* one CPU every call is one step.  getname_from_user_at turns every name  *)
(* into an absolute path without dots before anything is looked up: the    *)
(* calls take absolute paths.  kmalloc fails when a pool is exhausted; a   *)
(* kmalloc right after a kfree of the same size (rmdir and rename put a    *)
(* removed name back) cannot fail on one CPU.                              *)
(***************************************************************************)
EXTENDS Integers, Sequences, SequencesExt, FiniteSets, FiniteSetsExt

CONSTANTS
    Names,      \* file names
    Tasks,      \* user tasks
    MaxIno,     \* ramfs inodes besides the root
    MaxDentry,  \* cached dentries besides the root
    MaxFd,      \* NR_OPEN - 1
    MaxDepth,   \* components of a path
    Targets,    \* targets of symbolic links
    Nodes,      \* kinds of nodes made by mkdir and mknod
    MaxNlink,   \* bound: names of a file
    MaxExec     \* bound: successful execve calls

VARIABLES
    ino,   \* ino[i]: the inode at i, or NoInode
    dent,  \* dent[d]: the cached dentry at d, or NoDentry
    cwd,   \* cwd[t]: task_struct.cwd
    fds,   \* fds[t][fd]: the inode of the open file, or None
    execs  \* execs[i]: references execve took on the inode at i

vars == <<ino, dent, cwd, fds, execs>>

None == -1
Root == 0
Inodes == 0..MaxIno
Dentries == 0..MaxDentry
Fds == 0..MaxFd
Paths == UNION {[1..n -> Names] : n \in 0..MaxDepth}
Kinds == {"dir", "reg", "lnk", "chr"}

NoKids == [n \in Names |-> None]
NoTarget == [abs |-> FALSE, path |-> <<>>]
NoInode == [kind |-> "free", nlink |-> 0, count |-> 0, parent |-> None,
            kids |-> NoKids, target |-> NoTarget]
NoDentry == [parent |-> None, name |-> None, inode |-> None]

ASSUME VfsAssumption ==
    /\ {MaxIno, MaxDentry, MaxFd, MaxDepth, MaxNlink, MaxExec} \subseteq Nat
    /\ Nodes \subseteq {"dir", "chr"}
    /\ \A t \in Targets : t.abs \in BOOLEAN /\ t.path \in Paths

Live(i) == ino[i].kind # "free"
Cached(dc) == {d \in Dentries : dc[d] # NoDentry}

-----------------------------------------------------------------------------
(* fs/inode.c.  ns is the table of inodes.                                 *)

(* Mutant: the open files of an inode are not looked at.                   *)
inode_maybe_evict_open(ns, i) ==
    IF ns[i].nlink # 0 THEN ns ELSE [ns EXCEPT ![i] = NoInode]

(* ramfs_free_inode also frees what is below a directory; rmdir and rename *)
(* only get here with an empty one.                                        *)
inode_maybe_evict(ns, i) ==
    IF ns[i].count # 0 \/ ns[i].nlink # 0 THEN ns ELSE [ns EXCEPT ![i] = NoInode]

iget(ns, i) == [ns EXCEPT ![i].count = @ + 1]

iput(ns, i) ==
    IF ns[i].count = 0 THEN ns
    ELSE inode_maybe_evict([ns EXCEPT ![i].count = @ - 1], i)

drop_nlink(ns, i) ==
    inode_maybe_evict([ns EXCEPT ![i].nlink = IF @ > 0 THEN @ - 1 ELSE 0], i)

clear_nlink(ns, i) == inode_maybe_evict([ns EXCEPT ![i].nlink = 0], i)

-----------------------------------------------------------------------------
(* fs/ramfs.c.                                                             *)

ramfs_find_child(ns, dir, n) ==
    IF dir = None THEN None
    ELSE IF ns[dir].kind = "dir" THEN ns[dir].kids[n] ELSE None

ramfs_lookup(ns, p) ==
    LET at[k \in 0..Len(p)] ==
            IF k = 0 THEN Root ELSE ramfs_find_child(ns, at[k - 1], p[k])
    IN  at[Len(p)]

(* Only directories have a parent.                                         *)
ramfs_add_child(ns, dir, n, i) ==
    [ns EXCEPT ![dir].kids[n] = i,
               ![i].parent = IF ns[i].kind = "dir" THEN dir ELSE @]

ramfs_remove_child(ns, dir, n) == [ns EXCEPT ![dir].kids[n] = None]

FreeInodes(ns) == {i \in Inodes : ns[i] = NoInode}

(* ramfs_alloc_inode and ramfs_add_child of a new node.                    *)
ramfs_new(ns, dir, n, kind, target) ==
    LET i == Min(FreeInodes(ns))
    IN  ramfs_add_child(
            [ns EXCEPT ![i] = [NoInode EXCEPT
                !.kind = kind, !.nlink = IF kind = "dir" THEN 2 ELSE 1,
                !.target = target]],
            dir, n, i)

(* What mkdir, mknod, create and symlink require of the name.              *)
CanAdd(ns, dir, n) ==
    /\ ns[dir].kind = "dir"
    /\ ns[dir].kids[n] = None
    /\ FreeInodes(ns) # {}

(* dir and the directories its parent pointers lead to.                    *)
Ancestors(ns, dir) ==
    LET above(i) == IF i = None THEN None ELSE ns[i].parent
        up[k \in 0..MaxIno] == IF k = 0 THEN dir ELSE above(up[k - 1])
    IN  {up[k] : k \in 0..MaxIno} \ {None}

IsEmpty(ns, i) == ns[i].kids = NoKids

(* ramfs_inode_rename refuses: a missing source, a directory moved below   *)
(* itself, a directory and a file replacing each other, a full target.     *)
(* Mutant: a directory may move below itself.                              *)
RenameAllowed_below(ns, od, on, nd, nn) ==
    LET src == ns[od].kids[on]
        dst == ns[nd].kids[nn]
    IN  /\ src # None
        /\ dst # None /\ dst # src =>
              /\ ns[dst].kind = "dir" <=> ns[src].kind = "dir"
              /\ IsEmpty(ns, dst)

RenameAllowed(ns, od, on, nd, nn) ==
    LET src == ns[od].kids[on]
        dst == ns[nd].kids[nn]
    IN  /\ src # None
        /\ dst = src \/ ns[src].kind # "dir" \/ src \notin Ancestors(ns, nd)
        /\ dst # None /\ dst # src =>
              /\ ns[dst].kind = "dir" <=> ns[src].kind = "dir"
              /\ IsEmpty(ns, dst)

ramfs_inode_rename(ns, od, on, nd, nn) ==
    LET src == ns[od].kids[on]
        dst == ns[nd].kids[nn]
        cleared == IF dst = None THEN ns
                   ELSE LET rest == ramfs_remove_child(ns, nd, nn)
                        IN  IF ns[dst].kind = "dir" THEN clear_nlink(rest, dst)
                                                    ELSE drop_nlink(rest, dst)
    IN  IF dst = src THEN ns
        ELSE ramfs_add_child(ramfs_remove_child(cleared, od, on), nd, nn, src)

(* ramfs_inode_path: the name of a directory, built from parent pointers;  *)
(* there is none when a directory on the way is no longer in its parent.   *)
NamesOf(ns, dir, i) == {n \in Names : ns[dir].kids[n] = i}
ParentWalk(ns, i) ==
    LET step(s) ==
            LET up == ns[s.at].parent
            IN  IF s.at = Root \/ s.at = None \/ ~s.ok THEN s
                ELSE IF up = None \/ NamesOf(ns, up, s.at) = {} THEN [s EXCEPT !.ok = FALSE]
                ELSE [s EXCEPT !.at = up,
                               !.path = <<CHOOSE n \in NamesOf(ns, up, s.at) : TRUE>> \o @]
        walk[k \in 0..(MaxIno + 1)] ==
            IF k = 0 THEN [at |-> i, path |-> <<>>, ok |-> TRUE] ELSE step(walk[k - 1])
    IN  walk[MaxIno + 1]

ramfs_inode_path(ns, i) ==
    LET end == ParentWalk(ns, i)
    IN  [ok |-> end.ok /\ end.at = Root, path |-> end.path]

-----------------------------------------------------------------------------
(* vfs_lookup follows a symbolic link in the last place, eight times.      *)
MaxLinks == 8
Resolve(ns, i, p) ==
    LET to == ns[i].target
    IN  IF to.abs THEN to.path ELSE Front(p) \o to.path

vfs_lookup(ns, p) ==
    LET follow[k \in 0..MaxLinks, q \in Seq(Names)] ==
            LET i == ramfs_lookup(ns, q)
            IN  IF k = 0 \/ i = None THEN None
                ELSE IF ns[i].kind # "lnk" THEN i
                ELSE follow[k - 1, Resolve(ns, i, q)]
    IN  follow[MaxLinks, p]

-----------------------------------------------------------------------------
(* fs/dcache.c.  dc is the dentry cache.                                   *)

d_find_child(dc, d, n) == {x \in Cached(dc) : dc[x].parent = d /\ dc[x].name = n}
FreeDentries(dc) == Dentries \ Cached(dc)

(* The walk attaches a dentry to every node it meets, and keeps those it   *)
(* attached when it fails further on.                                      *)
d_lookup_path(ns, dc, p) ==
    LET step(w, n) ==
            LET found == d_find_child(w.dc, w.d, n)
                i == ramfs_find_child(ns, w.dc[w.d].inode, n)
                new == Min(FreeDentries(w.dc))
            IN  IF w.d = None THEN w
                ELSE IF found # {} THEN [w EXCEPT !.d = CHOOSE x \in found : TRUE]
                ELSE IF i = None \/ FreeDentries(w.dc) = {} THEN [w EXCEPT !.d = None]
                ELSE [dc |-> [w.dc EXCEPT ![new] =
                                 [parent |-> w.d, name |-> n, inode |-> i]],
                      d |-> new]
        walk[k \in 0..Len(p)] ==
            IF k = 0 THEN [dc |-> dc, d |-> Root] ELSE step(walk[k - 1], p[k])
    IN  walk[Len(p)]

d_drop(dc, d) == [dc EXCEPT ![d] = NoDentry]

cwd_fix(dc, d) == [t \in Tasks |-> IF cwd[t] = d THEN dc[d].parent ELSE cwd[t]]

(* Mutant: the dentry keeps its name.                                      *)
d_move_unnamed(dc, d, parent, n) == [dc EXCEPT ![d].parent = parent]
d_move(dc, d, parent, n) == [dc EXCEPT ![d].parent = parent, ![d].name = n]

dentry_path(dc, d) ==
    LET walk[k \in 0..MaxDentry] ==
            IF k = 0 THEN [at |-> d, path |-> <<>>]
            ELSE LET w == walk[k - 1]
                 IN  IF w.at = Root THEN w
                     ELSE [at |-> dc[w.at].parent, path |-> <<dc[w.at].name>> \o w.path]
    IN  walk[MaxDentry].path

-----------------------------------------------------------------------------
Init ==
    /\ ino = [i \in Inodes |-> IF i = Root THEN [NoInode EXCEPT !.kind = "dir", !.nlink = 2]
                                           ELSE NoInode]
    /\ dent = [d \in Dentries |-> IF d = Root THEN [NoDentry EXCEPT !.inode = Root]
                                              ELSE NoDentry]
    /\ cwd = [t \in Tasks |-> Root]
    /\ fds = [t \in Tasks |-> [fd \in Fds |-> None]]
    /\ execs = [i \in Inodes |-> 0]

(* do_mkdir and do_mknod.                                                  *)
do_mknod(p, kind) ==
    /\ p # <<>>
    /\ LET up == d_lookup_path(ino, dent, Front(p))
           it == d_lookup_path(ino, up.dc, p)
           dir == it.dc[up.d].inode
           d == Min(FreeDentries(it.dc))
       IN  IF up.d = None THEN dent' = up.dc /\ UNCHANGED ino
           ELSE IF it.d # None \/ FreeDentries(it.dc) = {} THEN dent' = it.dc /\ UNCHANGED ino
           ELSE IF ~CanAdd(ino, dir, Last(p)) THEN dent' = it.dc /\ UNCHANGED ino
           ELSE LET ns == ramfs_new(ino, dir, Last(p), kind, NoTarget)
                IN  /\ ino' = ns
                    /\ dent' = [it.dc EXCEPT ![d] =
                          [parent |-> up.d, name |-> Last(p), inode |-> ns[dir].kids[Last(p)]]]
    /\ UNCHANGED <<cwd, fds, execs>>

(* do_symlink: the new name gets no dentry.                                *)
do_symlink(p, target) ==
    /\ p # <<>>
    /\ vfs_lookup(ino, p) = None
    /\ LET up == d_lookup_path(ino, dent, Front(p))
           dir == up.dc[up.d].inode
       IN  /\ dent' = up.dc
           /\ ino' = IF up.d = None THEN ino
                     ELSE IF ~CanAdd(ino, dir, Last(p)) THEN ino
                     ELSE ramfs_new(ino, dir, Last(p), "lnk", target)
    /\ UNCHANGED <<cwd, fds, execs>>

(* Mutant: the new name is not counted.                                    *)
ramfs_inode_link_uncounted(ns, dir, n, i) == ramfs_add_child(ns, dir, n, i)
ramfs_inode_link(ns, dir, n, i) ==
    [ramfs_add_child(ns, dir, n, i) EXCEPT ![i].nlink = @ + 1]

do_link(p, q) ==
    LET old == vfs_lookup(ino, p)
    IN  /\ old # None /\ q # <<>>
        /\ ino[old].kind # "dir"
        /\ ino[old].nlink < MaxNlink
        /\ vfs_lookup(ino, q) = None
        /\ LET up == d_lookup_path(ino, dent, Front(q))
               dir == up.dc[up.d].inode
           IN  /\ dent' = up.dc
               /\ ino' = IF up.d = None THEN ino
                         ELSE IF ino[dir].kind # "dir" THEN ino
                         ELSE IF ino[dir].kids[Last(q)] # None THEN ino
                         ELSE iput(ramfs_inode_link(iget(ino, old), dir, Last(q), old), old)
        /\ UNCHANGED <<cwd, fds, execs>>

(* do_unlink holds the file the path leads to while it removes the name,   *)
(* which may be that of a symbolic link.                                   *)
do_unlink(p) ==
    LET at == vfs_lookup(ino, p)
        up == d_lookup_path(ino, dent, Front(p))
        dir == up.dc[up.d].inode
        victim == ramfs_lookup(ino, p)
        ns == drop_nlink(ramfs_remove_child(iget(ino, at), dir, Last(p)), victim)
        it == d_lookup_path(ns, up.dc, p)
    IN  /\ p # <<>>
        /\ IF up.d = None \/ at = None
           THEN dent' = up.dc /\ UNCHANGED <<ino, cwd>>
           ELSE IF ino[at].kind = "dir" THEN dent' = up.dc /\ UNCHANGED <<ino, cwd>>
           ELSE /\ ino' = iput(ns, at)
                /\ dent' = IF it.d = None THEN it.dc ELSE d_drop(it.dc, it.d)
                /\ cwd' = IF it.d = None THEN cwd ELSE cwd_fix(it.dc, it.d)
        /\ UNCHANGED <<fds, execs>>

RmdirAllowed(ns, i) == i # None /\ ns[i].kind = "dir" /\ IsEmpty(ns, i)

do_rmdir(p) ==
    LET it == d_lookup_path(ino, dent, p)
        dir == it.dc[it.dc[it.d].parent].inode
        i == ramfs_find_child(ino, dir, Last(p))
    IN  /\ p # <<>>
        /\ IF it.d = None THEN dent' = it.dc /\ UNCHANGED <<ino, cwd>>
           ELSE IF ~RmdirAllowed(ino, i) THEN dent' = it.dc /\ UNCHANGED <<ino, cwd>>
           ELSE /\ ino' = clear_nlink(ramfs_remove_child(ino, dir, Last(p)), i)
                /\ dent' = d_drop(it.dc, it.d)
                /\ cwd' = cwd_fix(it.dc, it.d)
        /\ UNCHANGED <<fds, execs>>

do_rename(p, q) ==
    LET up1 == d_lookup_path(ino, dent, Front(p))
        up2 == d_lookup_path(ino, up1.dc, Front(q))
        old == d_lookup_path(ino, up2.dc, p)
        new == d_lookup_path(ino, old.dc, q)
        dc == new.dc
        od == dc[up1.d].inode
        nd == dc[up2.d].inode
        Fail(kept) == dent' = kept /\ UNCHANGED <<ino, cwd>>
    IN  /\ p # <<>> /\ q # <<>>
        /\ IF up1.d = None THEN Fail(up1.dc)
           ELSE IF up2.d = None THEN Fail(up2.dc)
           ELSE IF old.d = None THEN Fail(old.dc)
           ELSE IF new.d # None /\ dc[new.d].inode = dc[old.d].inode THEN Fail(dc)
           ELSE IF ino[nd].kind # "dir" THEN Fail(dc)
           ELSE IF ~RenameAllowed(ino, od, Last(p), nd, Last(q)) THEN Fail(dc)
           ELSE /\ ino' = ramfs_inode_rename(ino, od, Last(p), nd, Last(q))
                /\ dent' = d_move(IF new.d = None THEN dc ELSE d_drop(dc, new.d),
                                  old.d, up2.d, Last(q))
                /\ cwd' = IF new.d = None THEN cwd ELSE cwd_fix(dc, new.d)
        /\ UNCHANGED <<fds, execs>>

-----------------------------------------------------------------------------
(* fs/open.c.                                                              *)

(* ramfs_create: the file O_CREAT makes, if the path leads to none.        *)
ramfs_create(p) ==
    LET dir == ramfs_lookup(ino, Front(p))
    IN  IF p = <<>> \/ vfs_lookup(ino, p) # None THEN ino
        ELSE IF dir = None THEN ino
        ELSE IF ~CanAdd(ino, dir, Last(p)) THEN ino
        ELSE ramfs_new(ino, dir, Last(p), "reg", NoTarget)

(* ksys_openat: chrdev_open may refuse a device, a directory is only read, *)
(* and fput drops the reference when the descriptor table is full.  The    *)
(* file O_CREAT made stays.                                                *)
ksys_openat(t, p, creat, wr) ==
    LET ns == IF creat THEN ramfs_create(p) ELSE ino
        i == vfs_lookup(ns, p)
        held == iget(ns, i)
        free == {fd \in Fds : fds[t][fd] = None}
    IN  /\ IF i = None THEN ino' = ns /\ UNCHANGED fds
           ELSE \/ /\ free # {} /\ ~(ns[i].kind = "dir" /\ wr)
                   /\ ino' = held
                   /\ fds' = [fds EXCEPT ![t][Min(free)] = i]
                \/ /\ free = {} \/ ns[i].kind = "chr" \/ (ns[i].kind = "dir" /\ wr)
                   /\ ino' = iput(held, i)
                   /\ UNCHANGED fds
        /\ UNCHANGED <<dent, cwd, execs>>

(* close_fd and fput of the last reference to the file.                    *)
close_fd(t, fd) ==
    /\ fds[t][fd] # None
    /\ ino' = iput(ino, fds[t][fd])
    /\ fds' = [fds EXCEPT ![t][fd] = None]
    /\ UNCHANGED <<dent, cwd, execs>>

ksys_chdir(t, p) ==
    LET it == d_lookup_path(ino, dent, p)
    IN  /\ dent' = it.dc
        /\ cwd' = IF it.d = None THEN cwd
                  ELSE IF ino[it.dc[it.d].inode].kind # "dir" THEN cwd
                  ELSE [cwd EXCEPT ![t] = it.d]
        /\ UNCHANGED <<ino, fds, execs>>

ksys_fchdir(t, fd) ==
    LET i == fds[t][fd]
        name == ramfs_inode_path(ino, i)
        it == d_lookup_path(ino, dent, name.path)
    IN  /\ i # None
        /\ ino[i].kind = "dir"
        /\ name.ok
        /\ dent' = it.dc
        /\ cwd' = IF it.d = None THEN cwd ELSE [cwd EXCEPT ![t] = it.d]
        /\ UNCHANGED <<ino, fds, execs>>

(* do_execve keeps the inode of a program it started: load_elf_binary does *)
(* not return, and the iput behind it is only reached after a failure.     *)
do_execve(p) ==
    LET i == vfs_lookup(ino, p)
    IN  /\ i # None
        /\ ino[i].kind = "reg"
        /\ execs[i] < MaxExec
        /\ ino' = iget(ino, i)
        /\ execs' = [execs EXCEPT ![i] = @ + 1]
        /\ UNCHANGED <<dent, cwd, fds>>

Next ==
    \/ \E p \in Paths, kind \in Nodes : do_mknod(p, kind)
    \/ \E p \in Paths, target \in Targets : do_symlink(p, target)
    \/ \E p, q \in Paths : do_link(p, q)
    \/ \E p \in Paths : do_unlink(p)
    \/ \E p \in Paths : do_rmdir(p)
    \/ \E p, q \in Paths : do_rename(p, q)
    \/ \E t \in Tasks, p \in Paths, creat, wr \in BOOLEAN : ksys_openat(t, p, creat, wr)
    \/ \E t \in Tasks, fd \in Fds : close_fd(t, fd)
    \/ \E t \in Tasks, p \in Paths : ksys_chdir(t, p)
    \/ \E t \in Tasks, fd \in Fds : ksys_fchdir(t, fd)
    \/ \E p \in Paths : do_execve(p)

Spec == Init /\ [][Next]_vars

-----------------------------------------------------------------------------
(* The state has its types: link counts and use counts stay natural, and   *)
(* every pointer is an inode, a dentry or nil.                             *)
TypeOK ==
    /\ ino \in [Inodes -> [kind : Kinds \cup {"free"}, nlink : Nat, count : Nat,
                           parent : Inodes \cup {None},
                           kids : [Names -> Inodes \cup {None}],
                           target : Targets \cup {NoTarget}]]
    /\ dent \in [Dentries -> [parent : Dentries \cup {None}, name : Names \cup {None},
                              inode : Inodes \cup {None}]]
    /\ cwd \in [Tasks -> Dentries]
    /\ fds \in [Tasks -> [Fds -> Inodes \cup {None}]]
    /\ execs \in [Inodes -> Nat]

(* The names of an inode: the places in the tree that lead to it.          *)
Places(i) == {x \in Inodes \X Names : ino[x[1]].kids[x[2]] = i}
Openers(i) == {x \in Tasks \X Fds : fds[x[1]][x[2]] = i}

(* nlink counts the names of a file (link, unlink, rename over it), and a  *)
(* directory has one name until rmdir or rename takes it away; i_count     *)
(* counts the open files and the programs execve started.  drop_nlink and  *)
(* iput free an inode on these two counts alone.                           *)
CountsExact ==
    \A i \in Inodes \ {Root} : Live(i) =>
        /\ ino[i].count = Cardinality(Openers(i)) + execs[i]
        /\ IF ino[i].kind = "dir"
           THEN ino[i].nlink = IF Places(i) = {} THEN 0 ELSE 2
           ELSE ino[i].nlink = Cardinality(Places(i))

(* inode_maybe_evict frees an inode exactly when the last name and the     *)
(* last holder are gone: no name, open file, cached dentry or working      *)
(* directory leads to a freed one, although dentries hold no count, and    *)
(* none without names and holders is kept.                                 *)
FreedOnLast ==
    /\ \A i \in Inodes : Live(i) => ino[i].nlink > 0 \/ ino[i].count > 0
    /\ \A i \in Inodes : ~Live(i) => Places(i) = {} /\ Openers(i) = {}
    /\ \A d \in Cached(dent) : Live(dent[d].inode)
    /\ \A t \in Tasks : cwd[t] \in Cached(dent)

(* The dentry cache never contradicts ramfs: what d_find_child finds under *)
(* a name is what ramfs_find_child would find, through every unlink,       *)
(* rmdir and rename, failed ones included.                                 *)
DcacheCoherent ==
    \A d \in Cached(dent) \ {Root} :
        /\ dent[d].parent \in Cached(dent)
        /\ d_find_child(dent, dent[d].parent, dent[d].name) = {d}
        /\ ramfs_find_child(ino, dent[dent[d].parent].inode, dent[d].name) = dent[d].inode

CwdNamed ==
    \A t \in Tasks : cwd[t] \in Cached(dent) /\
        LET i == dent[cwd[t]].inode
        IN  ino[i].kind = "dir" /\ ramfs_lookup(ino, dentry_path(dent, cwd[t])) = i

DirfdNamed ==
    \A t \in Tasks, fd \in Fds :
        LET i == fds[t][fd]
            name == ramfs_inode_path(ino, i)
        IN  i # None /\ ino[i].kind = "dir" =>
                IF name.ok THEN ramfs_lookup(ino, name.path) = i ELSE ino[i].nlink = 0

(* Directories form a tree: a directory in the tree has one name, in the   *)
(* directory its parent pointer gives, and the pointers lead to the root;  *)
(* ramfs_inode_rename must not move one below itself.  Names the kernel    *)
(* computes lead back: getcwd's to the working directory, the one openat   *)
(* and fchdir compute to the open directory, and a removed one has none.   *)
TreeShape ==
    /\ TypeOK
    /\ \A i \in Inodes \ {Root} : ino[i].kind = "dir" /\ Places(i) # {} =>
         /\ \E n \in Names : Places(i) = {<<ino[i].parent, n>>}
         /\ Root \in Ancestors(ino, i)
    /\ CwdNamed
    /\ DirfdNamed

(* "Unlinked open files stay until last fput" (README.md:245): and no      *)
(* longer.  execve takes a reference that nothing drops.                   *)
UnlinkedFreed == \A i \in Inodes : Live(i) /\ ino[i].nlink = 0 => Openers(i) # {}

(* The parent pointers that ramfs_inode_path follows from an open          *)
(* directory lead to directories that still exist.                         *)
ParentsLive ==
    \A i \in Inodes : ino[i].kind = "dir" => \A a \in Ancestors(ino, i) : Live(a)

=============================================================================
