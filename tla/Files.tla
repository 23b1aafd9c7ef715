------------------------------- MODULE Files --------------------------------
(***************************************************************************)
(* Descriptor tables, open files and the bytes of one regular file:        *)
(* fs/open.c, fs/read_write.c, pipe2 and the data part of fs/ramfs.c.      *)
(* Programs start with their standard streams closed.  None of the calls   *)
(* sleeps, so on one CPU each is one step.  What happens to names and      *)
(* inode counts is in Vfs, to the bytes in a pipe in Pipe.                 *)
(***************************************************************************)
EXTENDS Integers, Sequences, FiniteSets, FiniteSetsExt, SequencesExt

CONSTANTS
    Tasks,
    NR_OPEN,        \* descriptors of a task
    MaxFiles,       \* bound: struct files
    PAGE_SIZE,      \* the first capacity of a file
    KBUF,           \* sizeof(kbuf) of vfs_read, vfs_write and sendfile
    MaxSize,        \* the largest loff_t; no buffer of more bytes is ever had
    Bufs,           \* what programs write: byte sequences, one of them empty
    Iovs,           \* and with writev: sequences of byte sequences
    Counts,         \* the lengths they read or send
    Seeks,          \* the distances they seek
    Junk, Hole      \* a byte nobody wrote

Fds == 0 .. NR_OPEN - 1
Files == 1 .. MaxFiles
NULL == 0

ASSUME FilesAssumption ==
    /\ NR_OPEN \in Nat \ {0} /\ MaxFiles \in Nat \ {0}
    /\ PAGE_SIZE \in Nat \ {0} /\ KBUF \in Nat \ {0} /\ MaxSize \in Nat
    /\ Counts \subseteq Nat /\ Seeks \subseteq Int

VARIABLES
    alive,      \* the tasks that exist
    files,      \* files[t][fd]: task->files
    close_on_exec,  \* close_on_exec[t]: the bits set
    file,       \* file[f]: refcount, kind and f_pos, or Free
    node,       \* the ramfs inode: size and data, whose length is the capacity
    asked,      \* specification: the descriptors programs asked execve to close
    said        \* specification: the bytes programs wrote, Hole where none did

tables == <<files, close_on_exec, asked>>
vars == <<alive, tables, file, node, said>>

Free == [refcount |-> 0, kind |-> "free", f_pos |-> 0]
Lesser(m, n) == IF m < n THEN m ELSE n

-----------------------------------------------------------------------------
(* Files and descriptors.                                                  *)

get_file(F, f) == [F EXCEPT ![f].refcount = @ + 1]

(* The last reference frees the file.                                      *)
fput(F, f) ==
    [F EXCEPT ![f] = IF @.refcount > 1 THEN [@ EXCEPT !.refcount = @ - 1] ELSE Free]

(* fput of every file in the descriptors S of t.                           *)
fput_fds(F, t, S) ==
    FoldSet(LAMBDA fd, G : IF files[t][fd] = NULL THEN G ELSE fput(G, files[t][fd]), F, S)

alloc_file(kind) == [refcount |-> 1, kind |-> kind, f_pos |-> 0]
FreeFiles == {f \in Files : file[f] = Free}
FreeFds(t) == {fd \in Fds : files[t][fd] = NULL}

(* close_on_exec after fd was installed with or without O_CLOEXEC.         *)
Bits(B, fd, cloexec) == IF cloexec THEN B \cup {fd} ELSE B \ {fd}

(* fd of t leads to file f: install_fd and the flag handling around it.    *)
Install(t, fd, f, cloexec) ==
    /\ files' = [files EXCEPT ![t][fd] = f]
    /\ close_on_exec' = [close_on_exec EXCEPT ![t] = Bits(@, fd, cloexec)]
    /\ asked' = [asked EXCEPT ![t] = IF cloexec THEN @ \cup {fd} ELSE @ \ {fd}]

-----------------------------------------------------------------------------
(* The bytes of the file.                                                  *)

Capacity(r) == Len(r.data)

(* The capacity, doubled until it reaches need.  That is MaxSize + 1 at    *)
(* most: above it new_cap is shifted to 0 and the loop does not end.       *)
new_cap(r, need) ==
    LET first == IF Capacity(r) = 0 THEN PAGE_SIZE ELSE Capacity(r)
    IN  Min({first * 2^k : k \in {k \in 0 .. MaxSize : first * 2^k >= need}})

(* Mutant: the old buffer is not copied.                                   *)
ramfs_ensure_capacity_blank(r, need) ==
    IF need <= Capacity(r) THEN r
    ELSE [r EXCEPT !.data = [k \in 1 .. new_cap(r, need) |-> Junk]]

(* A larger buffer takes over the first size bytes; the rest of it is what *)
(* kmalloc returned.                                                       *)
ramfs_ensure_capacity(r, need) ==
    IF need <= Capacity(r) THEN r
    ELSE [r EXCEPT !.data = [k \in 1 .. new_cap(r, need) |->
                                IF k <= r.size THEN r.data[k] ELSE Junk]]

(* Whether a write of len bytes at pos has to allocate.                    *)
Grows(r, pos, len) == pos + len > Capacity(r)

ramfs_write(r, s, pos) ==
    LET q == ramfs_ensure_capacity(r, pos + Len(s))
    IN  [size |-> IF pos + Len(s) > r.size THEN pos + Len(s) ELSE r.size,
         data |-> [k \in DOMAIN q.data |->
                      IF k \in pos + 1 .. pos + Len(s) THEN s[k - pos] ELSE q.data[k]]]

(* How many bytes ramfs_read returns for len at pos.                       *)
ReadLen(r, len, pos) == IF pos >= r.size THEN 0 ELSE Lesser(len, r.size - pos)

ramfs_truncate(r) == [r EXCEPT !.size = 0]

(* What the programs wrote, after they wrote s at pos.                     *)
Say(b, s, pos) ==
    [k \in 1 .. (IF pos + Len(s) > Len(b) THEN pos + Len(s) ELSE Len(b)) |->
        IF k \in pos + 1 .. pos + Len(s) THEN s[k - pos]
        ELSE IF k <= Len(b) THEN b[k] ELSE Hole]

-----------------------------------------------------------------------------
(* The calls.                                                              *)

Init ==
    \E t \in Tasks :
        /\ alive = {t}
        /\ files = [u \in Tasks |-> [fd \in Fds |-> NULL]]
        /\ close_on_exec = [u \in Tasks |-> {}]
        /\ file = [f \in Files |-> Free]
        /\ node = [size |-> 0, data |-> <<>>]
        /\ asked = close_on_exec
        /\ said = <<>>

Truncated(trunc) ==
    /\ node' = IF trunc THEN ramfs_truncate(node) ELSE node
    /\ said' = IF trunc THEN <<>> ELSE said

(* The file is truncated before the descriptor is looked for, which may    *)
(* fail, as may the allocation of the struct file.                         *)
ksys_openat(t, trunc, cloexec) ==
    /\ Truncated(trunc)
    /\ \/ /\ FreeFiles # {} /\ FreeFds(t) # {}
          /\ file' = [file EXCEPT ![Min(FreeFiles)] = alloc_file("reg")]
          /\ Install(t, Min(FreeFds(t)), Min(FreeFiles), cloexec)
       \/ UNCHANGED <<tables, file>>
    /\ UNCHANGED alive

(* Two files or none: an end that was installed is taken back if there is  *)
(* no descriptor for the other.                                            *)
ksys_pipe2(t, cloexec) ==
    LET fd0 == Min(FreeFds(t))
        fd1 == Min(FreeFds(t) \ {fd0})
        r == Min(FreeFiles)
        w == Min(FreeFiles \ {r})
    IN  /\ Cardinality(FreeFiles) >= 2
        /\ \/ /\ Cardinality(FreeFds(t)) >= 2
              /\ files' = [files EXCEPT ![t][fd0] = r, ![t][fd1] = w]
              /\ close_on_exec' = [close_on_exec EXCEPT
                                     ![t] = Bits(Bits(@, fd0, cloexec), fd1, cloexec)]
              /\ asked' = [asked EXCEPT ![t] = IF cloexec THEN @ \cup {fd0, fd1}
                                               ELSE @ \ {fd0, fd1}]
              /\ file' = [file EXCEPT ![r] = alloc_file("pipe"), ![w] = alloc_file("pipe")]
           \/ /\ FreeFds(t) # {}        \* one descriptor only, or fildes is not writable
              /\ close_on_exec' = [close_on_exec EXCEPT ![t] =
                                     @ \ (IF FreeFds(t) = {fd0} THEN {fd0} ELSE {fd0, fd1})]
              /\ UNCHANGED <<files, asked, file>>
        /\ UNCHANGED <<alive, node, said>>

close_fd(t, fd) ==
    /\ files[t][fd] # NULL
    /\ files' = [files EXCEPT ![t][fd] = NULL]
    /\ file' = fput(file, files[t][fd])
    /\ asked' = [asked EXCEPT ![t] = @ \ {fd}]
    /\ UNCHANGED <<alive, close_on_exec, node, said>>

(* dup and F_DUPFD: the lowest free descriptor from minfd.                 *)
ksys_dupfd(t, oldfd, minfd, cloexec) ==
    LET S == {fd \in FreeFds(t) : fd >= minfd}
    IN  /\ files[t][oldfd] # NULL /\ S # {}
        /\ file' = get_file(file, files[t][oldfd])
        /\ Install(t, Min(S), files[t][oldfd], cloexec)
        /\ UNCHANGED <<alive, node, said>>

(* Mutant: the file that was there keeps its reference.                    *)
ksys_dup3_noput(t, oldfd, newfd, cloexec) ==
    /\ oldfd # newfd /\ files[t][oldfd] # NULL
    /\ file' = get_file(file, files[t][oldfd])
    /\ Install(t, newfd, files[t][oldfd], cloexec)
    /\ UNCHANGED <<alive, node, said>>

ksys_dup3(t, oldfd, newfd, cloexec) ==
    /\ oldfd # newfd /\ files[t][oldfd] # NULL
    /\ LET F == get_file(file, files[t][oldfd])
       IN  file' = IF files[t][newfd] = NULL THEN F ELSE fput(F, files[t][newfd])
    /\ Install(t, newfd, files[t][oldfd], cloexec)
    /\ UNCHANGED <<alive, node, said>>

(* fcntl(F_SETFD).                                                         *)
SetFd(t, fd, cloexec) ==
    /\ files[t][fd] # NULL
    /\ Install(t, fd, files[t][fd], cloexec)
    /\ UNCHANGED <<alive, file, node, said>>

copy_task_files(t, child) ==
    /\ child \notin alive
    /\ alive' = alive \cup {child}
    /\ files' = [files EXCEPT ![child] = files[t]]
    /\ close_on_exec' = [close_on_exec EXCEPT ![child] = close_on_exec[t]]
    /\ asked' = [asked EXCEPT ![child] = asked[t]]
    /\ file' = FoldSet(LAMBDA fd, G : IF files[t][fd] = NULL THEN G ELSE get_file(G, files[t][fd]),
                       file, Fds)
    /\ UNCHANGED <<node, said>>

(* execve: the marked descriptors are closed and the marks removed.        *)
close_on_exec_fds(t) ==
    /\ files' = [files EXCEPT ![t] = [fd \in Fds |-> IF fd \in close_on_exec[t] THEN NULL
                                                    ELSE files[t][fd]]]
    /\ file' = fput_fds(file, t, close_on_exec[t])
    /\ close_on_exec' = [close_on_exec EXCEPT ![t] = {}]
    /\ asked' = [asked EXCEPT ![t] = {}]
    /\ UNCHANGED <<alive, node, said>>

exit_files(t) ==
    /\ alive' = alive \ {t}
    /\ files' = [files EXCEPT ![t] = [fd \in Fds |-> NULL]]
    /\ file' = fput_fds(file, t, Fds)
    /\ close_on_exec' = [close_on_exec EXCEPT ![t] = {}]
    /\ asked' = [asked EXCEPT ![t] = {}]
    /\ UNCHANGED <<node, said>>

IsReg(t, fd) == files[t][fd] # NULL /\ file[files[t][fd]].kind = "reg"
Pos(t, fd) == file[files[t][fd]].f_pos
MoveTo(t, fd, pos) == file' = [file EXCEPT ![files[t][fd]].f_pos = pos]

ksys_read(t, fd, count) ==
    /\ IsReg(t, fd)
    /\ MoveTo(t, fd, Pos(t, fd) + ReadLen(node, Lesser(count, KBUF), Pos(t, fd)))
    /\ UNCHANGED <<alive, tables, node, said>>

ksys_lseek(t, fd, base, offset) ==
    /\ IsReg(t, fd)
    /\ base + offset \in 0 .. MaxSize       \* -EINVAL below 0
    /\ MoveTo(t, fd, base + offset)
    /\ UNCHANGED <<alive, tables, node, said>>

(* At most KBUF bytes of v at the offset, or -ENOMEM.  w.stop: not all of  *)
(* v was written.                                                          *)
vfs_write(w, v, oom) ==
    LET s == SubSeq(v, 1, Lesser(Len(v), KBUF))
    IN  IF oom /\ Grows(w.node, w.pos, Len(s)) THEN [w EXCEPT !.stop = TRUE]
        ELSE [node |-> ramfs_write(w.node, s, w.pos), pos |-> w.pos + Len(s),
              stop |-> Len(s) < Len(v)]

Start(t, fd) == [node |-> node, pos |-> Pos(t, fd), stop |-> FALSE]

(* The offset after a write.  Beyond MaxSize the write returns -ENOMEM, or *)
(* does not return because new_cap does not end.                           *)
Written(t, fd, end) ==
    /\ IsReg(t, fd)
    /\ end.pos <= MaxSize
    /\ node' = end.node
    /\ MoveTo(t, fd, end.pos)
    /\ UNCHANGED <<alive, tables>>

(* A write of no bytes reaches ramfs_write as well.                        *)
ksys_write(t, fd, s, oom) ==
    LET pos == Pos(t, fd)
        end == vfs_write(Start(t, fd), s, oom)
        failed == end.stop /\ end.pos = pos
    IN  /\ Written(t, fd, end)
        /\ said' = IF failed THEN said ELSE Say(said, SubSeq(s, 1, end.pos - pos), pos)

(* writev skips an empty vector and ends at a short write; the allocation  *)
(* for vector oom fails.  The program is told how many bytes were written. *)
WriteVec(w, v, oom) == IF w.stop \/ v = <<>> THEN w ELSE vfs_write(w, v, oom)

ksys_writev(t, fd, iov, oom) ==
    LET pos == Pos(t, fd)
        end == FoldLeftDomain(LAMBDA w, i : WriteVec(w, iov[i], i = oom), Start(t, fd), iov)
        total == end.pos - pos
    IN  /\ Written(t, fd, end)
        /\ said' = IF total = 0 THEN said
                   ELSE Say(said, SubSeq(FlattenSeq(iov), 1, total), pos)

-----------------------------------------------------------------------------
(* sendfile.  s.F and s.node are the files and the bytes, s.pos the offset *)
(* *ppos unless that is f_pos of the input, s.done what was written.       *)
CurPos(s, in, own) == IF own THEN s.pos ELSE s.F[in].f_pos
SetPos(s, in, own, pos) == IF own THEN [s EXCEPT !.pos = pos] ELSE [s EXCEPT !.F[in].f_pos = pos]

(* One turn of the loop, the k-th.  A file takes all of the chunk or,      *)
(* without memory in turn limit, nothing; a pipe has room for limit bytes  *)
(* and returns -EAGAIN when it is full.                                    *)
SendChunk(s, in, out, own, count, k, limit) ==
    LET from == CurPos(s, in, own)
        nr == ReadLen(s.node, Lesser(KBUF, count - s.done), from)
        buf == SubSeq(s.node.data, from + 1, from + nr)
        s1 == SetPos(s, in, own, from + nr)
        to == s1.F[out].f_pos
        nw == Lesser(nr, limit - s.done)
    IN  IF s.stop \/ nr = 0 THEN [s EXCEPT !.stop = TRUE]
        ELSE IF s.F[out].kind = "reg"
        THEN IF k = limit /\ Grows(s.node, to, nr) THEN [s1 EXCEPT !.stop = TRUE]
             ELSE [s1 EXCEPT !.node = ramfs_write(@, buf, to), !.F[out].f_pos = to + nr,
                             !.done = @ + nr]
        ELSE IF nw = 0 THEN [s1 EXCEPT !.stop = TRUE]
        ELSE [SetPos(s1, in, own, from + nw) EXCEPT !.done = @ + nw, !.stop = nw < nr]

(* What the programs may expect in the file after n bytes went from in to  *)
(* out: a copy, unless the ranges overlap.                                 *)
Copied(from, to, n) ==
    LET apart == from + n <= to \/ to + n <= from
    IN  Say(said, [k \in 1 .. n |-> IF apart THEN said[from + k] ELSE Hole], to)

ksys_sendfile(t, out_fd, in_fd, offset, count, limit) ==
    LET in == files[t][in_fd]
        out == files[t][out_fd]
        own == offset # -1
        from == IF own THEN offset ELSE file[in].f_pos
        to == file[out].f_pos
        end == FoldLeft(LAMBDA s, k : SendChunk(s, in, out, own, count, k, limit),
                        [F |-> file, node |-> node, pos |-> offset, done |-> 0, stop |-> FALSE],
                        [k \in 1 .. count |-> k])
    IN  /\ IsReg(t, in_fd) /\ out # NULL
        /\ \A f \in Files : end.F[f].f_pos <= MaxSize
        /\ file' = end.F
        /\ node' = end.node
        /\ said' = IF file[out].kind # "reg" \/ end.done = 0 THEN said
                   ELSE IF in = out /\ ~own
                   THEN Say(said, [k \in 1 .. end.F[out].f_pos - to |-> Hole], to)
                   ELSE Copied(from, to, end.done)
        /\ UNCHANGED <<alive, tables>>

-----------------------------------------------------------------------------
Next ==
    \E t \in alive :
        \/ \E cloexec \in BOOLEAN :
             \/ \E trunc \in BOOLEAN : ksys_openat(t, trunc, cloexec)
             \/ ksys_pipe2(t, cloexec)
             \/ \E oldfd, fd \in Fds : ksys_dupfd(t, oldfd, fd, cloexec) \/ ksys_dup3(t, oldfd, fd, cloexec)
             \/ \E fd \in Fds : SetFd(t, fd, cloexec)
        \/ close_on_exec_fds(t)
        \/ exit_files(t)
        \/ \E child \in Tasks : copy_task_files(t, child)
        \/ \E fd \in Fds :
             \/ close_fd(t, fd)
             \/ \E count \in Counts : ksys_read(t, fd, count)
             \/ \E offset \in Seeks :
                  IsReg(t, fd) /\ \E base \in {0, Pos(t, fd), node.size} : ksys_lseek(t, fd, base, offset)
             \/ \E s \in Bufs, oom \in BOOLEAN : ksys_write(t, fd, s, oom)
             \/ \E iov \in Iovs : \E oom \in 0 .. Len(iov) : ksys_writev(t, fd, iov, oom)
        \/ \E out_fd, in_fd \in Fds, offset \in {-1, 1}, count \in Counts, limit \in 0 .. 2 :
             ksys_sendfile(t, out_fd, in_fd, offset, count, limit)

Spec == Init /\ [][Next]_vars

-----------------------------------------------------------------------------
(* Properties.                                                             *)

Slots(f) == {x \in Tasks \X Fds : files[x[1]][x[2]] = f}

(* refcount counts the descriptors that lead to a file, over all tasks,    *)
(* through dup, dup3 over an open descriptor, fork, exec, exit and the     *)
(* failures of pipe2: no file is freed while a descriptor leads to it and  *)
(* none is kept when the last is gone.  The close-on-exec bit of an open   *)
(* descriptor is what was last asked for it, whatever close left behind.   *)
Descriptors ==
    /\ \A f \in Files : file[f].refcount = Cardinality(Slots(f))
    /\ \A f \in Files : file[f] = Free <=> Slots(f) = {}
    /\ \A t \in Tasks : asked[t] = close_on_exec[t] \ FreeFds(t)

(* The file holds what was written to it: every byte written since the     *)
(* last truncation is where the writer's offset was, through short writes, *)
(* vectors, copies by sendfile, growing buffers and failed allocations.    *)
(* Its size is the farthest end of a write that did not fail, and a write  *)
(* of no bytes beyond the end counts: it moves the end to its offset,      *)
(* which a writev of empty vectors does not.                               *)
ContentKept ==
    /\ node.size = Len(said)
    /\ node.size <= Capacity(node)
    /\ \A k \in DOMAIN said : said[k] # Hole => node.data[k] = said[k]

(* sendfile advances the input by what it wrote, also when a write fails.  *)
SendfileLossless ==
    [][\A t \in alive, in_fd, out_fd \in Fds, count \in Counts, limit \in 0 .. 2 :
         /\ ksys_sendfile(t, out_fd, in_fd, -1, count, limit)
         /\ files[t][in_fd] # files[t][out_fd] /\ IsReg(t, out_fd)
         => Pos(t, in_fd)' - Pos(t, in_fd) = Pos(t, out_fd)' - Pos(t, out_fd)]_vars
=============================================================================
