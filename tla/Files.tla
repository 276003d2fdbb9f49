------------------------------- MODULE Files -------------------------------
(***************************************************************************)
(* The file objects of gemOS: Assignment2/file.c over the flat file system *)
(* of fs.c, with the handlers of entry.c that call them.  A descriptor     *)
(* names a file object, which holds the offset and the number of           *)
(* descriptors that name it; several objects can be open on one file.      *)
(*                                                                         *)
(* A system call is one step (interrupts are off).  A call that returns an *)
(* error and changes nothing is no step.  File data is abstracted to its   *)
(* size.  A freed page may become another file object.  What else it may   *)
(* become is not modelled, so no step uses an object that was freed.       *)
(*                                                                         *)
(* Some uses of the calls break the bookkeeping.  Careless says which of   *)
(* them the processes of an instance make: "fork", a fork by a process     *)
(* that has descriptors; "dup2", a dup2 of a descriptor onto itself;       *)
(* "write", a write that does not fit into the file.                       *)
(***************************************************************************)
EXTENDS Integers, FiniteSets

CONSTANTS
    MAX_PROCESSES,   \* process ids are 0 .. MAX_PROCESSES - 1
    MAX_OPEN_FILES,  \* a process has descriptors 0 .. MAX_OPEN_FILES - 1
    FIRST_FD,        \* the first descriptor open looks at; those before are standard
    FILE_SIZE,       \* bytes in the pages of a file
    NUM_FILES,       \* inodes
    WORD,            \* 2^32: u32 arithmetic is modulo WORD
    MAX_COUNT,       \* bound: bytes asked for by one call
    Filenames,       \* names of regular files
    Objects,         \* pages that can hold a struct file
    NULL,            \* an empty descriptor
    OpenModes,       \* modes that processes open and create files with
    Careless         \* what processes do although it breaks things

Pids   == 1 .. MAX_PROCESSES - 1
Fds    == 0 .. MAX_OPEN_FILES - 1
Stdfds == 0 .. FIRST_FD - 1
Counts == 0 .. MAX_COUNT
Modes  == SUBSET {"O_READ", "O_WRITE"}

ASSUME FileBounds ==
    /\ {MAX_PROCESSES, MAX_OPEN_FILES, FILE_SIZE, NUM_FILES, WORD} \subseteq Nat \ {0}
    /\ {FIRST_FD, MAX_COUNT} \subseteq Nat
    /\ FIRST_FD <= MAX_OPEN_FILES
    /\ MAX_PROCESSES > 1
    /\ 2 * (FILE_SIZE + MAX_COUNT) < WORD
    /\ MAX_PROCESSES * MAX_OPEN_FILES < WORD
ASSUME NullIsNoObject == NULL \notin Objects
ASSUME OpenModesAreModes == OpenModes \subseteq Modes
ASSUME CarelessUses == Careless \subseteq {"fork", "dup2", "write"}
ASSUME EnoughObjects == \E f \in [Stdfds -> Objects] :
                           \A i, j \in Stdfds : f[i] = f[j] => i = j

StdFile == "STD"   \* instead of a name, in the objects of stdin, stdout and stderr
ASSUME StdIsNoName == StdFile \notin Filenames

VARIABLES
    live,       \* processes whose state is not UNUSED
    files,      \* files[p][fd]: the object descriptor fd of p names
    allocated,  \* pages of Objects in use
    file,       \* file[o]: the struct file in page o
    created,    \* names with a valid inode
    inode       \* inode[n]: mode and size of the file n

vars == <<live, files, allocated, file, created, inode>>

Object == [inode: Filenames \cup {StdFile}, mode: Modes,
           offp: 0 .. WORD - 1, ref_count: 0 .. WORD - 1]
Inode  == [mode: Modes, file_size: 0 .. FILE_SIZE]

NewObject(n, m) == [inode |-> n, mode |-> m, offp |-> 0, ref_count |-> 1]
StdMode(type)   == IF type = 0 THEN {"O_READ"} ELSE {"O_WRITE"}

\* The first process has a standard object at each standard descriptor.
Init ==
    /\ live = {1}
    /\ \E f \in [Stdfds -> Objects] :
          /\ \A i, j \in Stdfds : f[i] = f[j] => i = j
          /\ files = [p \in Pids |-> [fd \in Fds |->
                         IF p = 1 /\ fd \in Stdfds THEN f[fd] ELSE NULL]]
          /\ allocated = {f[i] : i \in Stdfds}
          /\ file = [o \in Objects |->
                IF \E i \in Stdfds : f[i] = o
                  THEN NewObject(StdFile, StdMode(CHOOSE i \in Stdfds : f[i] = o))
                  ELSE NewObject(StdFile, {})]
    /\ created = {}
    /\ inode = [n \in Filenames |-> [mode |-> {}, file_size |-> 0]]

----------------------------------------------------------------------------
\* u32 arithmetic, one wrap at most.  flat_read and flat_write take the offset
\* for an int.
Wrap(x)   == IF x < 0 THEN x + WORD ELSE IF x >= WORD THEN x - WORD ELSE x
Signed(x) == IF 2 * x < WORD THEN x ELSE x - WORD

\* Descriptors of running processes that name o.
NamesOf(o) == {d \in live \X Fds : files[d[1]][d[2]] = o}
IsNamed(o) == NamesOf(o) # {}
Open(p, fd) == p \in live /\ files[p][fd] \in allocated
IsRegular(o) == file[o].inode # StdFile

\* flat_read: the number of bytes from offset off on; flat_write: -1 for a write
\* that does not fit.
BytesRead(n, off, count) ==
    LET remain_len == inode[n].file_size - off IN
    IF remain_len <= 0 THEN 0 ELSE IF count > remain_len THEN remain_len ELSE count

\* Faulty variant: does not look at where the write begins.
WrittenAnywhere(off, count) == IF count > FILE_SIZE THEN -1 ELSE count
BytesWritten(off, count)    == IF count > FILE_SIZE - off THEN -1 ELSE count

\* Faulty variant: the size of the file is where the last write ended.
SizeIsEnd(size, off, written)    == IF written < 0 THEN size ELSE off + written
SizeAfter(size, off, written) ==
    IF written >= 0 /\ off + written > size THEN off + written ELSE size

Advanced(o, n) == [o EXCEPT !.offp = Wrap(@ + n)]

----------------------------------------------------------------------------
\* One more reference.  (Faulty variant: the descriptor is copied only.)
NotCounted(r) == r
Counted(r)    == Wrap(r + 1)

\* The free descriptor that an open takes.
TakesFree(p, fd)  == /\ fd \in Fds \ Stdfds
                     /\ files[p][fd] = NULL
                     /\ \A g \in Fds \ Stdfds : files[p][g] = NULL => fd <= g
NoneFree(p)       == \A fd \in Fds \ Stdfds : files[p][fd] # NULL

\* The inode of an open: found, or created with the mode m.
FindOrCreate(n, creat, m) ==
    \/ /\ n \in created
       /\ UNCHANGED <<created, inode>>
    \/ /\ n \notin created
       /\ creat
       /\ Cardinality(created) < NUM_FILES
       /\ created' = created \cup {n}
       /\ inode' = [inode EXCEPT ![n] = [mode |-> m, file_size |-> 0]]

\* do_regular_file_open.  The test of flags against the mode of the inode never
\* fails: it is parsed as mode & (flags != flags).  When no descriptor is free
\* the call returns -ENOMEM, but inode and object have been made.
OpenFile(p, n, flags, creat, m) ==
    /\ p \in live
    /\ flags # {}
    /\ FindOrCreate(n, creat, m)
    /\ \E o \in Objects \ allocated :
          /\ allocated' = allocated \cup {o}
          /\ file' = [file EXCEPT ![o] = NewObject(n, flags)]
          /\ \/ \E fd \in Fds : /\ TakesFree(p, fd)
                                /\ files' = [files EXCEPT ![p][fd] = o]
             \/ NoneFree(p) /\ UNCHANGED files
    /\ UNCHANGED live

\* open_standard_IO: a new object at the standard descriptor if that is free, and
\* else one more descriptor of whatever it names.  (With no descriptor free the
\* code goes on behind the table; such calls are left out.)
OpenStandard(p, type) ==
    /\ p \in live
    /\ \/ /\ files[p][type] = NULL
          /\ \E o \in Objects \ allocated :
                /\ allocated' = allocated \cup {o}
                /\ file' = [file EXCEPT ![o] = NewObject(StdFile, StdMode(type))]
                /\ files' = [files EXCEPT ![p][type] = o]
       \/ /\ Open(p, type)
          /\ \E fd \in Fds : /\ TakesFree(p, fd)
                             /\ files' = [files EXCEPT ![p][fd] = files[p][type]]
          /\ file' = [file EXCEPT ![files[p][type]].ref_count = Counted(@)]
          /\ UNCHANGED allocated
    /\ UNCHANGED <<live, created, inode>>

\* do_close with do_file_close or std_close: one reference less, and the object
\* is freed when that was the last.
Close(p, fd) ==
    LET o == files[p][fd] IN
    /\ Open(p, fd)
    /\ files' = [files EXCEPT ![p][fd] = NULL]
    /\ file' = [file EXCEPT ![o].ref_count = Wrap(@ - 1)]
    /\ allocated' = IF file[o].ref_count = 1 THEN allocated \ {o} ELSE allocated
    /\ UNCHANGED <<live, created, inode>>

\* Faulty variant of dup2: the object newfd named before is not closed.
Dup2WithoutClose(p, oldfd, newfd) ==
    /\ Open(p, oldfd)
    /\ oldfd = newfd => "dup2" \in Careless
    /\ files' = [files EXCEPT ![p][newfd] = files[p][oldfd]]
    /\ file' = [file EXCEPT ![files[p][oldfd]].ref_count = Counted(@)]
    /\ UNCHANGED <<live, allocated, created, inode>>

\* fd_dup2: what newfd names is closed first, then oldfd is copied.
Dup2(p, oldfd, newfd) ==
    LET o == files[p][newfd]
        closed == IF o = NULL THEN file ELSE [file EXCEPT ![o].ref_count = Wrap(@ - 1)] IN
    /\ Open(p, oldfd)
    /\ o = NULL \/ Open(p, newfd)
    /\ oldfd = newfd => "dup2" \in Careless
    /\ files' = [files EXCEPT ![p][newfd] = files[p][oldfd]]
    /\ file' = [closed EXCEPT ![files[p][oldfd]].ref_count = Counted(@)]
    /\ allocated' = IF o # NULL /\ file[o].ref_count = 1 THEN allocated \ {o} ELSE allocated
    /\ UNCHANGED <<live, created, inode>>

----------------------------------------------------------------------------
\* do_file_read with do_read_regular.
Read(p, fd, count) ==
    LET o == files[p][fd] IN
    /\ Open(p, fd)
    /\ "O_READ" \in file[o].mode
    /\ IsRegular(o)
    /\ file' = [file EXCEPT ![o] =
          Advanced(@, BytesRead(@.inode, Signed(@.offp), count))]
    /\ UNCHANGED <<live, files, allocated, created, inode>>

\* do_write_regular on object o of the table f: what becomes of f and the inodes.
WriteTo(o, f, count) ==
    LET off == Signed(f[o].offp)
        write_count == BytesWritten(off, count) IN
    /\ write_count < 0 => "write" \in Careless
    /\ file' = [f EXCEPT ![o] = Advanced(@, write_count)]
    /\ inode' = [inode EXCEPT ![f[o].inode].file_size = SizeAfter(@, off, write_count)]

Write(p, fd, count) ==
    LET o == files[p][fd] IN
    /\ Open(p, fd)
    /\ "O_WRITE" \in file[o].mode
    /\ IsRegular(o)
    /\ WriteTo(o, file, count)
    /\ UNCHANGED <<live, files, allocated, created>>

\* do_lseek_regular: the result must lie in the file.
Lseek(p, fd, offset) ==
    LET o == files[p][fd]
        n == file[o].inode IN
    /\ Open(p, fd)
    /\ IsRegular(o)
    /\ \E base \in {0, file[o].offp, inode[n].file_size} :  \* SEEK_SET, _CUR, _END
          /\ base + offset \in 0 .. inode[n].file_size
          /\ file' = [file EXCEPT ![o].offp = Wrap(base + offset)]
    /\ UNCHANGED <<live, files, allocated, created, inode>>

\* do_sendfile between regular files, from the offset of infd or (own) from one
\* the caller keeps; what was read is written at the offset of outfd.
Sendfile(p, outfd, infd, own, offset, count) ==
    LET i == files[p][infd]
        o == files[p][outfd]
        from == IF own THEN offset ELSE Signed(file[i].offp)
        read_count == BytesRead(file[i].inode, from, count)
        f == IF own THEN file ELSE [file EXCEPT ![i] = Advanced(@, read_count)] IN
    /\ Open(p, infd) /\ Open(p, outfd)
    /\ "O_READ" \in file[i].mode
    /\ "O_WRITE" \in file[o].mode
    /\ IsRegular(i) /\ IsRegular(o)
    /\ WriteTo(o, f, read_count)
    /\ UNCHANGED <<live, files, allocated, created>>

----------------------------------------------------------------------------
\* do_fork copies the descriptors and leaves the objects as they are.
Fork(p, c) ==
    /\ p \in live
    /\ c \in Pids \ live
    /\ \A d \in Pids \ live : c <= d
    /\ "fork" \in Careless \/ \A fd \in Fds : files[p][fd] = NULL
    /\ live' = live \cup {c}
    /\ files' = [files EXCEPT ![c] = files[p]]
    /\ UNCHANGED <<allocated, file, created, inode>>

\* Faulty variant of do_file_exit: a process drops an object once, whatever
\* number of descriptors it has for it.
DropsOnce(p, o) == IF \E fd \in Fds : files[p][fd] = o THEN 1 ELSE 0

\* do_file_exit: one reference less for every descriptor, in a loop that frees an
\* object when its counter passes zero.
References(p, o) == Cardinality({fd \in Fds : files[p][fd] = o})

Exit(p) ==
    /\ p \in live
    /\ live' = live \ {p}
    /\ file' = [o \in Objects |->
          [file[o] EXCEPT !.ref_count = Wrap(@ - References(p, o))]]
    /\ allocated' = {o \in allocated :
          file[o].ref_count = 0 \/ file[o].ref_count > References(p, o)}
    /\ UNCHANGED <<files, created, inode>>

Use(p, fd) ==
    \/ Close(p, fd)
    \/ \E newfd \in Fds : Dup2(p, fd, newfd)
    \/ \E count \in Counts : Read(p, fd, count) \/ Write(p, fd, count)
    \/ \E offset \in -MAX_COUNT .. MAX_COUNT : Lseek(p, fd, offset)
    \/ \E infd \in Fds, own \in BOOLEAN, offset, count \in Counts :
          Sendfile(p, fd, infd, own, offset, count)

Next ==
    \E p \in Pids :
        \/ \E n \in Filenames, flags, m \in OpenModes, creat \in BOOLEAN :
              OpenFile(p, n, flags, creat, m)
        \/ \E type \in Stdfds : OpenStandard(p, type)
        \/ \E fd \in Fds : Use(p, fd)
        \/ \E c \in Pids : Fork(p, c)
        \/ Exit(p)

Spec == Init /\ [][Next]_vars

----------------------------------------------------------------------------
TypeOK ==
    /\ live \subseteq Pids
    /\ files \in [Pids -> [Fds -> Objects \cup {NULL}]]
    /\ allocated \subseteq Objects
    /\ file \in [Objects -> Object]
    /\ created \subseteq Filenames
    /\ inode \in [Filenames -> Inode]

\* No descriptor names an object whose page was freed and may be given out for
\* something else.
NamedAreAllocated ==
    \A p \in live : \A fd \in Fds : files[p][fd] # NULL => files[p][fd] \in allocated

\* ref_count is the number of descriptors that name the object, in all processes.
RefCountsCount ==
    \A o \in allocated : IsNamed(o) => file[o].ref_count = Cardinality(NamesOf(o))

\* The page of an object is freed with its last descriptor: neither close, dup2
\* nor exit loses one.
FreedWithLastName ==
    [][\A o \in Objects : IsNamed(o) /\ ~ IsNamed(o)' => o \notin allocated']_vars

\* The offset of a file object stays inside the file, whatever is done through
\* other objects that are open on the same file.
OffsetsInFile ==
    \A o \in allocated : IsRegular(o) => file[o].offp <= inode[file[o].inode].file_size

\* A read starts inside the data of the file ("It will read data from s_pos", "max_pos
\* is exclusive", fs.c:303-304).  A failed write moves the offset in front of it.
ReadsStayInFile ==
    \A o \in allocated : IsRegular(o) /\ "O_READ" \in file[o].mode =>
        \A count \in Counts :
            BytesRead(file[o].inode, Signed(file[o].offp), count) > 0 =>
                Signed(file[o].offp) >= 0
=============================================================================
