---------------------------- MODULE FilesProofs ----------------------------
(***************************************************************************)
(* Proofs about Files, for every number of processes, descriptors, objects *)
(* and files.                                                              *)
(***************************************************************************)
EXTENDS Files, FiniteSetTheorems, TLAPS

LEMMA Numbers ==
  /\ MAX_PROCESSES \in Nat /\ MAX_OPEN_FILES \in Nat /\ FILE_SIZE \in Nat /\ WORD \in Nat
  /\ FIRST_FD \in Nat /\ MAX_COUNT \in Nat /\ FIRST_FD <= MAX_OPEN_FILES
  /\ MAX_PROCESSES > 1 /\ WORD > 1 /\ MAX_OPEN_FILES < WORD
  /\ 2 * (FILE_SIZE + MAX_COUNT) < WORD
<1>1. /\ MAX_PROCESSES \in Nat \ {0} /\ MAX_OPEN_FILES \in Nat \ {0} /\ FILE_SIZE \in Nat \ {0}
      /\ WORD \in Nat \ {0} /\ FIRST_FD \in Nat /\ MAX_COUNT \in Nat
  BY FileBounds
<1>2. MAX_OPEN_FILES <= MAX_PROCESSES * MAX_OPEN_FILES
  BY <1>1, FileBounds, SMTT(30)
<1>3. MAX_PROCESSES * MAX_OPEN_FILES \in Nat
  BY <1>1, SMTT(30)
<1> QED BY <1>1, <1>2, <1>3, FileBounds

LEMMA FdsAreFinite ==
  /\ IsFiniteSet(Fds) /\ Cardinality(Fds) = MAX_OPEN_FILES
  /\ Stdfds \subseteq Fds
<1>1. MAX_OPEN_FILES - 1 \in Int /\ 0 \in Int
  BY Numbers
<1> QED BY <1>1, Numbers, FS_Interval DEF Fds, Stdfds

LEMMA ReferencesBound ==
  ASSUME NEW p, NEW o
  PROVE  References(p, o) \in 0 .. MAX_OPEN_FILES
<1>1. {fd \in Fds : files[p][fd] = o} \subseteq Fds
  OBVIOUS
<1>2. /\ IsFiniteSet({fd \in Fds : files[p][fd] = o})
      /\ Cardinality({fd \in Fds : files[p][fd] = o}) <= MAX_OPEN_FILES
  BY <1>1, FdsAreFinite, FS_Subset
<1>3. Cardinality({fd \in Fds : files[p][fd] = o}) \in Nat
  BY <1>2, FS_CardinalityType
<1> QED BY <1>2, <1>3, Numbers DEF References

\* What a transfer of bytes can amount to.
LEMMA Transfer ==
  ASSUME TypeOK, NEW n \in Filenames, NEW off \in Int, NEW count \in Counts
  PROVE  /\ BytesRead(n, off, count) \in Counts
         /\ 0 <= off => off + BytesRead(n, off, count) <= inode[n].file_size \/ BytesRead(n, off, count) = 0
         /\ BytesWritten(off, count) \in Counts \cup {-1}
         /\ BytesWritten(off, count) # -1 => off + BytesWritten(off, count) <= FILE_SIZE
<1>1. inode[n].file_size \in Nat /\ FILE_SIZE \in Nat /\ MAX_COUNT \in Nat /\ count \in Nat
      /\ count <= MAX_COUNT
  BY Numbers DEF TypeOK, Inode, Counts
<1> QED BY <1>1 DEF BytesRead, BytesWritten, Counts

LEMMA Sizes ==
  ASSUME NEW size \in 0 .. FILE_SIZE, NEW off \in Int, NEW w \in Counts \cup {-1},
         w # -1 => off + w <= FILE_SIZE
  PROVE  /\ SizeAfter(size, off, w) \in 0 .. FILE_SIZE
         /\ size <= SizeAfter(size, off, w)
         /\ w # -1 => off + w <= SizeAfter(size, off, w)
BY Numbers DEF SizeAfter, Counts

LEMMA Wrapped ==
  ASSUME NEW x \in 0 .. WORD - 1, NEW d \in Int, -WORD < d, d < WORD
  PROVE  /\ Wrap(x + d) \in 0 .. WORD - 1
         /\ x + d \in 0 .. WORD - 1 => Wrap(x + d) = x + d
         /\ Signed(x) \in Int
         /\ 2 * x < WORD => Signed(x) = x
BY Numbers DEF Wrap, Signed

\* A table of objects after an access to one of them.
LEMMA AdvancedTypes ==
  ASSUME NEW f \in [Objects -> Object], NEW o \in Objects, NEW n \in Counts \cup {-1}
  PROVE  [f EXCEPT ![o] = Advanced(@, n)] \in [Objects -> Object]
<1>1. f[o].offp \in 0 .. WORD - 1 /\ -WORD < n /\ n < WORD
  BY Numbers DEF Object, Counts
<1>2. Wrap(f[o].offp + n) \in 0 .. WORD - 1
  BY <1>1, Wrapped DEF Counts
<1> QED BY <1>2 DEF Advanced, Object

LEMMA WriteTypes ==
  ASSUME TypeOK, NEW f \in [Objects -> Object], NEW o \in Objects, NEW count \in Counts,
         f[o].inode \in Filenames, WriteTo(o, f, count)
  PROVE  file' \in [Objects -> Object] /\ inode' \in [Filenames -> Inode]
<1> DEFINE off == Signed(f[o].offp)
           w == BytesWritten(off, count)
<1>1. off \in Int
  BY Numbers DEF Object, Signed
<1>2. w \in Counts \cup {-1} /\ (w # -1 => off + w <= FILE_SIZE)
  BY <1>1, Transfer
<1>3. file' = [f EXCEPT ![o] = Advanced(@, w)]
      /\ inode' = [inode EXCEPT ![f[o].inode].file_size = SizeAfter(@, off, w)]
  BY DEF WriteTo
<1>4. inode[f[o].inode].file_size \in 0 .. FILE_SIZE
  BY DEF TypeOK, Inode
<1> HIDE DEF off, w
<1>5. SizeAfter(inode[f[o].inode].file_size, off, w) \in 0 .. FILE_SIZE
  BY <1>1, <1>2, <1>4, Sizes
<1>6. inode' \in [Filenames -> Inode]
  BY <1>3, <1>5 DEF TypeOK, Inode
<1> QED BY <1>2, <1>3, <1>6, AdvancedTypes

LEMMA CountTypes ==
  ASSUME NEW r \in 0 .. WORD - 1, NEW p, NEW o
  PROVE  /\ Wrap(r - 1) \in 0 .. WORD - 1
         /\ Counted(r) \in 0 .. WORD - 1
         /\ Wrap(r - References(p, o)) \in 0 .. WORD - 1
<1>1. References(p, o) \in 0 .. MAX_OPEN_FILES
  BY ReferencesBound
<1> QED BY <1>1, Numbers DEF Wrap, Counted

LEMMA NewObjectType ==
  ASSUME NEW n \in Filenames \cup {StdFile}, NEW m \in Modes
  PROVE  NewObject(n, m) \in Object
BY Numbers DEF NewObject, Object

----------------------------------------------------------------------------
LEMMA TypeInit == Init => TypeOK
<1> SUFFICES ASSUME Init
             PROVE  TypeOK
  OBVIOUS
<1>1. 1 \in Pids
  BY Numbers DEF Pids
<1>2. PICK f \in [Stdfds -> Objects] :
        /\ files = [p \in Pids |-> [fd \in Fds |->
                       IF p = 1 /\ fd \in Stdfds THEN f[fd] ELSE NULL]]
        /\ allocated = {f[i] : i \in Stdfds}
        /\ file = [o \in Objects |->
              IF \E i \in Stdfds : f[i] = o
                THEN NewObject(StdFile, StdMode(CHOOSE i \in Stdfds : f[i] = o))
                ELSE NewObject(StdFile, {})]
  BY DEF Init
<1>3. \A t : StdMode(t) \in Modes /\ {} \in Modes
  BY DEF StdMode, Modes
<1>4. file \in [Objects -> Object]
  BY <1>2, <1>3, NewObjectType
<1>5. [mode |-> {}, file_size |-> 0] \in Inode
  BY <1>3, Numbers DEF Inode
<1>6. inode \in [Filenames -> Inode]
  BY <1>5 DEF Init
<1>7. files \in [Pids -> [Fds -> Objects \cup {NULL}]]
  BY <1>2
<1>8. allocated \subseteq Objects
  BY <1>2
<1>9. live \subseteq Pids /\ created \subseteq Filenames
  BY <1>1 DEF Init
<1> QED BY <1>4, <1>6, <1>7, <1>8, <1>9 DEF TypeOK

LEMMA OpenTypes ==
  ASSUME TypeOK, NEW p \in Pids, NEW n \in Filenames, NEW flags \in OpenModes,
         NEW m \in OpenModes, NEW creat, OpenFile(p, n, flags, creat, m)
  PROVE  TypeOK'
<1>1. flags \in Modes /\ m \in Modes
  BY OpenModesAreModes
<1>2. NewObject(n, flags) \in Object /\ [mode |-> m, file_size |-> 0] \in Inode
  BY <1>1, NewObjectType, Numbers DEF Inode
<1>3. created' \subseteq Filenames /\ inode' \in [Filenames -> Inode]
  BY <1>2 DEF TypeOK, OpenFile, FindOrCreate
<1>4. PICK o \in Objects \ allocated :
        /\ allocated' = allocated \cup {o}
        /\ file' = [file EXCEPT ![o] = NewObject(n, flags)]
        /\ \/ \E fd \in Fds : files' = [files EXCEPT ![p][fd] = o]
           \/ UNCHANGED files
  BY DEF OpenFile
<1>5. files' \in [Pids -> [Fds -> Objects \cup {NULL}]]
  BY <1>4 DEF TypeOK
<1>6. live' = live
  BY DEF OpenFile
<1> QED BY <1>2, <1>3, <1>4, <1>5, <1>6 DEF TypeOK

LEMMA StandardTypes ==
  ASSUME TypeOK, NEW p \in Pids, NEW type \in Stdfds, OpenStandard(p, type)
  PROVE  TypeOK'
<1>1. type \in Fds
  BY FdsAreFinite
<1>2. live' = live /\ created' = created /\ inode' = inode
  BY DEF OpenStandard
<1>3. CASE files[p][type] = NULL
  <2>1. PICK o \in Objects \ allocated :
          /\ allocated' = allocated \cup {o}
          /\ file' = [file EXCEPT ![o] = NewObject(StdFile, StdMode(type))]
          /\ files' = [files EXCEPT ![p][type] = o]
    BY <1>3, NullIsNoObject DEF OpenStandard, Open, TypeOK
  <2>2. NewObject(StdFile, StdMode(type)) \in Object
    BY NewObjectType DEF StdMode, Modes
  <2> QED BY <1>1, <1>2, <2>1, <2>2 DEF TypeOK
<1>4. CASE files[p][type] # NULL
  <2>1. PICK fd \in Fds : files' = [files EXCEPT ![p][fd] = files[p][type]]
    BY <1>4 DEF OpenStandard
  <2>2. /\ file' = [file EXCEPT ![files[p][type]].ref_count = Counted(@)]
        /\ allocated' = allocated
    BY <1>4 DEF OpenStandard
  <2>3. files[p][type] \in Objects
    BY <1>1, <1>4 DEF TypeOK
  <2>4. Counted(file[files[p][type]].ref_count) \in 0 .. WORD - 1
    BY <2>3, CountTypes DEF TypeOK, Object
  <2> QED BY <1>1, <1>2, <2>1, <2>2, <2>3, <2>4 DEF TypeOK, Object
<1> QED BY <1>3, <1>4

LEMMA CloseTypes ==
  ASSUME TypeOK, NEW p \in Pids, NEW fd \in Fds, Close(p, fd)
  PROVE  TypeOK'
<1> DEFINE o == files[p][fd]
<1>1. o \in Objects
  BY DEF Close, Open, TypeOK
<1>2. Wrap(file[o].ref_count - 1) \in 0 .. WORD - 1
  BY <1>1, CountTypes DEF TypeOK, Object
<1> QED BY <1>1, <1>2 DEF Close, TypeOK, Object

LEMMA Dup2Types ==
  ASSUME TypeOK, NEW p \in Pids, NEW oldfd \in Fds, NEW newfd \in Fds, Dup2(p, oldfd, newfd)
  PROVE  TypeOK'
<1> DEFINE o == files[p][newfd]
           closed == IF o = NULL THEN file ELSE [file EXCEPT ![o].ref_count = Wrap(@ - 1)]
           q == files[p][oldfd]
<1>1. q \in Objects /\ o \in Objects \cup {NULL}
  BY DEF Dup2, Open, TypeOK
<1>2. closed \in [Objects -> Object]
  <2>1. ASSUME o # NULL PROVE Wrap(file[o].ref_count - 1) \in 0 .. WORD - 1
    BY <1>1, <2>1, CountTypes DEF TypeOK, Object
  <2> QED BY <1>1, <2>1 DEF TypeOK, Object
<1>3. file' = [closed EXCEPT ![q].ref_count = Counted(@)]
  BY DEF Dup2
<1> HIDE DEF closed
<1>4. Counted(closed[q].ref_count) \in 0 .. WORD - 1
  BY <1>1, <1>2, CountTypes DEF Object
<1>5. file' \in [Objects -> Object]
  BY <1>1, <1>2, <1>3, <1>4 DEF Object
<1> QED BY <1>1, <1>5 DEF Dup2, TypeOK

LEMMA RegularNames ==
  ASSUME TypeOK, NEW o \in Objects, IsRegular(o)
  PROVE  file[o].inode \in Filenames
BY DEF TypeOK, Object, IsRegular

LEMMA ReadTypes ==
  ASSUME TypeOK, NEW p \in Pids, NEW fd \in Fds, NEW count \in Counts, Read(p, fd, count)
  PROVE  TypeOK'
<1> DEFINE o == files[p][fd]
           n == BytesRead(file[o].inode, Signed(file[o].offp), count)
<1>1. o \in Objects /\ IsRegular(o)
  BY DEF Read, Open, TypeOK
<1>2. file[o].inode \in Filenames /\ Signed(file[o].offp) \in Int
  BY <1>1, RegularNames, Numbers DEF TypeOK, Object, Signed
<1>3. n \in Counts
  BY <1>2, Transfer
<1>4. file' = [file EXCEPT ![o] = Advanced(@, n)]
  BY DEF Read
<1> HIDE DEF n
<1>5. file' \in [Objects -> Object]
  BY <1>1, <1>3, <1>4, AdvancedTypes DEF TypeOK
<1> QED BY <1>5 DEF Read, TypeOK

LEMMA WriteStepTypes ==
  ASSUME TypeOK, NEW p \in Pids, NEW fd \in Fds, NEW count \in Counts, Write(p, fd, count)
  PROVE  TypeOK'
<1> DEFINE o == files[p][fd]
<1>1. o \in Objects /\ IsRegular(o) /\ WriteTo(o, file, count)
  BY DEF Write, Open, TypeOK
<1>2. file[o].inode \in Filenames /\ file \in [Objects -> Object]
  BY <1>1, RegularNames DEF TypeOK
<1>3. file' \in [Objects -> Object] /\ inode' \in [Filenames -> Inode]
  BY <1>1, <1>2, WriteTypes
<1> QED BY <1>3 DEF Write, TypeOK

LEMMA LseekTypes ==
  ASSUME TypeOK, NEW p \in Pids, NEW fd \in Fds, NEW offset \in Int, Lseek(p, fd, offset)
  PROVE  TypeOK'
<1> DEFINE o == files[p][fd]
           n == file[o].inode
<1>1. o \in Objects /\ IsRegular(o)
  BY DEF Lseek, Open, TypeOK
<1>2. n \in Filenames
  BY <1>1, RegularNames
<1>3. PICK base \in {0, file[o].offp, inode[n].file_size} :
        /\ base + offset \in 0 .. inode[n].file_size
        /\ file' = [file EXCEPT ![o].offp = Wrap(base + offset)]
  BY DEF Lseek
<1>4. base + offset \in 0 .. WORD - 1
  BY <1>2, <1>3, Numbers DEF TypeOK, Inode
<1>5. Wrap(base + offset) \in 0 .. WORD - 1
  BY <1>4, Numbers DEF Wrap
<1>6. file' \in [Objects -> Object]
  BY <1>1, <1>3, <1>5 DEF TypeOK, Object
<1> QED BY <1>6 DEF Lseek, TypeOK

\* The read half of a sendfile, with an offset of the caller's or its own.
LEMMA SendfileRead ==
  ASSUME TypeOK, NEW i \in Objects, NEW count \in Counts, IsRegular(i), NEW from \in Int,
         NEW f \in {file, [file EXCEPT ![i] = Advanced(@, BytesRead(file[i].inode, from, count))]}
  PROVE  /\ BytesRead(file[i].inode, from, count) \in Counts
         /\ f \in [Objects -> Object]
         /\ \A o \in Objects : f[o].inode = file[o].inode
<1> DEFINE n == BytesRead(file[i].inode, from, count)
<1>1. file[i].inode \in Filenames
  BY RegularNames
<1>2. n \in Counts
  BY <1>1, Transfer
<1> HIDE DEF n
<1>3. [file EXCEPT ![i] = Advanced(@, n)] \in [Objects -> Object]
  BY <1>2, AdvancedTypes DEF TypeOK
<1>4. \A o \in Objects : [file EXCEPT ![i] = Advanced(@, n)][o].inode = file[o].inode
  BY DEF Advanced, TypeOK, Object
<1>5. f = file \/ f = [file EXCEPT ![i] = Advanced(@, n)]
  BY DEF n
<1> QED BY <1>2, <1>3, <1>4, <1>5 DEF TypeOK, n

LEMMA SendfileTypes ==
  ASSUME TypeOK, NEW p \in Pids, NEW outfd \in Fds, NEW infd \in Fds, NEW own \in BOOLEAN,
         NEW offset \in Counts, NEW count \in Counts,
         Sendfile(p, outfd, infd, own, offset, count)
  PROVE  TypeOK'
<1> DEFINE i == files[p][infd]
           o == files[p][outfd]
           from == IF own THEN offset ELSE Signed(file[i].offp)
           n == BytesRead(file[i].inode, from, count)
           f == IF own THEN file ELSE [file EXCEPT ![i] = Advanced(@, n)]
<1>1. i \in Objects /\ o \in Objects /\ IsRegular(i) /\ IsRegular(o)
  BY DEF Sendfile, Open, TypeOK
<1>2. WriteTo(o, f, n)
  BY DEF Sendfile
<1>3. n \in Counts /\ f \in [Objects -> Object] /\ f[o].inode = file[o].inode
  <2>1. from \in Int
    BY <1>1, RegularNames, Numbers DEF TypeOK, Object, Signed, Counts
  <2>2. f \in {file, [file EXCEPT ![i] = Advanced(@, n)]}
    OBVIOUS
  <2> HIDE DEF from, f, i, o
  <2>3. n \in Counts
    BY <1>1, <2>1, <2>2, SendfileRead
  <2>4. f \in [Objects -> Object]
    <3> HIDE DEF n
    <3>1. [file EXCEPT ![i] = Advanced(@, n)] \in [Objects -> Object]
      BY <1>1, <2>3, AdvancedTypes DEF TypeOK
    <3>2. f = file \/ f = [file EXCEPT ![i] = Advanced(@, n)]
      BY <2>2
    <3> QED BY <3>1, <3>2 DEF TypeOK
  <2>5. \A x \in Objects : f[x].inode = file[x].inode
    BY <1>1, <2>1, <2>2, SendfileRead
  <2> QED BY <1>1, <2>3, <2>4, <2>5
<1>4. file[o].inode \in Filenames
  BY <1>1, RegularNames
<1> HIDE DEF n, f
<1>5. file' \in [Objects -> Object] /\ inode' \in [Filenames -> Inode]
  BY <1>1, <1>2, <1>3, <1>4, WriteTypes
<1> QED BY <1>5 DEF Sendfile, TypeOK

LEMMA ForkTypes ==
  ASSUME TypeOK, NEW p \in Pids, NEW c \in Pids, Fork(p, c)
  PROVE  TypeOK'
BY DEF Fork, TypeOK

LEMMA ExitTypes ==
  ASSUME TypeOK, NEW p \in Pids, Exit(p)
  PROVE  TypeOK'
<1>1. ASSUME NEW o \in Objects
      PROVE  [file[o] EXCEPT !.ref_count = Wrap(@ - References(p, o))] \in Object
  <2>1. Wrap(file[o].ref_count - References(p, o)) \in 0 .. WORD - 1
    BY CountTypes DEF TypeOK, Object
  <2> QED BY <2>1 DEF TypeOK, Object
<1>2. file' \in [Objects -> Object]
  BY <1>1 DEF Exit
<1> QED BY <1>2 DEF Exit, TypeOK

LEMMA TypeStep == TypeOK /\ [Next]_vars => TypeOK'
<1> SUFFICES ASSUME TypeOK, [Next]_vars
             PROVE  TypeOK'
  OBVIOUS
<1>1. ASSUME NEW p \in Pids, NEW fd \in Fds, Use(p, fd)
      PROVE  TypeOK'
  <2>1. CASE Close(p, fd)
    BY <2>1, CloseTypes
  <2>2. CASE \E newfd \in Fds : Dup2(p, fd, newfd)
    BY <2>2, Dup2Types
  <2>3. CASE \E count \in Counts : Read(p, fd, count) \/ Write(p, fd, count)
    BY <2>3, ReadTypes, WriteStepTypes
  <2>4. CASE \E offset \in -MAX_COUNT .. MAX_COUNT : Lseek(p, fd, offset)
    BY <2>4, LseekTypes
  <2>5. CASE \E infd \in Fds, own \in BOOLEAN, offset, count \in Counts :
               Sendfile(p, fd, infd, own, offset, count)
    BY <2>5, SendfileTypes
  <2> QED BY <1>1, <2>1, <2>2, <2>3, <2>4, <2>5 DEF Use
<1>2. CASE UNCHANGED vars
  BY <1>2 DEF vars, TypeOK
<1>3. CASE Next
  BY <1>1, <1>3, OpenTypes, StandardTypes, ForkTypes, ExitTypes DEF Next
<1> QED BY <1>2, <1>3

\* file.c and fs.c: the offset and the counter of a file object are u32 values,
\* and no file outgrows its pages, whatever processes do (Careless).
THEOREM TypeCorrect == Spec => []TypeOK
<1>1. Init => TypeOK
  BY TypeInit
<1>2. TypeOK /\ [Next]_vars => TypeOK'
  BY TypeStep
<1> QED BY <1>1, <1>2, PTL DEF Spec

----------------------------------------------------------------------------
\* Every object in table f whose file is regular lies open on a file that was
\* created, at an offset inside of it.  A file that is created has no objects yet,
\* also none in pages that were freed, so nothing can point behind its end.
Inside(f, cre, ino) ==
    \A o \in Objects : f[o].inode # StdFile =>
        f[o].inode \in cre /\ f[o].offp <= ino[f[o].inode].file_size

LEMMA InsideIsOffsetsInFile ==
  TypeOK /\ Inside(file, created, inode) => OffsetsInFile
BY DEF TypeOK, Inside, OffsetsInFile, IsRegular

LEMMA InsideInit == Init => Inside(file, created, inode)
<1> SUFFICES ASSUME Init
             PROVE  Inside(file, created, inode)
  OBVIOUS
<1>1. \A o \in Objects : file[o].inode = StdFile
  BY DEF Init, NewObject
<1> QED BY <1>1 DEF Inside

\* One object is moved to a place inside its file.
LEMMA InsideMoved ==
  ASSUME NEW f \in [Objects -> Object], NEW cre, NEW ino, Inside(f, cre, ino),
         NEW o \in Objects, NEW x, x <= ino[f[o].inode].file_size
  PROVE  Inside([f EXCEPT ![o].offp = x], cre, ino)
<1> DEFINE g == [f EXCEPT ![o].offp = x]
<1>1. \A q \in Objects : g[q].inode = f[q].inode /\ (q # o => g[q].offp = f[q].offp)
  BY DEF Object
<1>2. g[o].offp = x
  BY DEF Object
<1> HIDE DEF g
<1>3. Inside(g, cre, ino)
  BY <1>1, <1>2 DEF Inside
<1> QED BY <1>3 DEF g

\* Files grow.
LEMMA InsideGrown ==
  ASSUME NEW f \in [Objects -> Object], NEW cre \in SUBSET Filenames,
         NEW ino \in [Filenames -> Inode], NEW jno \in [Filenames -> Inode],
         Inside(f, cre, ino),
         \A n \in Filenames : ino[n].file_size <= jno[n].file_size
  PROVE  Inside(f, cre, jno)
<1> SUFFICES ASSUME NEW o \in Objects, f[o].inode # StdFile
             PROVE  f[o].inode \in cre /\ f[o].offp <= jno[f[o].inode].file_size
  BY DEF Inside
<1>1. f[o].inode \in cre /\ f[o].offp <= ino[f[o].inode].file_size
  BY DEF Inside
<1>2. f[o].inode \in Filenames
  BY <1>1
<1>3. ino[f[o].inode].file_size \in Int /\ jno[f[o].inode].file_size \in Int /\ f[o].offp \in Int
  BY <1>2, Numbers DEF Inode, Object
<1> QED BY <1>1, <1>2, <1>3

\* An offset inside a file is a small number, the same as u32 and as int.
LEMMA SmallOffset ==
  ASSUME TypeOK, NEW f \in [Objects -> Object], Inside(f, created, inode),
         NEW o \in Objects, f[o].inode # StdFile
  PROVE  /\ f[o].inode \in Filenames
         /\ f[o].offp \in 0 .. FILE_SIZE
         /\ Signed(f[o].offp) = f[o].offp
         /\ inode[f[o].inode].file_size \in 0 .. FILE_SIZE
<1>1. f[o].inode \in Filenames /\ f[o].offp \in 0 .. WORD - 1
  BY DEF Object
<1>2. inode[f[o].inode].file_size \in 0 .. FILE_SIZE
  BY <1>1 DEF TypeOK, Inode
<1>3. f[o].offp <= inode[f[o].inode].file_size
  BY DEF Inside
<1>4. f[o].offp \in 0 .. FILE_SIZE
  BY <1>1, <1>2, <1>3, Numbers
<1> QED BY <1>1, <1>2, <1>4, Numbers DEF Signed

LEMMA InsideRead ==
  ASSUME TypeOK, NEW f \in [Objects -> Object], Inside(f, created, inode),
         NEW o \in Objects, f[o].inode # StdFile, NEW count \in Counts
  PROVE  Inside([f EXCEPT ![o] = Advanced(@, BytesRead(f[o].inode, Signed(f[o].offp), count))],
                created, inode)
<1> DEFINE n == BytesRead(f[o].inode, Signed(f[o].offp), count)
<1>1. f[o].inode \in Filenames /\ f[o].offp \in 0 .. FILE_SIZE /\ Signed(f[o].offp) = f[o].offp
      /\ inode[f[o].inode].file_size \in 0 .. FILE_SIZE
  BY SmallOffset
<1>2. f[o].offp <= inode[f[o].inode].file_size
  BY DEF Inside
<1>3. n \in Counts /\ (f[o].offp + n <= inode[f[o].inode].file_size \/ n = 0)
  BY <1>1, Transfer, Numbers
<1> HIDE DEF n
<1>4. f[o].offp + n \in 0 .. FILE_SIZE /\ f[o].offp + n <= inode[f[o].inode].file_size
  BY <1>1, <1>2, <1>3, Numbers DEF Counts
<1>5. Wrap(f[o].offp + n) = f[o].offp + n
  BY <1>4, Numbers DEF Wrap
<1>6. [f EXCEPT ![o] = Advanced(@, n)] = [f EXCEPT ![o].offp = Wrap(f[o].offp + n)]
  BY DEF Advanced
<1>7. Inside([f EXCEPT ![o].offp = Wrap(f[o].offp + n)], created, inode)
  BY <1>4, <1>5, InsideMoved
<1> QED BY <1>6, <1>7 DEF n

LEMMA InsideWrite ==
  ASSUME TypeOK, NEW f \in [Objects -> Object], Inside(f, created, inode),
         NEW o \in Objects, f[o].inode # StdFile, NEW count \in Counts,
         WriteTo(o, f, count), "write" \notin Careless
  PROVE  Inside(file', created, inode')
<1> DEFINE off == Signed(f[o].offp)
           w == BytesWritten(off, count)
           size == inode[f[o].inode].file_size
<1>1. f[o].inode \in Filenames /\ f[o].offp \in 0 .. FILE_SIZE /\ off = f[o].offp
      /\ size \in 0 .. FILE_SIZE
  BY SmallOffset
<1>2. /\ w \in Counts \cup {-1} /\ (w # -1 => off + w <= FILE_SIZE)
  BY <1>1, Transfer, Numbers
<1>3. /\ (w < 0 => FALSE)
      /\ file' = [f EXCEPT ![o] = Advanced(@, w)]
      /\ inode' = [inode EXCEPT ![f[o].inode].file_size = SizeAfter(@, off, w)]
  BY DEF WriteTo
<1> HIDE DEF off, w, size
<1>4. w \in Counts
  BY <1>2, <1>3, Numbers DEF Counts
<1>5. /\ SizeAfter(size, off, w) \in 0 .. FILE_SIZE
      /\ size <= SizeAfter(size, off, w)
      /\ off + w <= SizeAfter(size, off, w)
  <2>1. off \in Int /\ -1 \notin Counts
    BY <1>1, Numbers DEF Counts
  <2> QED BY <1>1, <1>2, <1>4, <2>1, Sizes
<1>6. inode' \in [Filenames -> Inode]
  BY <1>1, <1>3, <1>5 DEF TypeOK, Inode, size
<1>7. \A n \in Filenames : inode[n].file_size <= inode'[n].file_size
  <2> SUFFICES ASSUME NEW n \in Filenames
               PROVE  inode[n].file_size <= inode'[n].file_size
    OBVIOUS
  <2>1. inode[n].file_size \in Int
    BY Numbers DEF TypeOK, Inode
  <2>2. CASE n = f[o].inode
    BY <1>1, <1>3, <1>5, <2>2 DEF TypeOK, Inode, size
  <2>3. CASE n # f[o].inode
    BY <1>1, <1>3, <2>1, <2>3 DEF TypeOK, Inode
  <2> QED BY <2>2, <2>3
<1>8. Inside(f, created, inode')
  BY <1>6, <1>7, InsideGrown DEF TypeOK
<1>9. Wrap(f[o].offp + w) = off + w
  BY <1>1, <1>2, <1>4, Numbers DEF Wrap, Counts
<1>10. inode'[f[o].inode].file_size = SizeAfter(size, off, w)
  BY <1>1, <1>3 DEF TypeOK, Inode, size
<1>11. [f EXCEPT ![o] = Advanced(@, w)] = [f EXCEPT ![o].offp = Wrap(f[o].offp + w)]
  BY DEF Advanced
<1>12. Inside([f EXCEPT ![o].offp = Wrap(f[o].offp + w)], created, inode')
  BY <1>5, <1>8, <1>9, <1>10, InsideMoved
<1> QED BY <1>3, <1>11, <1>12

\* Steps that put nothing but new objects into pages, and leave offsets alone.
LEMMA InsideSame ==
  ASSUME TypeOK, NEW f \in [Objects -> Object], Inside(file, created, inode),
         \A o \in Objects : f[o].inode = file[o].inode /\ f[o].offp = file[o].offp
  PROVE  Inside(f, created, inode)
BY DEF Inside

LEMMA InsideOpen ==
  ASSUME TypeOK, Inside(file, created, inode), NEW p \in Pids, NEW n \in Filenames,
         NEW flags \in OpenModes, NEW m \in OpenModes, NEW creat,
         OpenFile(p, n, flags, creat, m)
  PROVE  Inside(file', created', inode')
<1>1. PICK o \in Objects \ allocated : file' = [file EXCEPT ![o] = NewObject(n, flags)]
  BY DEF OpenFile
<1>2. n \in created' /\ created \subseteq created'
      /\ \A k \in created : inode'[k] = inode[k]
  BY DEF OpenFile, FindOrCreate, TypeOK
<1>3. inode' \in [Filenames -> Inode]
  <2>1. [mode |-> m, file_size |-> 0] \in Inode
    BY OpenModesAreModes, Numbers DEF Inode
  <2> QED BY <2>1 DEF OpenFile, FindOrCreate, TypeOK
<1>4. inode'[n].file_size >= 0
  BY <1>3, Numbers DEF Inode
<1>5. ASSUME NEW q \in Objects, file'[q].inode # StdFile
      PROVE  file'[q].inode \in created' /\ file'[q].offp <= inode'[file'[q].inode].file_size
  <2>1. CASE q = o
    BY <1>1, <1>2, <1>4, <2>1 DEF TypeOK, NewObject
  <2>2. CASE q # o
    <3>1. file'[q] = file[q]
      BY <1>1, <2>2 DEF TypeOK
    <3>2. file[q].inode \in created /\ file[q].offp <= inode[file[q].inode].file_size
      BY <1>5, <3>1 DEF Inside
    <3> QED BY <1>2, <3>1, <3>2
  <2> QED BY <2>1, <2>2
<1> QED BY <1>5 DEF Inside

LEMMA InsideStandard ==
  ASSUME TypeOK, TypeOK', Inside(file, created, inode), NEW p \in Pids, NEW type \in Stdfds,
         OpenStandard(p, type)
  PROVE  Inside(file', created', inode')
<1>1. created' = created /\ inode' = inode
  BY DEF OpenStandard
<1>2. CASE files[p][type] = NULL
  <2>1. PICK o \in Objects : file' = [file EXCEPT ![o] = NewObject(StdFile, StdMode(type))]
    BY <1>2, NullIsNoObject DEF OpenStandard, Open, TypeOK
  <2> QED BY <1>1, <2>1 DEF Inside, TypeOK, NewObject
<1>3. CASE files[p][type] # NULL
  <2>1. file' = [file EXCEPT ![files[p][type]].ref_count = Counted(@)]
    BY <1>3 DEF OpenStandard
  <2>2. \A o \in Objects : file'[o].inode = file[o].inode /\ file'[o].offp = file[o].offp
    BY <2>1 DEF TypeOK, Object
  <2> QED BY <1>1, <2>2, InsideSame DEF TypeOK
<1> QED BY <1>2, <1>3

LEMMA InsideUse ==
  ASSUME TypeOK, TypeOK', Inside(file, created, inode), "write" \notin Careless,
         NEW p \in Pids, NEW fd \in Fds, Use(p, fd)
  PROVE  Inside(file', created', inode')
<1>1. CASE Close(p, fd)
  <2>1. \A o \in Objects : file'[o].inode = file[o].inode /\ file'[o].offp = file[o].offp
    BY <1>1 DEF Close, TypeOK, Object
  <2> QED BY <1>1, <2>1, InsideSame DEF TypeOK, Close
<1>2. ASSUME NEW newfd \in Fds, Dup2(p, fd, newfd)
      PROVE  Inside(file', created', inode')
  <2> DEFINE o == files[p][newfd]
             closed == IF o = NULL THEN file ELSE [file EXCEPT ![o].ref_count = Wrap(@ - 1)]
  <2>1. \A q \in Objects : closed[q].inode = file[q].inode /\ closed[q].offp = file[q].offp
    BY DEF TypeOK, Object
  <2>2. DOMAIN closed = Objects
    BY DEF TypeOK
  <2>3. file' = [closed EXCEPT ![files[p][fd]].ref_count = Counted(@)]
    BY <1>2 DEF Dup2
  <2> HIDE DEF closed
  <2>4. \A q \in Objects : file'[q].inode = closed[q].inode /\ file'[q].offp = closed[q].offp
    BY <2>2, <2>3
  <2>5. \A q \in Objects : file'[q].inode = file[q].inode /\ file'[q].offp = file[q].offp
    BY <2>1, <2>4
  <2>6. created' = created /\ inode' = inode
    BY <1>2 DEF Dup2
  <2>7. file' \in [Objects -> Object]
    BY DEF TypeOK
  <2> QED BY <2>5, <2>6, <2>7, InsideSame DEF TypeOK
<1>3. ASSUME NEW count \in Counts, Read(p, fd, count)
      PROVE  Inside(file', created', inode')
  <2>1. files[p][fd] \in Objects /\ file[files[p][fd]].inode # StdFile
    BY <1>3 DEF Read, Open, TypeOK, IsRegular
  <2>2. file' = [file EXCEPT ![files[p][fd]] =
                  Advanced(@, BytesRead(file[files[p][fd]].inode,
                                        Signed(file[files[p][fd]].offp), count))]
    BY <1>3, <2>1 DEF Read
  <2>3. Inside(file', created, inode)
    BY <2>1, <2>2, InsideRead DEF TypeOK
  <2> QED BY <1>3, <2>3 DEF Read
<1>4. ASSUME NEW count \in Counts, Write(p, fd, count)
      PROVE  Inside(file', created', inode')
  <2>1. files[p][fd] \in Objects /\ file[files[p][fd]].inode # StdFile
    BY <1>4 DEF Write, Open, TypeOK, IsRegular
  <2>2. WriteTo(files[p][fd], file, count) /\ created' = created
    BY <1>4 DEF Write
  <2> QED BY <2>1, <2>2, InsideWrite DEF TypeOK
<1>5. ASSUME NEW offset \in -MAX_COUNT .. MAX_COUNT, Lseek(p, fd, offset)
      PROVE  Inside(file', created', inode')
  <2> DEFINE o == files[p][fd]
             n == file[o].inode
  <2>1. o \in Objects /\ IsRegular(o)
    BY <1>5 DEF Lseek, Open, TypeOK
  <2>2. n \in Filenames
    BY <2>1, RegularNames
  <2>3. PICK base \in {0, file[o].offp, inode[n].file_size} :
          /\ base + offset \in 0 .. inode[n].file_size
          /\ file' = [file EXCEPT ![o].offp = Wrap(base + offset)]
    BY <1>5 DEF Lseek
  <2>4. Wrap(base + offset) = base + offset /\ base + offset <= inode[n].file_size
    BY <2>2, <2>3, Numbers DEF TypeOK, Inode, Wrap
  <2>5. Inside(file', created, inode)
    BY <2>1, <2>3, <2>4, InsideMoved DEF TypeOK
  <2> QED BY <1>5, <2>5 DEF Lseek
<1>6. ASSUME NEW infd \in Fds, NEW own \in BOOLEAN, NEW offset \in Counts, NEW count \in Counts,
             Sendfile(p, fd, infd, own, offset, count)
      PROVE  Inside(file', created', inode')
  <2> DEFINE i == files[p][infd]
             o == files[p][fd]
             from == IF own THEN offset ELSE Signed(file[i].offp)
             n == BytesRead(file[i].inode, from, count)
             f == IF own THEN file ELSE [file EXCEPT ![i] = Advanced(@, n)]
  <2>1. i \in Objects /\ o \in Objects /\ IsRegular(i) /\ IsRegular(o)
    BY <1>6 DEF Sendfile, Open, TypeOK
  <2>2. WriteTo(o, f, n) /\ created' = created
    BY <1>6 DEF Sendfile
  <2>3. from \in Int
    BY <2>1, RegularNames, Numbers DEF TypeOK, Object, Signed, Counts
  <2>4. Inside(f, created, inode)
    <3>1. CASE own
      BY <3>1
    <3>2. CASE ~ own
      <4>1. f = [file EXCEPT ![i] = Advanced(@, BytesRead(file[i].inode, Signed(file[i].offp), count))]
        BY <3>2
      <4> QED BY <2>1, <4>1, InsideRead DEF TypeOK, IsRegular
    <3> QED BY <3>1, <3>2
  <2>5. n \in Counts
    BY <2>1, <2>3, RegularNames, Transfer
  <2>6. f \in [Objects -> Object]
    <3> HIDE DEF n
    <3>1. [file EXCEPT ![i] = Advanced(@, n)] \in [Objects -> Object]
      BY <2>1, <2>5, AdvancedTypes DEF TypeOK
    <3>2. f = file \/ f = [file EXCEPT ![i] = Advanced(@, n)]
      OBVIOUS
    <3> QED BY <3>1, <3>2 DEF TypeOK
  <2>7. f[o].inode = file[o].inode
    <3> HIDE DEF n
    <3>1. f = file \/ f = [file EXCEPT ![i] = Advanced(@, n)]
      OBVIOUS
    <3> HIDE DEF f
    <3> QED BY <2>1, <3>1 DEF TypeOK, Object, Advanced
  <2>8. f[o].inode # StdFile
    BY <2>1, <2>7 DEF IsRegular
  <2> HIDE DEF n, f, i, o
  <2> QED BY <2>1, <2>2, <2>4, <2>5, <2>6, <2>8, InsideWrite
<1> QED BY <1>1, <1>2, <1>3, <1>4, <1>5, <1>6 DEF Use

LEMMA InsideStep ==
  ASSUME TypeOK, Inside(file, created, inode), "write" \notin Careless, [Next]_vars
  PROVE  Inside(file', created', inode')
<1>1. TypeOK'
  BY TypeStep
<1>2. ASSUME NEW p \in Pids, Exit(p)
      PROVE  Inside(file', created', inode')
  <2>1. \A o \in Objects : file'[o].inode = file[o].inode /\ file'[o].offp = file[o].offp
    BY <1>2 DEF Exit, TypeOK, Object
  <2> QED BY <1>1, <1>2, <2>1, InsideSame DEF TypeOK, Exit
<1>3. ASSUME NEW p \in Pids, NEW c \in Pids, Fork(p, c)
      PROVE  Inside(file', created', inode')
  BY <1>3 DEF Fork
<1>4. CASE UNCHANGED vars
  BY <1>4 DEF vars
<1>5. CASE Next
  BY <1>1, <1>2, <1>3, <1>5, InsideOpen, InsideStandard, InsideUse DEF Next
<1> QED BY <1>4, <1>5

\* file.c:126-225, 295-316 and fs.c:299-346: as long as no write fails, offsets stay
\* inside the files, with any number of objects open on one file and of
\* processes and descriptors that share an object.
THEOREM OffsetsStayInFile ==
  ASSUME "write" \notin Careless
  PROVE  Spec => []OffsetsInFile
<1> DEFINE Inv == TypeOK /\ Inside(file, created, inode)
<1>1. Init => Inv
  BY TypeInit, InsideInit
<1>2. Inv /\ [Next]_vars => Inv'
  <2> SUFFICES ASSUME Inv, [Next]_vars
               PROVE  Inv'
    OBVIOUS
  <2>1. TypeOK'
    BY TypeStep
  <2>2. Inside(file', created', inode')
    BY InsideStep
  <2>3. Inside(file, created, inode)'
    BY <2>2 DEF Inside
  <2> QED BY <2>1, <2>3
<1>3. Inv => OffsetsInFile
  BY InsideIsOffsetsInFile
<1> QED BY <1>1, <1>2, <1>3, PTL DEF Spec

----------------------------------------------------------------------------
\* The reference counts, for processes that fork before they have descriptors and
\* do not duplicate one onto itself.
\* The inductive invariant.
Referenced ==
    \A o \in Objects : IsNamed(o) =>
        o \in allocated /\ file[o].ref_count = Cardinality(NamesOf(o))

\* What a step must do about object o.
Kept(o) ==
    /\ IsNamed(o)' => o \in allocated' /\ file'[o].ref_count = Cardinality(NamesOf(o)')
    /\ IsNamed(o) /\ ~ IsNamed(o)' => o \notin allocated'

\* Process p gets v at descriptor fd.
Puts(p, fd, v) == live' = live /\ files' = [files EXCEPT ![p][fd] = v]

----------------------------------------------------------------------------
\* Descriptors as sets.

LEMMA PlacesAreFew ==
  /\ IsFiniteSet(Pids \X Fds)
  /\ Cardinality(Pids \X Fds) < WORD - 1
<1>1. IsFiniteSet(Pids) /\ Cardinality(Pids) = MAX_PROCESSES - 1
  <2>1. MAX_PROCESSES - 1 \in Int /\ 1 \in Int
    BY Numbers
  <2> QED BY <2>1, Numbers, FS_Interval DEF Pids
<1>2. IsFiniteSet(Fds) /\ Cardinality(Fds) = MAX_OPEN_FILES
  BY FdsAreFinite
<1>3. /\ IsFiniteSet(Pids \X Fds)
      /\ Cardinality(Pids \X Fds) = (MAX_PROCESSES - 1) * MAX_OPEN_FILES
  BY <1>1, <1>2, FS_Product
<1>4. (MAX_PROCESSES - 1) * MAX_OPEN_FILES + MAX_OPEN_FILES = MAX_PROCESSES * MAX_OPEN_FILES
  BY Numbers, SMTT(30)
<1>5. MAX_OPEN_FILES >= 1
  BY FileBounds
<1>6. /\ (MAX_PROCESSES - 1) * MAX_OPEN_FILES \in Int
      /\ MAX_PROCESSES * MAX_OPEN_FILES \in Int
  BY Numbers, SMTT(30)
<1> QED BY <1>3, <1>4, <1>5, <1>6, Numbers, FileBounds

LEMMA NamesAreFew ==
  ASSUME TypeOK, NEW o
  PROVE  /\ IsFiniteSet(NamesOf(o))
         /\ Cardinality(NamesOf(o)) \in 0 .. WORD - 2
         /\ IsNamed(o) <=> Cardinality(NamesOf(o)) # 0
<1>1. NamesOf(o) \in SUBSET (Pids \X Fds)
  BY DEF NamesOf, TypeOK
<1>2. /\ IsFiniteSet(NamesOf(o))
      /\ Cardinality(NamesOf(o)) <= Cardinality(Pids \X Fds)
  BY <1>1, PlacesAreFew, FS_Subset
<1>3. Cardinality(NamesOf(o)) \in Nat /\ Cardinality(Pids \X Fds) \in Nat
  BY <1>2, PlacesAreFew, FS_CardinalityType
<1>4. Cardinality(NamesOf(o)) = 0 <=> NamesOf(o) = {}
  BY <1>2, FS_EmptySet
<1> QED BY <1>2, <1>3, <1>4, PlacesAreFew, Numbers DEF IsNamed

LEMMA NamesAfter ==
  ASSUME TypeOK, NEW p \in live, NEW fd \in Fds, NEW v, Puts(p, fd, v)
  PROVE  \A o : /\ o = v => NamesOf(o)' = NamesOf(o) \cup {<<p, fd>>}
                /\ o # v => NamesOf(o)' = NamesOf(o) \ {<<p, fd>>}
<1> SUFFICES ASSUME NEW o
             PROVE  /\ o = v => NamesOf(o)' = NamesOf(o) \cup {<<p, fd>>}
                    /\ o # v => NamesOf(o)' = NamesOf(o) \ {<<p, fd>>}
  OBVIOUS
<1>1. p \in Pids /\ files \in [Pids -> [Fds -> Objects \cup {NULL}]] /\ live \subseteq Pids
  BY DEF TypeOK
<1>2. \A q \in live, g \in Fds :
        files'[q][g] = IF q = p /\ g = fd THEN v ELSE files[q][g]
  BY <1>1 DEF Puts
<1>3. \A d \in live \X Fds : d = <<d[1], d[2]>> /\ d[1] \in live /\ d[2] \in Fds
  OBVIOUS
<1>4. \A d \in live \X Fds : files'[d[1]][d[2]] = IF d = <<p, fd>> THEN v ELSE files[d[1]][d[2]]
  BY <1>2, <1>3
<1>5. NamesOf(o)' = {d \in live \X Fds : files'[d[1]][d[2]] = o}
  BY DEF NamesOf, Puts
<1>6. <<p, fd>> \in live \X Fds
  OBVIOUS
<1> QED BY <1>4, <1>5, <1>6 DEF NamesOf

----------------------------------------------------------------------------
\* What can happen to one object.

LEMMA Untouched ==
  ASSUME TypeOK, Referenced, NEW o \in Objects, NamesOf(o)' = NamesOf(o),
         o \in allocated => o \in allocated', file'[o].ref_count = file[o].ref_count
  PROVE  Kept(o)
BY DEF Referenced, Kept, IsNamed

LEMMA Gains ==
  ASSUME TypeOK, Referenced, NEW o \in Objects, IsNamed(o), o \in allocated',
         NEW d, d \notin NamesOf(o), NamesOf(o)' = NamesOf(o) \cup {d},
         file'[o].ref_count = Counted(file[o].ref_count)
  PROVE  Kept(o)
<1>1. Cardinality(NamesOf(o)') = Cardinality(NamesOf(o)) + 1
  BY NamesAreFew, FS_AddElement
<1>2. file[o].ref_count = Cardinality(NamesOf(o))
  BY DEF Referenced
<1>3. Cardinality(NamesOf(o)) \in 0 .. WORD - 2
  BY NamesAreFew
<1>4. file'[o].ref_count = Cardinality(NamesOf(o)')
  BY <1>1, <1>2, <1>3, Numbers DEF Counted, Wrap
<1>5. IsNamed(o)'
  BY DEF IsNamed
<1> QED BY <1>4, <1>5 DEF Kept

LEMMA Loses ==
  ASSUME TypeOK, Referenced, NEW o \in Objects,
         NEW d \in NamesOf(o), NamesOf(o)' = NamesOf(o) \ {d},
         file'[o].ref_count = Wrap(file[o].ref_count - 1),
         o \in allocated' <=> file[o].ref_count # 1 /\ o \in allocated
  PROVE  Kept(o)
<1>1. /\ IsFiniteSet(NamesOf(o)')
      /\ Cardinality(NamesOf(o)') = Cardinality(NamesOf(o)) - 1
  BY NamesAreFew, FS_RemoveElement
<1>2. file[o].ref_count = Cardinality(NamesOf(o)) /\ o \in allocated
  BY DEF Referenced, IsNamed
<1>3. Cardinality(NamesOf(o)) \in 0 .. WORD - 2 /\ Cardinality(NamesOf(o)) # 0
  BY NamesAreFew DEF IsNamed
<1>4. file'[o].ref_count = Cardinality(NamesOf(o)')
  BY <1>1, <1>2, <1>3, Numbers DEF Wrap
<1>5. IsNamed(o)' <=> Cardinality(NamesOf(o)') # 0
  BY <1>1, FS_EmptySet DEF IsNamed
<1> QED BY <1>1, <1>2, <1>3, <1>4, <1>5 DEF Kept

----------------------------------------------------------------------------
\* The steps.

LEMMA CountInit == Init => Referenced
<1> SUFFICES ASSUME Init
             PROVE  Referenced
  OBVIOUS
<1>1. 1 \in Pids /\ live = {1} /\ Stdfds \subseteq Fds
  BY Numbers, FdsAreFinite DEF Init, Pids
<1>2. PICK f \in [Stdfds -> Objects] :
        /\ \A i, j \in Stdfds : f[i] = f[j] => i = j
        /\ files = [p \in Pids |-> [fd \in Fds |->
                       IF p = 1 /\ fd \in Stdfds THEN f[fd] ELSE NULL]]
        /\ allocated = {f[i] : i \in Stdfds}
        /\ file = [o \in Objects |->
              IF \E i \in Stdfds : f[i] = o
                THEN NewObject(StdFile, StdMode(CHOOSE i \in Stdfds : f[i] = o))
                ELSE NewObject(StdFile, {})]
  BY DEF Init
<1> SUFFICES ASSUME NEW o \in Objects, IsNamed(o)
             PROVE  o \in allocated /\ file[o].ref_count = Cardinality(NamesOf(o))
  BY DEF Referenced
<1>3. PICK d \in live \X Fds : files[d[1]][d[2]] = o
  BY DEF IsNamed, NamesOf
<1>4. \A e \in live \X Fds : e = <<1, e[2]>> /\ e[2] \in Fds
  BY <1>1
<1>5. \A e \in live \X Fds :
        files[e[1]][e[2]] = IF e[2] \in Stdfds THEN f[e[2]] ELSE NULL
  BY <1>1, <1>2
<1>6. d[2] \in Stdfds /\ f[d[2]] = o
  BY <1>3, <1>5, NullIsNoObject
<1>7. NamesOf(o) = {d}
  BY <1>2, <1>3, <1>4, <1>5, <1>6, NullIsNoObject DEF NamesOf
<1>8. file[o].ref_count = 1 /\ o \in allocated
  BY <1>2, <1>6 DEF NewObject
<1> QED BY <1>7, <1>8, FS_Singleton

\* A new object o, at descriptor fd of p or at none.
LEMMA CountNew ==
  ASSUME TypeOK, Referenced, NEW p \in live, NEW fd \in Fds, files[p][fd] = NULL,
         NEW o \in Objects \ allocated, NEW r, r.ref_count = 1, live' = live,
         allocated' = allocated \cup {o}, file' = [file EXCEPT ![o] = r],
         files' = [files EXCEPT ![p][fd] = o] \/ files' = files,
         NEW q \in Objects
  PROVE  Kept(q)
<1>1. NamesOf(o) = {}
  BY DEF Referenced, IsNamed
<1>2. CASE files' = files
  <2>1. NamesOf(q)' = NamesOf(q)
    BY <1>2 DEF NamesOf
  <2>2. CASE q = o
    BY <1>1, <2>1, <2>2 DEF Kept, IsNamed
  <2>3. CASE q # o
    BY <2>1, <2>3, Untouched DEF TypeOK
  <2> QED BY <2>2, <2>3
<1>3. CASE files' = [files EXCEPT ![p][fd] = o]
  <2> Puts(p, fd, o)
    BY <1>3 DEF Puts
  <2>1. CASE q = o
    <3>1. NamesOf(o)' = {<<p, fd>>}
      BY <1>1, NamesAfter
    <3>2. Cardinality(NamesOf(o)') = 1
      BY <3>1, FS_Singleton
    <3>3. file'[o].ref_count = 1
      BY DEF TypeOK
    <3> QED BY <1>1, <2>1, <3>2, <3>3 DEF Kept, IsNamed
  <2>2. CASE q # o
    <3>1. NamesOf(q)' = NamesOf(q) \ {<<p, fd>>}
      BY <2>2, NamesAfter
    <3>2. <<p, fd>> \notin NamesOf(q)
      BY NullIsNoObject DEF NamesOf
    <3>3. NamesOf(q)' = NamesOf(q)
      BY <3>1, <3>2
    <3> QED BY <2>2, <3>3, Untouched DEF TypeOK
  <2> QED BY <2>1, <2>2
<1> QED BY <1>2, <1>3

LEMMA CountOpen ==
  ASSUME TypeOK, Referenced, NEW p \in Pids, NEW n \in Filenames, NEW flags \in OpenModes,
         NEW m \in OpenModes, NEW creat \in BOOLEAN, OpenFile(p, n, flags, creat, m),
         NEW q \in Objects
  PROVE  Kept(q)
<1>1. p \in live /\ live' = live
  BY DEF OpenFile
<1>2. PICK o \in Objects \ allocated :
        /\ allocated' = allocated \cup {o}
        /\ file' = [file EXCEPT ![o] = NewObject(n, flags)]
        /\ \/ \E fd \in Fds : /\ TakesFree(p, fd)
                              /\ files' = [files EXCEPT ![p][fd] = o]
           \/ NoneFree(p) /\ UNCHANGED files
  BY DEF OpenFile
<1>3. NewObject(n, flags).ref_count = 1
  BY DEF NewObject
<1>4. ASSUME NEW fd \in Fds, TakesFree(p, fd), files' = [files EXCEPT ![p][fd] = o]
      PROVE  Kept(q)
  <2>1. files[p][fd] = NULL
    BY <1>4 DEF TakesFree
  <2> QED BY <1>1, <1>2, <1>3, <1>4, <2>1, CountNew
<1>5. CASE UNCHANGED files
  <2>1. NamesOf(q)' = NamesOf(q)
    BY <1>1, <1>5 DEF NamesOf
  <2>2. CASE q = o
    BY <1>2, <2>1, <2>2 DEF Kept, IsNamed, Referenced
  <2>3. CASE q # o
    BY <1>2, <2>1, <2>3, Untouched DEF TypeOK
  <2> QED BY <2>2, <2>3
<1> QED BY <1>2, <1>4, <1>5

LEMMA CountClose ==
  ASSUME TypeOK, Referenced, NEW p \in Pids, NEW fd \in Fds, Close(p, fd), NEW q \in Objects
  PROVE  Kept(q)
<1> DEFINE o == files[p][fd]
<1>1. p \in live /\ live' = live /\ o \in Objects /\ o \in allocated
  BY DEF Close, Open, TypeOK
<1>2. Puts(p, fd, NULL)
  BY <1>1 DEF Puts, Close
<1>3. NamesOf(q)' = NamesOf(q) \ {<<p, fd>>}
  BY <1>1, <1>2, NullIsNoObject, NamesAfter
<1>4. CASE q = o
  <2>1. <<p, fd>> \in NamesOf(q)
    BY <1>1, <1>4 DEF NamesOf
  <2>2. file'[q].ref_count = Wrap(file[q].ref_count - 1)
    BY <1>1, <1>4 DEF Close, TypeOK, Object
  <2>3. q \in allocated' <=> file[q].ref_count # 1 /\ q \in allocated
    BY <1>1, <1>4 DEF Close
  <2> QED BY <1>3, <2>1, <2>2, <2>3, Loses
<1>5. CASE q # o
  <2>1. NamesOf(q)' = NamesOf(q)
    BY <1>3, <1>5 DEF NamesOf
  <2>2. file'[q].ref_count = file[q].ref_count /\ (q \in allocated => q \in allocated')
    BY <1>1, <1>5 DEF Close, TypeOK
  <2> QED BY <2>1, <2>2, Untouched
<1> QED BY <1>4, <1>5

LEMMA CountStandard ==
  ASSUME TypeOK, Referenced, NEW p \in Pids, NEW type \in Stdfds, OpenStandard(p, type),
         NEW q \in Objects
  PROVE  Kept(q)
<1>1. p \in live /\ live' = live /\ type \in Fds
  BY FdsAreFinite DEF OpenStandard
<1>2. CASE files[p][type] = NULL
  <2>1. PICK o \in Objects \ allocated :
          /\ allocated' = allocated \cup {o}
          /\ file' = [file EXCEPT ![o] = NewObject(StdFile, StdMode(type))]
          /\ files' = [files EXCEPT ![p][type] = o]
    BY <1>2, NullIsNoObject DEF OpenStandard, Open, TypeOK
  <2>2. NewObject(StdFile, StdMode(type)).ref_count = 1
    BY DEF NewObject
  <2> QED BY <1>1, <1>2, <2>1, <2>2, CountNew
<1>3. CASE Open(p, type) /\ files[p][type] # NULL
  <2> DEFINE o == files[p][type]
  <2>1. PICK fd \in Fds : TakesFree(p, fd) /\ files' = [files EXCEPT ![p][fd] = o]
    BY <1>3 DEF OpenStandard
  <2>2. /\ file' = [file EXCEPT ![o].ref_count = Counted(@)]
        /\ allocated' = allocated
    BY <1>3 DEF OpenStandard
  <2>3. o \in Objects /\ o \in allocated /\ <<p, type>> \in NamesOf(o)
    BY <1>1, <1>3 DEF Open, TypeOK, NamesOf
  <2>4. Puts(p, fd, o)
    BY <1>1, <2>1 DEF Puts
  <2>5. \A x \in Objects : <<p, fd>> \notin NamesOf(x)
    BY <2>1, NullIsNoObject DEF TakesFree, NamesOf
  <2>6. CASE q = o
    <3>1. NamesOf(q)' = NamesOf(q) \cup {<<p, fd>>}
      BY <1>1, <2>4, <2>6, NamesAfter
    <3>2. file'[q].ref_count = Counted(file[q].ref_count)
      BY <2>2, <2>3, <2>6 DEF TypeOK, Object
    <3> QED BY <2>2, <2>3, <2>5, <2>6, <3>1, <3>2, Gains DEF IsNamed
  <2>7. CASE q # o
    <3>1. NamesOf(q)' = NamesOf(q) \ {<<p, fd>>}
      BY <1>1, <2>4, <2>7, NamesAfter
    <3>2. NamesOf(q)' = NamesOf(q)
      BY <2>5, <3>1
    <3>3. file'[q].ref_count = file[q].ref_count
      BY <2>2, <2>3, <2>7 DEF TypeOK
    <3> QED BY <2>2, <3>2, <3>3, Untouched
  <2> QED BY <2>6, <2>7
<1> QED BY <1>2, <1>3 DEF OpenStandard

\* The object a that oldfd names gains a descriptor, and b, which newfd named,
\* loses one; when they are the same object it keeps its number.
LEMMA CountDup2 ==
  ASSUME TypeOK, Referenced, NEW p \in Pids, NEW oldfd \in Fds, NEW newfd \in Fds,
         oldfd # newfd, Dup2(p, oldfd, newfd), NEW q \in Objects
  PROVE  Kept(q)
<1> DEFINE a == files[p][oldfd]
           b == files[p][newfd]
           d == <<p, newfd>>
           e == <<p, oldfd>>
           closed == IF b = NULL THEN file ELSE [file EXCEPT ![b].ref_count = Wrap(@ - 1)]
<1>1. p \in live /\ live' = live /\ a \in Objects /\ a \in allocated /\ b \in Objects \cup {NULL}
  BY DEF Dup2, Open, TypeOK
<1>2. Puts(p, newfd, a)
  BY <1>1 DEF Puts, Dup2
<1>3. /\ file' = [closed EXCEPT ![a].ref_count = Counted(@)]
      /\ allocated' = IF b # NULL /\ file[b].ref_count = 1 THEN allocated \ {b} ELSE allocated
  BY DEF Dup2
<1>4. /\ e \in NamesOf(a)
      /\ \A x \in Objects : d \in NamesOf(x) <=> x = b
  BY <1>1 DEF NamesOf
<1>5. /\ q = a => NamesOf(q)' = NamesOf(q) \cup {d}
      /\ q # a => NamesOf(q)' = NamesOf(q) \ {d}
  BY <1>1, <1>2, NamesAfter
<1>6. closed \in [Objects -> Object]
  BY <1>1, CountTypes DEF TypeOK, Object
<1>7. /\ q = b => closed[q].ref_count = Wrap(file[q].ref_count - 1)
      /\ q # b => closed[q].ref_count = file[q].ref_count
  BY <1>1, NullIsNoObject DEF TypeOK, Object
<1>8. /\ q = a => file'[q].ref_count = Counted(closed[q].ref_count)
      /\ q # a => file'[q].ref_count = closed[q].ref_count
  <2> HIDE DEF closed
  <2> QED BY <1>1, <1>3, <1>6 DEF Object
<1>9. q # b /\ q \in allocated => q \in allocated'
  BY <1>3
<1> HIDE DEF a, b, d, e, closed
<1>10. CASE q = a /\ q # b
  <2>1. file'[q].ref_count = Counted(file[q].ref_count)
    BY <1>7, <1>8, <1>10
  <2>2. q \in allocated' /\ IsNamed(q) /\ d \notin NamesOf(q)
    BY <1>1, <1>4, <1>9, <1>10 DEF IsNamed
  <2> QED BY <1>5, <1>10, <2>1, <2>2, Gains
<1>11. CASE q = a /\ q = b
  <2>1. NamesOf(q)' = NamesOf(q)
    BY <1>4, <1>5, <1>11
  <2>2. {e, d} \in SUBSET NamesOf(q) /\ e # d
    BY <1>4, <1>11 DEF d, e
  <2>3. Cardinality({e, d}) = 2
    <3>1. IsFiniteSet({d}) /\ Cardinality({d}) = 1 /\ e \notin {d}
      BY <2>2, FS_Singleton
    <3>2. Cardinality({d} \cup {e}) = Cardinality({d}) + 1
      <4> DEFINE one == {d}
      <4>1. IsFiniteSet(one) /\ e \notin one
        BY <3>1
      <4> HIDE DEF one
      <4>2. Cardinality(one \cup {e}) = Cardinality(one) + 1
        BY <4>1, FS_AddElement
      <4> QED BY <4>2 DEF one
    <3>3. {d} \cup {e} = {e, d}
      OBVIOUS
    <3> QED BY <3>1, <3>2, <3>3
  <2>4. Cardinality(NamesOf(q)) \in 0 .. WORD - 2 /\ Cardinality(NamesOf(q)) >= 2
    BY <2>2, <2>3, NamesAreFew, FS_Subset
  <2>5. file[q].ref_count = Cardinality(NamesOf(q))
    BY <1>4, <1>11 DEF Referenced, IsNamed
  <2>6. file'[q].ref_count = file[q].ref_count
    BY <1>7, <1>8, <1>11, <2>4, <2>5, Numbers DEF Counted, Wrap
  <2>7. allocated' = allocated
    BY <1>3, <1>11, <2>4, <2>5
  <2> QED BY <2>1, <2>6, <2>7, Untouched
<1>12. CASE q # a /\ q = b
  <2>1. d \in NamesOf(q) /\ NamesOf(q)' = NamesOf(q) \ {d}
    BY <1>4, <1>5, <1>12
  <2>2. file'[q].ref_count = Wrap(file[q].ref_count - 1)
    BY <1>7, <1>8, <1>12
  <2>3. q \in allocated' <=> file[q].ref_count # 1 /\ q \in allocated
    BY <1>3, <1>12, NullIsNoObject
  <2> QED BY <2>1, <2>2, <2>3, Loses
<1>13. CASE q # a /\ q # b
  <2>1. NamesOf(q)' = NamesOf(q)
    BY <1>4, <1>5, <1>13
  <2> QED BY <1>7, <1>8, <1>9, <1>13, <2>1, Untouched
<1> QED BY <1>10, <1>11, <1>12, <1>13

\* Reading, writing and seeking leave the descriptors and the counters alone.
LEMMA CountAccess ==
  ASSUME TypeOK, Referenced, NEW p \in Pids, NEW fd \in Fds, NEW q \in Objects,
         \/ \E count \in Counts : Read(p, fd, count) \/ Write(p, fd, count)
         \/ \E offset \in -MAX_COUNT .. MAX_COUNT : Lseek(p, fd, offset)
         \/ \E infd \in Fds, own \in BOOLEAN, offset, count \in Counts :
               Sendfile(p, fd, infd, own, offset, count)
  PROVE  Kept(q)
<1>1. live' = live /\ files' = files /\ allocated' = allocated
  BY DEF Read, Write, Lseek, Sendfile
<1>2. NamesOf(q)' = NamesOf(q)
  BY <1>1 DEF NamesOf
<1>3. \A r \in Object, n \in Int : Advanced(r, n).ref_count = r.ref_count
  BY DEF Advanced, Object
<1>4. ASSUME NEW f \in [Objects -> Object], NEW o, NEW count, WriteTo(o, f, count),
             f[q].ref_count = file[q].ref_count
      PROVE  file'[q].ref_count = file[q].ref_count
  <2>1. file'[q] = f[q] \/ file'[q] = Advanced(f[q], BytesWritten(Signed(f[q].offp), count))
    BY <1>4 DEF WriteTo
  <2> QED BY <1>4, <2>1 DEF Advanced, Object
<1>5. ASSUME NEW count \in Counts, Read(p, fd, count)
      PROVE  file'[q].ref_count = file[q].ref_count
  BY <1>5 DEF Read, Advanced, TypeOK, Object
<1>6. ASSUME NEW count \in Counts, Write(p, fd, count)
      PROVE  file'[q].ref_count = file[q].ref_count
  BY <1>4, <1>6 DEF Write, TypeOK
<1>7. ASSUME NEW offset \in -MAX_COUNT .. MAX_COUNT, Lseek(p, fd, offset)
      PROVE  file'[q].ref_count = file[q].ref_count
  <2>1. PICK base \in Int : file' = [file EXCEPT ![files[p][fd]].offp = Wrap(base + offset)]
    <3>1. files[p][fd] \in Objects /\ IsRegular(files[p][fd])
      BY <1>7 DEF Lseek, Open, TypeOK
    <3>2. {0, file[files[p][fd]].offp, inode[file[files[p][fd]].inode].file_size} \subseteq Int
      BY <3>1, RegularNames, Numbers DEF TypeOK, Object, Inode
    <3> QED BY <1>7, <3>2 DEF Lseek
  <2> QED BY <2>1 DEF TypeOK, Object
<1>8. ASSUME NEW infd \in Fds, NEW own \in BOOLEAN, NEW offset \in Counts, NEW count \in Counts,
             Sendfile(p, fd, infd, own, offset, count)
      PROVE  file'[q].ref_count = file[q].ref_count
  <2> DEFINE i == files[p][infd]
             o == files[p][fd]
             from == IF own THEN offset ELSE Signed(file[i].offp)
             n == BytesRead(file[i].inode, from, count)
             f == IF own THEN file ELSE [file EXCEPT ![i] = Advanced(@, n)]
  <2>1. WriteTo(o, f, n)
    BY <1>8 DEF Sendfile
  <2>2. f \in [Objects -> Object]
    <3>1. i \in Objects /\ IsRegular(i)
      BY <1>8 DEF Sendfile, Open, TypeOK
    <3>2. from \in Int
      BY <3>1, RegularNames, Numbers DEF TypeOK, Object, Signed, Counts
    <3> HIDE DEF from, i
    <3>3. n \in Counts
      BY <3>1, <3>2, SendfileRead
    <3> HIDE DEF n
    <3> QED BY <3>1, <3>3, AdvancedTypes DEF TypeOK
  <2>3. f[q].ref_count = file[q].ref_count
    BY DEF Advanced, TypeOK, Object
  <2> HIDE DEF f, n, o
  <2> QED BY <1>4, <2>1, <2>2, <2>3
<1>9. file'[q].ref_count = file[q].ref_count
  BY <1>5, <1>6, <1>7, <1>8
<1> QED BY <1>1, <1>2, <1>9, Untouched

LEMMA CountFork ==
  ASSUME TypeOK, Referenced, "fork" \notin Careless, NEW p \in Pids, NEW c \in Pids,
         Fork(p, c), NEW q \in Objects
  PROVE  Kept(q)
<1>1. /\ \A fd \in Fds : files[p][fd] = NULL
      /\ live' = live \cup {c} /\ c \notin live
      /\ files' = [files EXCEPT ![c] = files[p]]
      /\ allocated' = allocated /\ file' = file
  BY DEF Fork
<1>2. \A d \in live' \X Fds :
        files'[d[1]][d[2]] = IF d[1] = c THEN NULL ELSE files[d[1]][d[2]]
  BY <1>1 DEF TypeOK
<1>3. \A d : d \in live \X Fds <=> d \in live' \X Fds /\ d[1] # c
  BY <1>1
<1>4. NamesOf(q)' = {d \in live' \X Fds : files'[d[1]][d[2]] = q}
  BY DEF NamesOf
<1>5. NamesOf(q)' = NamesOf(q)
  BY <1>2, <1>3, <1>4, NullIsNoObject DEF NamesOf
<1> QED BY <1>1, <1>5, Untouched

LEMMA CountExit ==
  ASSUME TypeOK, Referenced, NEW p \in Pids, Exit(p), NEW q \in Objects
  PROVE  Kept(q)
<1> DEFINE mine == {fd \in Fds : files[p][fd] = q}
           dropped == {p} \X mine
<1>1. /\ p \in live /\ live' = live \ {p} /\ files' = files
      /\ file'[q].ref_count = Wrap(file[q].ref_count - References(p, q))
      /\ q \in allocated' <=> q \in allocated /\ (file[q].ref_count = 0 \/ file[q].ref_count > References(p, q))
  BY DEF Exit, TypeOK, Object
<1>2. IsFiniteSet(mine) /\ Cardinality(mine) = References(p, q)
  BY FdsAreFinite, FS_Subset DEF References
<1>3. Cardinality(dropped) = References(p, q)
  <2>1. IsFiniteSet({p}) /\ Cardinality({p}) = 1
    BY FS_Singleton
  <2>2. Cardinality(dropped) = 1 * References(p, q)
    <3> HIDE DEF mine
    <3> DEFINE s == {p}
    <3>1. IsFiniteSet(s) /\ Cardinality(s) = 1
      BY <2>1
    <3> HIDE DEF s
    <3>2. Cardinality(s \X mine) = Cardinality(s) * Cardinality(mine)
      BY <1>2, <3>1, FS_Product
    <3> QED BY <1>2, <3>1, <3>2 DEF s
  <2> QED BY <2>2, ReferencesBound
<1>4. dropped \subseteq NamesOf(q)
  BY <1>1 DEF NamesOf
<1>5. NamesOf(q)' = NamesOf(q) \ dropped
  <2>1. NamesOf(q)' = {d \in live' \X Fds : files[d[1]][d[2]] = q}
    BY <1>1 DEF NamesOf
  <2>2. \A d \in live \X Fds : d \in live' \X Fds <=> d[1] # p
    BY <1>1
  <2>3. \A d \in NamesOf(q) : d \in dropped <=> d[1] = p
    BY DEF NamesOf
  <2>4. live' \subseteq live
    BY <1>1
  <2> QED BY <2>1, <2>2, <2>3, <2>4 DEF NamesOf
<1> HIDE DEF dropped, mine
<1>6. NamesOf(q) \cap dropped = dropped
  BY <1>4
<1>7. /\ IsFiniteSet(NamesOf(q)')
      /\ Cardinality(NamesOf(q)') = Cardinality(NamesOf(q)) - References(p, q)
  <2>1. IsFiniteSet(NamesOf(q))
    BY NamesAreFew
  <2>2. /\ IsFiniteSet(NamesOf(q) \ dropped)
        /\ Cardinality(NamesOf(q) \ dropped) =
             Cardinality(NamesOf(q)) - Cardinality(NamesOf(q) \cap dropped)
    BY <2>1, FS_Difference
  <2> QED BY <1>3, <1>5, <1>6, <2>2
<1>8. Cardinality(NamesOf(q)) \in 0 .. WORD - 2 /\ References(p, q) \in Nat
  BY NamesAreFew, ReferencesBound, Numbers
<1>9. IsNamed(q)' <=> Cardinality(NamesOf(q)') # 0
  BY <1>7, FS_EmptySet DEF IsNamed
<1>10. IsNamed(q)' => IsNamed(q)
  BY <1>5 DEF IsNamed
<1>11. IsNamed(q) => /\ q \in allocated
                     /\ file[q].ref_count = Cardinality(NamesOf(q))
                     /\ Cardinality(NamesOf(q)) # 0
  BY NamesAreFew DEF Referenced
<1>12. Cardinality(NamesOf(q)') \in Nat
  BY <1>7, FS_CardinalityType
<1>13. IsNamed(q)' => q \in allocated' /\ file'[q].ref_count = Cardinality(NamesOf(q)')
  BY <1>1, <1>7, <1>8, <1>9, <1>10, <1>11, <1>12, Numbers DEF Wrap
<1>14. IsNamed(q) /\ ~ IsNamed(q)' => q \notin allocated'
  BY <1>1, <1>7, <1>8, <1>9, <1>11
<1> QED BY <1>13, <1>14 DEF Kept

LEMMA CountStep ==
  ASSUME TypeOK, Referenced, Careless \cap {"fork", "dup2"} = {}, [Next]_vars, NEW q \in Objects
  PROVE  Kept(q)
<1>1. CASE UNCHANGED vars
  <2>1. NamesOf(q)' = NamesOf(q)
    BY <1>1 DEF NamesOf, vars
  <2> QED BY <1>1, <2>1, Untouched DEF vars
<1>2. ASSUME NEW p \in Pids, NEW fd \in Fds, Use(p, fd)
      PROVE  Kept(q)
  <2>1. ASSUME NEW newfd \in Fds, Dup2(p, fd, newfd)
        PROVE  Kept(q)
    <3>1. fd # newfd
      BY <2>1 DEF Dup2
    <3> QED BY <2>1, <3>1, CountDup2
  <2>2. CASE Close(p, fd)
    BY <2>2, CountClose
  <2>3. CASE \/ \E count \in Counts : Read(p, fd, count) \/ Write(p, fd, count)
             \/ \E offset \in -MAX_COUNT .. MAX_COUNT : Lseek(p, fd, offset)
             \/ \E infd \in Fds, own \in BOOLEAN, offset, count \in Counts :
                   Sendfile(p, fd, infd, own, offset, count)
    BY <2>3, CountAccess
  <2> QED BY <1>2, <2>1, <2>2, <2>3 DEF Use
<1>3. ASSUME NEW p \in Pids, NEW c \in Pids, Fork(p, c)
      PROVE  Kept(q)
  <2>1. "fork" \notin Careless
    OBVIOUS
  <2> QED BY <1>3, <2>1, CountFork
<1>4. CASE Next
  BY <1>2, <1>3, <1>4, CountOpen, CountStandard, CountExit DEF Next
<1> QED BY <1>1, <1>4

LEMMA ReferencedStep ==
  ASSUME TypeOK, Referenced, Careless \cap {"fork", "dup2"} = {}, [Next]_vars
  PROVE  Referenced'
<1>1. \A q \in Objects : Kept(q)
  BY CountStep
<1> QED BY <1>1 DEF Kept, Referenced

----------------------------------------------------------------------------
\* file.c:88-121, 172-185, 227-293 and entry.c:15-68: an object that a descriptor
\* names is in use, as long as nobody forks with descriptors or duplicates one
\* onto itself.
THEOREM AllocatedWhileNamed ==
  ASSUME Careless \cap {"fork", "dup2"} = {}
  PROVE  Spec => []NamedAreAllocated
<1>1. Init => TypeOK /\ Referenced
  BY TypeInit, CountInit
<1>2. TypeOK /\ Referenced /\ [Next]_vars => (TypeOK /\ Referenced)'
  BY TypeStep, ReferencedStep
<1>3. TypeOK /\ Referenced => NamedAreAllocated
  <2> SUFFICES ASSUME TypeOK, Referenced, NEW p \in live, NEW fd \in Fds, files[p][fd] # NULL
               PROVE  files[p][fd] \in allocated
    BY DEF NamedAreAllocated
  <2>1. files[p][fd] \in Objects /\ <<p, fd>> \in NamesOf(files[p][fd])
    BY DEF TypeOK, NamesOf
  <2> QED BY <2>1 DEF Referenced, IsNamed
<1> QED BY <1>1, <1>2, <1>3, PTL DEF Spec

\* The same calls: ref_count is the number of descriptors that name the object.
THEOREM CountersCorrect ==
  ASSUME Careless \cap {"fork", "dup2"} = {}
  PROVE  Spec => []RefCountsCount
<1>1. Init => TypeOK /\ Referenced
  BY TypeInit, CountInit
<1>2. TypeOK /\ Referenced /\ [Next]_vars => (TypeOK /\ Referenced)'
  BY TypeStep, ReferencedStep
<1>3. TypeOK /\ Referenced => RefCountsCount
  BY DEF TypeOK, Referenced, RefCountsCount
<1> QED BY <1>1, <1>2, <1>3, PTL DEF Spec

\* std_close, do_file_close, fd_dup2 and do_file_exit free an object with its last
\* descriptor.
THEOREM NoObjectLost ==
  ASSUME Careless \cap {"fork", "dup2"} = {}
  PROVE  Spec => FreedWithLastName
<1> DEFINE Freed == \A o \in Objects : IsNamed(o) /\ ~ IsNamed(o)' => o \notin allocated'
<1>1. Init => TypeOK /\ Referenced
  BY TypeInit, CountInit
<1>2. TypeOK /\ Referenced /\ [Next]_vars => (TypeOK /\ Referenced)'
  BY TypeStep, ReferencedStep
<1>3. TypeOK /\ Referenced /\ [Next]_vars => [Freed]_vars
  BY CountStep DEF Kept
<1>4. FreedWithLastName <=> [][Freed]_vars
  BY DEF FreedWithLastName
<1> QED BY <1>1, <1>2, <1>3, <1>4, PTL DEF Spec

=============================================================================
