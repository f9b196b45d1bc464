----------------------------- MODULE Logger_proofs -----------------------------
(***************************************************************************)
(* Proofs about the files, the writers and the buffers of module Logger,   *)
(* for any number of threads, names and lines and any sizes.               *)
(***************************************************************************)
EXTENDS Logger, SequenceTheorems, FiniteSetTheorems, TLAPS

-----------------------------------------------------------------------------
(* The directory.                                                          *)

\* A directory whose names are in the order of age, none younger than limit.
Ordered(d, limit) == d \in Directories /\ NewestFirst(d) /\ \A n \in Names : d[n] <= limit

\* No file of d but the oldest, under the last name, is missing in e.
LosesOldest(d, e) ==
    \A a \in Ages(d) \ Ages(e) : a = d[MaxFiles - 1] /\ \A g \in Ages(d) : a <= g

\* A directory that keeps every file.
LEMMA NothingLost ==
    ASSUME NEW d, NEW e, Ages(d) \subseteq Ages(e)
    PROVE  LosesOldest(d, e)
BY DEF LosesOldest

\* Whichever call of the renaming loop fails, or none.
LEMMA RenameOrders ==
    ASSUME NEW limit \in Nat, NEW d, Ordered(d, limit), NEW f \in Names \cup {-1}
    PROVE  LET e == css_logger_rename_old_logs(d, f)
           IN  Ordered(e, limit) /\ LosesOldest(d, e)
<1> DEFINE e == RenamedAbove(d, f)
<1>1. MaxFiles \in Nat \ {0} /\ d \in [Names -> Nat] /\ NewestFirst(d)
      /\ \A n \in Names : d[n] <= limit
  BY FilesAssumption DEF Ordered, Directories
<1>2. CASE f # -1 /\ d[f] = Absent
  <2>1. css_logger_rename_old_logs(d, f) = d  BY <1>2 DEF css_logger_rename_old_logs
  <2>2. QED  BY <2>1, NothingLost
<1>3. CASE f = -1 \/ d[f] # Absent
  <2>1. css_logger_rename_old_logs(d, f) = e  BY <1>3 DEF css_logger_rename_old_logs
  <2>2. \A n \in Names : e[n] = IF n <= f THEN d[n] ELSE IF n = f + 1 THEN Absent ELSE d[n - 1]
    BY DEF RenamedAbove
  <2>3. \A n \in Names : n \in Nat /\ f \in Int /\ (n > f + 1 => n - 1 \in Names)
    BY <1>1 DEF Names
  <2>4. \A n \in Names : e[n] \in Nat /\ e[n] <= limit
    <3> HIDE DEF e
    <3> SUFFICES ASSUME NEW n \in Names PROVE e[n] \in Nat /\ e[n] <= limit  OBVIOUS
    <3>1. CASE n <= f  BY <1>1, <2>2, <3>1
    <3>2. CASE n = f + 1
      <4>1. e[n] = 0  BY <2>2, <2>3, <3>2 DEF Absent
      <4>2. QED  BY <4>1
    <3>3. CASE n > f + 1
      <4>1. e[n] = d[n - 1] /\ n - 1 \in Names  BY <2>2, <2>3, <3>3
      <4>2. QED  BY <1>1, <4>1
    <3>4. QED  BY <2>3, <3>1, <3>2, <3>3
  <2>5. e \in Directories  BY <2>4 DEF RenamedAbove, Directories
  <2> HIDE DEF e
  <2>6. NewestFirst(e)
    <3> SUFFICES ASSUME NEW m \in Names, NEW n \in Names, m < n, e[m] # Absent, e[n] # Absent
        PROVE  e[m] > e[n]
      BY DEF NewestFirst
    <3> DEFINE Old(k) == IF k <= f THEN k ELSE k - 1
    <3>1. /\ Old(m) \in Names /\ Old(n) \in Names /\ Old(m) < Old(n)
          /\ e[m] = d[Old(m)] /\ e[n] = d[Old(n)]
      <4>1. \A k \in Names : k = f + 1 => e[k] = Absent  BY <2>2, <2>3
      <4>2. \A k \in Names : k # f + 1 => Old(k) \in Names /\ e[k] = d[Old(k)]
        BY <2>2, <2>3
      <4>3. m # f + 1 /\ n # f + 1 /\ m \in Nat /\ n \in Nat /\ f \in Int  BY <2>3, <4>1
      <4>4. Old(m) < Old(n)  BY <4>3
      <4>5. QED  BY <4>2, <4>3, <4>4
    <3> HIDE DEF Old
    <3>2. QED  BY <1>1, <3>1 DEF NewestFirst
  <2>7. LosesOldest(d, e)
    <3> SUFFICES ASSUME NEW a \in Ages(d), a \notin Ages(e)
        PROVE  a = d[MaxFiles - 1] /\ \A g \in Ages(d) : a <= g
      BY DEF LosesOldest
    <3>1. PICK n \in Names : a = d[n] /\ a # Absent  BY DEF Ages
    <3>2. \A k \in Names : e[k] # a  BY <3>1 DEF Ages
    <3>3. n > f
      <4>1. n <= f => e[n] = a  BY <2>2, <3>1
      <4>2. QED  BY <1>1, <3>2, <4>1 DEF Names
    <3>4. n = MaxFiles - 1
      <4> SUFFICES ASSUME n # MaxFiles - 1 PROVE FALSE  OBVIOUS
      <4>1. n + 1 \in Names /\ n + 1 > f + 1 /\ (n + 1) - 1 = n
        BY <1>1, <3>3 DEF Names
      <4>2. e[n + 1] = a  BY <1>1, <2>2, <3>1, <4>1 DEF Names
      <4>3. QED  BY <3>2, <4>1, <4>2
    <3>5. \A g \in Ages(d) : a <= g
      <4> SUFFICES ASSUME NEW g \in Ages(d) PROVE a <= g  OBVIOUS
      <4>1. PICK m \in Names : g = d[m] /\ g # Absent  BY DEF Ages
      <4>2. m < n \/ m = n  BY <1>1, <3>4 DEF Names
      <4>3. m < n => d[m] > d[n]  BY <1>1, <3>1, <4>1 DEF NewestFirst
      <4>4. QED  BY <1>1, <3>1, <4>1, <4>2, <4>3
    <3>6. QED  BY <3>1, <3>4, <3>5
  <2>8. QED  BY <2>1, <2>4, <2>5, <2>6, <2>7 DEF Ordered
<1>4. QED  BY <1>2, <1>3

\* The new file is the youngest and takes a name that is free.
LEMMA NewFileOrders ==
    ASSUME NEW limit \in Nat, NEW d, Ordered(d, limit), d[0] = Absent
    PROVE  LET e == [d EXCEPT ![0] = limit + 1]
           IN  Ordered(e, limit + 1) /\ Ages(d) \subseteq Ages(e)
<1> DEFINE e == [d EXCEPT ![0] = limit + 1]
<1>1. 0 \in Names /\ d \in [Names -> Nat] /\ (\A n \in Names : d[n] <= limit) /\ NewestFirst(d)
      /\ \A n \in Names : n >= 0
  BY FilesAssumption DEF Ordered, Directories, Names
<1>2. e \in [Names -> Nat] /\ e[0] = limit + 1 /\ \A n \in Names \ {0} : e[n] = d[n]
  BY <1>1
<1> HIDE DEF e
<1>3. NewestFirst(e)
  <2> SUFFICES ASSUME NEW m \in Names, NEW n \in Names, m < n, e[m] # Absent, e[n] # Absent
      PROVE  e[m] > e[n]
    BY DEF NewestFirst
  <2>1. n # 0  BY <1>1 DEF Names
  <2>2. CASE m = 0  BY <1>1, <1>2, <2>1, <2>2
  <2>3. CASE m # 0  BY <1>1, <1>2, <2>1, <2>3 DEF NewestFirst
  <2>4. QED  BY <2>2, <2>3
<1>4. \A n \in Names : e[n] <= limit + 1  BY <1>1, <1>2
<1>5. Ages(d) \subseteq Ages(e)
  <2> SUFFICES ASSUME NEW a \in Ages(d) PROVE a \in Ages(e)  OBVIOUS
  <2>1. PICK n \in Names : a = d[n] /\ a # Absent  BY DEF Ages
  <2>2. n # 0  BY <2>1
  <2>3. e[n] = a  BY <1>2, <2>1, <2>2
  <2>4. QED  BY <2>1, <2>3 DEF Ages
<1>6. Ordered(e, limit + 1)  BY <1>2, <1>3, <1>4 DEF Ordered, Directories
<1>7. QED  BY <1>5, <1>6 DEF e

FilesInv == newest \in Nat /\ Ordered(files, newest)

\* css_logger_new_file, whichever of its calls fails.
LEMMA NewFileKeeps ==
    ASSUME FilesInv, NEW ws, NEW w, NEW success, css_logger_new_file(ws, w, success)
    PROVE  FilesInv' /\ LosesOldest(files, files')
<1>1. CASE /\ \E f \in {n \in Names : files[n] # Absent} :
                    files' = css_logger_rename_old_logs(files, f)
           /\ UNCHANGED newest
  BY <1>1, RenameOrders DEF FilesInv
<1>2. ASSUME NEW d \in {files, css_logger_rename_old_logs(files, -1)},
             IF success /\ d[0] = Absent
             THEN files' = [d EXCEPT ![0] = newest + 1] /\ newest' = newest + 1
             ELSE files' = d /\ UNCHANGED newest
      PROVE  FilesInv' /\ LosesOldest(files, files')
  <2>1. Ordered(d, newest) /\ LosesOldest(files, d)
    BY NothingLost, RenameOrders DEF FilesInv
  <2>2. CASE files' = d /\ UNCHANGED newest  BY <2>1, <2>2 DEF FilesInv
  <2>3. CASE d[0] = Absent /\ files' = [d EXCEPT ![0] = newest + 1] /\ newest' = newest + 1
    <3>1. Ordered(files', newest') /\ Ages(d) \subseteq Ages(files')
      BY <2>1, <2>3, NewFileOrders DEF FilesInv
    <3>2. LosesOldest(files, files')  BY <2>1, <3>1 DEF LosesOldest
    <3>3. newest' \in Nat  BY <2>3 DEF FilesInv
    <3>4. QED  BY <3>1, <3>2, <3>3 DEF FilesInv
  <2>4. QED  BY <1>2, <2>2, <2>3
<1>3. QED  BY <1>1, <1>2 DEF css_logger_new_file

\* What a step does to the directory.
LEMMA DirectoryMoves ==
    ASSUME [Next]_vars
    PROVE  \/ UNCHANGED <<files, newest>>
           \/ \E ws, w, success : css_logger_new_file(ws, w, success)
<1>1. ASSUME NEW n, NEW should_close, NEW ls, Dump(n, should_close, ls)
      PROVE  \/ UNCHANGED <<files, newest>>
             \/ \E ws, w, success : css_logger_new_file(ws, w, success)
  BY <1>1 DEF Dump, LeaveWriter
<1>2. CASE css_logger_start
  BY <1>2 DEF css_logger_start, open_logger_file, css_logger_reopen_file, fileVars
<1>3. ASSUME NEW t \in Threads, css_logger_log_locked(t)
      PROVE  UNCHANGED <<files, newest>> \/ \E n, should_close, ls : Dump(n, should_close, ls)
  BY <1>3 DEF css_logger_log_locked, LogFitting, LogRetried, DropText, fileVars
<1>4. ASSUME NEW t \in Threads \cup {Flusher}, DumpNext(t)
      PROVE  UNCHANGED <<files, newest>> \/ \E n, should_close, ls : Dump(n, should_close, ls)
  BY <1>4 DEF DumpNext, css_logger_dump_locked, fileVars
<1>5. CASE \/ css_logger_close \/ css_logger_dump_to_file_cb \/ css_logger_flush_to_file
           \/ css_logger_close_file \/ \E t \in Threads : css_logger_log_inner(t)
           \/ \E w \in writes : after_write_logger_cb(w)
           \/ \E w \in DOMAIN wstate : after_roll_logger_cb(w)
           \/ UNCHANGED vars
  BY <1>5
  DEF css_logger_close, css_logger_dump_to_file_cb, css_logger_flush_to_file,
      css_logger_dump_to_file, css_logger_close_file, css_logger_log_inner,
      after_write_logger_cb, after_roll_logger_cb, vars, fileVars
<1>6. QED  BY <1>1, <1>2, <1>3, <1>4, <1>5 DEF Next

\* A step keeps the order and loses the oldest file at most.
LEMMA FilesStep ==
    ASSUME FilesInv, [Next]_vars
    PROVE  FilesInv' /\ LosesOldest(files, files')
<1>1. CASE UNCHANGED <<files, newest>>  BY <1>1, NothingLost DEF FilesInv
<1>2. QED  BY <1>1, DirectoryMoves, NewFileKeeps

LEMMA FilesInit == Init => FilesInv
<1> SUFFICES ASSUME Init PROVE FilesInv  OBVIOUS
<1>1. newest = MaxFiles /\ files \in [Names -> 0 .. MaxFiles]
      /\ \A n \in Names : files[n] \in {Absent, MaxFiles - n}
  BY DEF Init
<1>2. QED
  BY <1>1, FilesAssumption DEF FilesInv, Ordered, Directories, NewestFirst, Names, Absent

\* The directory stays in order, and no file is younger than the last one created
\* (css_logger_new_file).
THEOREM FilesKept == Spec => []FilesInv
BY FilesInit, FilesStep, PTL DEF Spec

\* Whichever call of whichever rotation fails, a name with a higher number is an
\* older file, for any number of names (css_logger_rename_old_logs).
THEOREM FilesStayInOrder == Spec => []FilesInOrder
<1>1. FilesInv => FilesInOrder  BY DEF FilesInv, Ordered, FilesInOrder
<1>2. QED  BY <1>1, FilesKept, PTL

\* No rotation loses a file but the oldest one under the last name, for any
\* number of names (css_logger_rename_old_logs, css_logger_new_file).
THEOREM OldestIsLost == Spec => OnlyOldestLost
<1> DEFINE Step == \A a \in Ages(files) \ Ages(files') :
                        /\ a = files[MaxFiles - 1]
                        /\ \A g \in Ages(files) : a <= g
<1>1. FilesInv /\ [Next]_vars => [Step]_vars  BY FilesStep DEF LosesOldest
<1>2. QED  BY <1>1, FilesKept, PTL DEF Spec, OnlyOldestLost

-----------------------------------------------------------------------------
(* The writers.                                                            *)

WriterStates == {"open", "unset", "closing", "freed"}

\* The writers that were created, the current one, and the ones that the
\* callbacks of writes will close.
WriterRecords ==
    /\ wstate \in Seq(WriterStates)
    /\ writer \in 0 .. Len(wstate)
    /\ \A w \in writes : w.close => w.writer \in 1 .. Len(wstate)

\* The current writer is none of those that close.
WriterStays ==
    /\ writer # 0 => wstate[writer] \in {"open", "unset"}
    /\ \A w \in writes : w.close => w.writer # writer

\* The logger is started once, and the worker runs when it is closed.
Phases ==
    /\ bindex \in Nat
    /\ pc \in [Threads \cup {Flusher} -> {"idle", "log", "dump", "crash"}]
    /\ status = "INIT" => bindex # 0 /\ pc[Flusher] = "idle" /\ work = "none"
    /\ bindex = 0 =>
        /\ writes = {} /\ wstate = <<>> /\ ~timer
        /\ pc[Flusher] = "idle" /\ work = "none"

WriterInv == WriterRecords /\ (status = "INIT" => WriterStays) /\ Phases

\* What closing a writer does to the records of writers.
LEMMA WriterCloses ==
    ASSUME WriterRecords, NEW w \in 1 .. Len(wstate)
    PROVE  /\ Closing(wstate, w) \in Seq(WriterStates)
           /\ Len(Closing(wstate, w)) = Len(wstate)
           /\ \A v \in 1 .. Len(wstate) : v # w => Closing(wstate, w)[v] = wstate[v]
BY DEF WriterRecords, Closing, WriterStates

\* css_logger_new_file appends a writer that is not closed, or changes nothing.
LEMMA NewWriter ==
    ASSUME NEW ws \in Seq(WriterStates), NEW success, css_logger_new_file(ws, 0, success)
    PROVE  \/ writer' = 0 /\ wstate' = ws
           \/ /\ writer' = Len(ws) + 1 /\ wstate' \in Seq(WriterStates)
              /\ Len(wstate') = Len(ws) + 1
              /\ wstate'[writer'] \in {"open", "unset"}
              /\ \A v \in 1 .. Len(ws) : wstate'[v] = ws[v]
<1>1. ASSUME NEW x \in {"open", "unset"}, wstate' = Append(ws, x), writer' = Len(ws) + 1
      PROVE  /\ wstate' \in Seq(WriterStates) /\ Len(wstate') = Len(ws) + 1
             /\ wstate'[writer'] = x /\ \A v \in 1 .. Len(ws) : wstate'[v] = ws[v]
  <2>1. x \in WriterStates  BY DEF WriterStates
  <2>2. QED  BY <1>1, <2>1
<1>2. QED  BY <1>1 DEF css_logger_new_file

\* A dump closes the current writer only when it leaves it.
LEMMA DumpKeepsWriters ==
    ASSUME WriterRecords, writer # 0, NEW n, NEW should_close \in BOOLEAN, NEW ls,
           Dump(n, should_close, ls)
    PROVE  /\ WriterRecords'
           /\ WriterStays /\ ~should_close => WriterStays'
<1> DEFINE total == writer_offset + n
           roll  == total > MaxFileSize
           close == should_close \/ roll
           write == [base |-> buffer, len |-> n, writer |-> writer, close |-> close,
                     lines |-> ls, turn |-> rotations]
<1>1. PICK accepted \in BOOLEAN :
        LET ws == IF accepted \/ ~close THEN wstate ELSE Closing(wstate, writer)
        IN  /\ writes' = IF accepted THEN writes \cup {write} ELSE writes
            /\ IF close THEN LeaveWriter(ws, roll)
               ELSE /\ writer_offset' = total
                    /\ UNCHANGED <<writer, wstate, files, newest>>
  BY DEF Dump
<1>2. write.writer = writer /\ write.close = close  OBVIOUS
<1>3. writer \in 1 .. Len(wstate) /\ Len(wstate) \in Nat /\ wstate \in Seq(WriterStates)
  BY DEF WriterRecords
<1> HIDE DEF write, close, roll
<1>4. CASE ~close
  <2>1. /\ UNCHANGED <<writer, wstate>>
        /\ writes' = writes \/ writes' = writes \cup {write}
    BY <1>1, <1>4
  <2>2. QED  BY <1>2, <1>4, <2>1 DEF WriterRecords, WriterStays
<1>5. CASE close
  <2> DEFINE ws == IF accepted THEN wstate ELSE Closing(wstate, writer)
  <2>1. /\ LeaveWriter(ws, roll)
        /\ writes' = writes \/ writes' = writes \cup {write}
    BY <1>1, <1>5
  <2>2. ws \in Seq(WriterStates) /\ Len(ws) = Len(wstate)
    BY <1>3, WriterCloses
  <2> HIDE DEF ws
  <2>3. \/ writer' = 0 /\ wstate' = ws
        \/ /\ writer' = Len(ws) + 1 /\ wstate' \in Seq(WriterStates)
           /\ Len(wstate') = Len(ws) + 1
           /\ wstate'[writer'] \in {"open", "unset"}
    BY <2>1, <2>2, NewWriter DEF LeaveWriter
  <2>4. \A w \in writes' : w.close => w.writer \in 1 .. Len(wstate)
    BY <1>2, <1>3, <2>1 DEF WriterRecords
  <2>5. WriterRecords'
    <3>1. wstate' \in Seq(WriterStates) /\ writer' \in 0 .. Len(wstate')
          /\ Len(wstate') \in Nat /\ Len(wstate) <= Len(wstate')
      BY <1>3, <2>2, <2>3
    <3>2. QED  BY <1>3, <2>4, <3>1 DEF WriterRecords
  <2>6. WriterStays'  BY <1>3, <2>2, <2>3, <2>4 DEF WriterStays
  <2>7. QED  BY <2>5, <2>6
<1>6. QED  BY <1>4, <1>5

\* The writers and the phases at each kind of step.
LEMMA StartKeepsWriters ==
    ASSUME WriterInv, css_logger_start
    PROVE  WriterInv'
<1>1. /\ bindex = 0 /\ bindex' = 1 /\ UNCHANGED <<work, writes, pc>>
      /\ writes = {} /\ wstate = <<>> /\ pc[Flusher] = "idle" /\ work = "none"
  BY DEF css_logger_start, threadVars, WriterInv, Phases
<1>2. PICK success \in BOOLEAN :
        open_logger_file(success) /\ css_logger_start_Timed(success)
  BY DEF css_logger_start
<1>3. /\ wstate' \in Seq(WriterStates) /\ writer' \in 0 .. Len(wstate')
      /\ success /\ writer' # 0 => wstate'[writer'] \in {"open", "unset"}
  <2>1. <<>> \in Seq(WriterStates) /\ Len(<<>>) = 0
        /\ \A x \in {"open", "unset"} : <<x>> \in Seq(WriterStates) /\ Len(<<x>>) = 1
    BY DEF WriterStates
  <2>2. CASE UNCHANGED fileVars /\ ~success
    BY <1>1, <2>1, <2>2 DEF fileVars, WriterInv, WriterRecords
  <2>3. CASE css_logger_new_file(wstate, 0, success)
    <3>1. \/ writer' = 0 /\ wstate' = <<>>
          \/ /\ writer' = 1 /\ wstate' \in Seq(WriterStates) /\ Len(wstate') = 1
             /\ wstate'[writer'] \in {"open", "unset"}
      <4>1. wstate \in Seq(WriterStates) /\ Len(wstate) = 0  BY <1>1, <2>1
      <4>2. \/ writer' = 0 /\ wstate' = wstate
            \/ /\ writer' = Len(wstate) + 1 /\ wstate' \in Seq(WriterStates)
               /\ Len(wstate') = Len(wstate) + 1
               /\ wstate'[writer'] \in {"open", "unset"}
        BY <2>3, <4>1, NewWriter
      <4>3. QED  BY <1>1, <4>1, <4>2
    <3>2. CASE writer' = 0 /\ wstate' = <<>>
      <4>1. Len(wstate') = 0  BY <2>1, <3>2
      <4>2. QED  BY <2>1, <3>2, <4>1
    <3>3. CASE /\ writer' = 1 /\ wstate' \in Seq(WriterStates) /\ Len(wstate') = 1
               /\ wstate'[writer'] \in {"open", "unset"}
      BY <3>3
    <3>4. QED  BY <3>1, <3>2, <3>3
  <2>4. CASE css_logger_reopen_file(success)
    <3>1. writer' = 1 /\ \E x \in {"open", "unset"} : wstate' = <<x>>
      BY <2>4 DEF css_logger_reopen_file
    <3>2. QED  BY <2>1, <3>1
  <2>5. QED  BY <1>2, <2>2, <2>3, <2>4 DEF open_logger_file
<1>4. status' = "INIT" => success  BY <1>2 DEF css_logger_start_Timed
<1>5. QED  BY <1>1, <1>3, <1>4 DEF WriterInv, WriterRecords, WriterStays, Phases

\* A dump, while the logger runs or when the worker closes it.
LEMMA DumpKeepsAll ==
    ASSUME WriterInv, writer # 0, NEW n, NEW should_close \in BOOLEAN, NEW ls,
           Dump(n, should_close, ls), status' = status, status = "INIT" => ~should_close
    PROVE  /\ WriterRecords' /\ (status' = "INIT" => WriterStays')
           /\ bindex' \in Nat /\ bindex' # 0
<1>1. bindex' \in Nat /\ bindex' # 0
  <2>1. bindex \in Nat  BY DEF WriterInv, Phases
  <2>2. QED  BY <2>1 DEF Dump, NextBuffer
<1>2. QED  BY <1>1, DumpKeepsWriters DEF WriterInv

\* css_logger_log_inner under the mutex.
LEMMA LogKeepsWriters ==
    ASSUME WriterInv, NEW t \in Threads, css_logger_log_locked(t)
    PROVE  WriterInv'
<1>1. UNCHANGED <<status, timer, work>> /\ pc' = [pc EXCEPT ![t] = "idle"]
  BY DEF css_logger_log_locked
<1>2. /\ pc' \in [Threads \cup {Flusher} -> {"idle", "log", "dump", "crash"}]
      /\ pc'[Flusher] = pc[Flusher]
  BY <1>1, LoggerAssumption DEF WriterInv, Phases
<1>3. \/ UNCHANGED <<writer, wstate, writes, bindex>>
      \/ writer # 0 /\ \E n, ls : Dump(n, FALSE, ls)
  BY DEF css_logger_log_locked, LogFitting, LogRetried, DropText, fileVars
<1>4. CASE UNCHANGED <<writer, wstate, writes, bindex>>
  BY <1>1, <1>2, <1>4 DEF WriterInv, WriterRecords, WriterStays, Phases
<1>5. CASE writer # 0 /\ \E n, ls : Dump(n, FALSE, ls)
  <2>1. /\ WriterRecords' /\ (status' = "INIT" => WriterStays')
        /\ bindex' \in Nat /\ bindex' # 0
    BY <1>1, <1>5, DumpKeepsAll
  <2>2. status = "INIT" => pc[Flusher] = "idle" /\ work = "none"  BY DEF WriterInv, Phases
  <2>3. QED  BY <1>1, <1>2, <2>1, <2>2 DEF WriterInv, Phases
<1>6. QED  BY <1>3, <1>4, <1>5

\* css_logger_dump_to_file under the mutex.
LEMMA DumpLockedKeepsWriters ==
    ASSUME WriterInv, NEW t \in Threads \cup {Flusher}, DumpNext(t)
    PROVE  WriterInv'
<1>1. /\ UNCHANGED <<status, timer>> /\ pc[t] = "dump"
      /\ \E l \in {"idle", "crash"} : pc' = [pc EXCEPT ![t] = l]
      /\ t # Flusher => work' = work
  BY DEF DumpNext, css_logger_dump_locked, At, FlushReturns
<1>2. /\ pc' \in [Threads \cup {Flusher} -> {"idle", "log", "dump", "crash"}]
      /\ t # Flusher => pc'[Flusher] = pc[Flusher]
  BY <1>1 DEF WriterInv, Phases
<1>3. t = Flusher => status # "INIT" /\ bindex # 0  BY <1>1 DEF WriterInv, Phases
<1>4. \/ UNCHANGED <<writer, wstate, writes, bindex>>
      \/ /\ t = Flusher /\ writer # 0 /\ wstate' = Closing(wstate, writer)
         /\ UNCHANGED <<writer, writes, bindex>>
      \/ writer # 0 /\ \E n, ls : Dump(n, t = Flusher, ls)
  BY DEF DumpNext, css_logger_dump_locked, fileVars, bufferVars
<1>5. CASE UNCHANGED <<writer, wstate, writes, bindex>>
  BY <1>1, <1>2, <1>3, <1>5 DEF WriterInv, WriterRecords, WriterStays, Phases
<1>6. CASE /\ t = Flusher /\ writer # 0 /\ wstate' = Closing(wstate, writer)
           /\ UNCHANGED <<writer, writes, bindex>>
  <2>1. writer \in 1 .. Len(wstate)  BY <1>6 DEF WriterInv, WriterRecords
  <2>2. wstate' \in Seq(WriterStates) /\ Len(wstate') = Len(wstate)
    BY <1>6, <2>1, WriterCloses DEF WriterInv
  <2>3. WriterRecords'  BY <1>6, <2>2 DEF WriterInv, WriterRecords
  <2>4. QED  BY <1>1, <1>2, <1>3, <1>6, <2>3 DEF WriterInv, Phases
<1>7. CASE writer # 0 /\ \E n, ls : Dump(n, t = Flusher, ls)
  <2>1. /\ WriterRecords' /\ (status' = "INIT" => WriterStays')
        /\ bindex' \in Nat /\ bindex' # 0
    BY <1>1, <1>3, <1>7, DumpKeepsAll
  <2>2. status = "INIT" => pc[Flusher] = "idle" /\ work = "none"  BY DEF WriterInv, Phases
  <2>3. QED  BY <1>1, <1>2, <1>3, <2>1, <2>2 DEF WriterInv, Phases
<1>8. QED  BY <1>4, <1>5, <1>6, <1>7

\* The callbacks that close a writer or free it.
LEMMA CallbackKeepsWriters ==
    ASSUME WriterInv, NEW w \in 1 .. Len(wstate), NEW s \in {"closing", "freed"},
           wstate' = [wstate EXCEPT ![w] = s], status = "INIT" => w # writer,
           writes' \in SUBSET writes, UNCHANGED <<status, writer, bindex, timer, work, pc>>
    PROVE  WriterInv'
<1>1. wstate \in Seq(WriterStates)  BY DEF WriterInv, WriterRecords
<1>2. /\ wstate' \in Seq(WriterStates) /\ Len(wstate') = Len(wstate)
      /\ \A v \in 1 .. Len(wstate) : v # w => wstate'[v] = wstate[v]
  BY <1>1 DEF WriterStates
<1>3. WriterRecords'  BY <1>2 DEF WriterInv, WriterRecords
<1>4. status' = "INIT" => WriterStays'
  BY <1>2 DEF WriterInv, WriterRecords, WriterStays
<1>5. bindex # 0
  <2>1. wstate # <<>>  BY <1>1
  <2>2. QED  BY <2>1 DEF WriterInv, Phases
<1>6. QED  BY <1>3, <1>4, <1>5 DEF WriterInv, Phases

\* Every step keeps the writers apart.
LEMMA WriterStep ==
    ASSUME WriterInv, [Next]_vars
    PROVE  WriterInv'
<1>1. CASE css_logger_start  BY <1>1, StartKeepsWriters
<1>2. CASE css_logger_close
  BY <1>2
  DEF css_logger_close, fileVars, bufferVars, threadVars, WriterInv, WriterRecords,
      WriterStays, Phases
<1>3. CASE css_logger_dump_to_file_cb
  <2>1. /\ UNCHANGED <<status, timer, work, writer, wstate, writes, bindex>>
        /\ \/ pc' = pc \/ pc' = [pc EXCEPT ![Loop] = "dump"]
    BY <1>3 DEF css_logger_dump_to_file_cb, css_logger_dump_to_file, fileVars
  <2>2. /\ pc' \in [Threads \cup {Flusher} -> {"idle", "log", "dump", "crash"}]
        /\ pc'[Flusher] = pc[Flusher]
    BY <2>1, LoggerAssumption DEF WriterInv, Phases
  <2>3. QED  BY <2>1, <2>2 DEF WriterInv, WriterRecords, WriterStays, Phases
<1>4. CASE css_logger_flush_to_file
  <2>1. /\ UNCHANGED <<status, timer, writer, wstate, writes, bindex>>
        /\ \/ pc' = pc \/ pc' = [pc EXCEPT ![Flusher] = "dump"]
        /\ work = "queued"
    BY <1>4 DEF css_logger_flush_to_file, css_logger_dump_to_file, fileVars
  <2>2. pc' \in [Threads \cup {Flusher} -> {"idle", "log", "dump", "crash"}]
    BY <2>1 DEF WriterInv, Phases
  <2>3. status # "INIT" /\ bindex # 0  BY <2>1 DEF WriterInv, Phases
  <2>4. QED  BY <2>1, <2>2, <2>3 DEF WriterInv, WriterRecords, WriterStays, Phases
<1>5. CASE css_logger_close_file
  BY <1>5
  DEF css_logger_close_file, fileVars, threadVars, WriterInv, WriterRecords,
      WriterStays, Phases
<1>6. ASSUME NEW t \in Threads, css_logger_log_inner(t) PROVE WriterInv'
  <2>1. /\ UNCHANGED <<status, timer, work, writer, wstate, writes, bindex>>
        /\ pc' = [pc EXCEPT ![t] = "log"]
    BY <1>6 DEF css_logger_log_inner, fileVars, bufferVars
  <2>2. /\ pc' \in [Threads \cup {Flusher} -> {"idle", "log", "dump", "crash"}]
        /\ pc'[Flusher] = pc[Flusher]
    BY <2>1, LoggerAssumption DEF WriterInv, Phases
  <2>3. QED  BY <2>1, <2>2 DEF WriterInv, WriterRecords, WriterStays, Phases
<1>7. ASSUME NEW w \in writes, after_write_logger_cb(w) PROVE WriterInv'
  <2>1. UNCHANGED <<status, timer, work, writer, bindex, pc>> /\ writes' \in SUBSET writes
    BY <1>7 DEF after_write_logger_cb, threadVars
  <2>2. CASE w.close
    <3>1. wstate' = [wstate EXCEPT ![w.writer] = "closing"]
      BY <1>7, <2>2 DEF after_write_logger_cb, Closing
    <3>2. w.writer \in 1 .. Len(wstate) /\ (status = "INIT" => w.writer # writer)
      BY <2>2 DEF WriterInv, WriterRecords, WriterStays
    <3>3. QED  BY <2>1, <3>1, <3>2, CallbackKeepsWriters
  <2>3. CASE ~w.close
    <3>1. wstate' = wstate  BY <1>7, <2>3 DEF after_write_logger_cb
    <3>2. QED  BY <2>1, <3>1 DEF WriterInv, WriterRecords, WriterStays, Phases
  <2>4. QED  BY <2>2, <2>3
<1>8. ASSUME NEW w \in DOMAIN wstate, after_roll_logger_cb(w) PROVE WriterInv'
  <2>1. /\ UNCHANGED <<status, timer, work, writer, bindex, pc, writes>>
        /\ wstate[w] = "closing" /\ wstate' = [wstate EXCEPT ![w] = "freed"]
    BY <1>8 DEF after_roll_logger_cb, bufferVars, threadVars
  <2>2. w \in 1 .. Len(wstate)  BY DEF WriterInv, WriterRecords
  <2>3. status = "INIT" => w # writer
    BY <2>1, <2>2 DEF WriterInv, WriterStays
  <2>4. QED  BY <2>1, <2>2, <2>3, CallbackKeepsWriters
<1>9. CASE UNCHANGED vars
  BY <1>9
  DEF vars, fileVars, bufferVars, threadVars, WriterInv, WriterRecords, WriterStays, Phases
<1>10. QED
  BY <1>1, <1>2, <1>3, <1>4, <1>5, <1>6, <1>7, <1>8, <1>9, LogKeepsWriters,
     DumpLockedKeepsWriters DEF Next

\* Whatever is dumped and called back in whatever order, the logger never writes
\* through a writer that is closed or freed while it runs (should_roll_log in
\* css_logger_dump_to_file, after_write_logger_and_close_cb).
THEOREM WriterStaysUsable == Spec => []WriterUsable
<1>1. Init => WriterInv
  BY DEF Init, WriterInv, WriterRecords, WriterStays, Phases
<1>2. WriterInv => WriterUsable  BY DEF WriterInv, WriterStays, WriterUsable
<1>3. QED  BY <1>1, <1>2, WriterStep, PTL DEF Spec

-----------------------------------------------------------------------------
(* The memory of the buffers.                                              *)

Chars == {NUL} \cup ((1 .. MaxLines) \X (1 .. BufSize))
Memory == [0 .. Buffers * BufSize - 1 -> Chars]

\* The buffer that is used after b.
After(b) == IF b = Buffers - 1 THEN 0 ELSE b + 1

\* From the memory m to e, the first n characters of buffer b are the same.
Keeps(m, e, b, n) == \A i \in 0 .. n - 1 : e[Start(b) + i] = m[Start(b) + i]

\* Where the buffers stand.
LEMMA Places ==
    /\ Start(0) = 0 /\ Start(1) = BufSize /\ Start(2) = BufSize + BufSize
    /\ 0 .. Buffers * BufSize - 1 = 0 .. BufSize + BufSize + BufSize - 1
    /\ 0 .. Buffers - 1 = {0, 1, 2}
    /\ After(0) = 1 /\ After(1) = 2 /\ After(2) = 0
BY LoggerAssumption DEF Start, Buffers, After

\* vsnprintf writes a string at a place and nothing else.
LEMMA PutText ==
    ASSUME NEW m \in Memory, NEW p \in Nat, NEW s, NEW n \in Nat, DOMAIN s = 1 .. n,
           \A i \in 1 .. n : s[i] \in Chars
    PROVE  /\ Put(m, p, s) \in Memory
           /\ \A i \in 0 .. Buffers * BufSize - 1 :
                /\ i < p \/ i >= p + n => Put(m, p, s)[i] = m[i]
                /\ p <= i /\ i < p + n => Put(m, p, s)[i] = s[i - p + 1]
<1> DEFINE D == 0 .. Buffers * BufSize - 1
           e == Put(m, p, s)
<1>1. DOMAIN m = D /\ e = [i \in D |-> IF i - p + 1 \in 1 .. n THEN s[i - p + 1] ELSE m[i]]
  BY DEF Put, Memory
<1>2. \A i \in D : i \in Nat  BY LoggerAssumption, Places
<1> HIDE DEF D
<1>3. \A i \in D : m[i] \in Chars  BY <1>1 DEF Memory, D
<1>4. \A i \in D : e[i] = IF i - p + 1 \in 1 .. n THEN s[i - p + 1] ELSE m[i]  BY <1>1
<1>5. e \in [D -> Chars]  BY <1>1, <1>3
<1>6. \A i \in D : /\ i < p \/ i >= p + n => e[i] = m[i]
                   /\ p <= i /\ i < p + n => e[i] = s[i - p + 1]
  BY <1>2, <1>4
<1>7. QED  BY <1>5, <1>6 DEF D, Memory

\* A line is its characters and a NUL; what does not fit is cut off.
LEMMA LineText ==
    ASSUME NEW l \in LinesTaken
    PROVE  /\ Text(l) \in Seq({NUL} \cup ((1 .. MaxLines) \X Nat))
           /\ Len(Text(l)) = l.length + 1
           /\ \A i \in 1 .. l.length : Text(l)[i] = <<l.number, i>>
           /\ Text(l)[l.length + 1] = NUL
<1> DEFINE S == {NUL} \cup ((1 .. MaxLines) \X Nat)
           s == [i \in 1 .. l.length |-> <<l.number, i>>]
<1>1. l.length \in Nat \ {0} /\ l.number \in 1 .. MaxLines
  BY LoggerAssumption DEF LinesTaken
<1>2. s \in [1 .. l.length -> S]  BY <1>1
<1>3. s \in Seq(S) /\ Len(s) = l.length  BY <1>1, <1>2, SeqDef
<1>4. <<NUL>> \in Seq(S) /\ Len(<<NUL>>) = 1 /\ <<NUL>>[1] = NUL  OBVIOUS
<1>5. \A i \in 1 .. l.length : s[i] = <<l.number, i>>  OBVIOUS
<1>6. Text(l) = s \o <<NUL>>  BY DEF Text
<1> HIDE DEF s, S
<1>7. /\ Text(l) \in Seq(S) /\ Len(Text(l)) = l.length + 1
      /\ \A i \in 1 .. l.length + 1 :
            Text(l)[i] = IF i <= l.length THEN s[i] ELSE <<NUL>>[i - l.length]
  BY <1>3, <1>4, <1>6, ConcatProperties
<1>8. /\ \A i \in 1 .. l.length : i \in 1 .. l.length + 1 /\ i <= l.length
      /\ l.length + 1 \in 1 .. l.length + 1 /\ ~(l.length + 1 <= l.length)
      /\ (l.length + 1) - l.length = 1
  BY <1>1
<1>9. \A i \in 1 .. l.length : Text(l)[i] = <<l.number, i>>  BY <1>5, <1>7, <1>8
<1>10. Text(l)[l.length + 1] = NUL  BY <1>4, <1>7, <1>8
<1>11. QED  BY <1>7, <1>9, <1>10 DEF S

\* A line that fits, as characters of the memory.
LEMMA FittingText ==
    ASSUME NEW l \in LinesTaken, l.length < BufSize
    PROVE  /\ DOMAIN Text(l) = 1 .. l.length + 1
           /\ \A i \in 1 .. l.length + 1 : Text(l)[i] \in Chars
<1>1. l.length \in Nat \ {0} /\ l.number \in 1 .. MaxLines /\ BufSize \in Nat
  BY LoggerAssumption DEF LinesTaken
<1>2. DOMAIN Text(l) = 1 .. l.length + 1  BY LineText, LenProperties
<1>3. \A i \in 1 .. l.length : Text(l)[i] \in Chars
  <2> SUFFICES ASSUME NEW i \in 1 .. l.length PROVE Text(l)[i] \in Chars  OBVIOUS
  <2>1. i \in 1 .. BufSize  BY <1>1
  <2>2. QED  BY <1>1, <2>1, LineText DEF Chars
<1>4. Text(l)[l.length + 1] \in Chars  BY LineText DEF Chars
<1>5. \A i \in 1 .. l.length + 1 : i \in 1 .. l.length \/ i = l.length + 1  BY <1>1
<1>6. QED  BY <1>2, <1>3, <1>4, <1>5

LEMMA CutText ==
    ASSUME NEW l \in LinesTaken, NEW room \in 1 .. BufSize
    PROVE  \E n \in 1 .. room :
            /\ DOMAIN Cut(l, room) = 1 .. n
            /\ \A i \in 1 .. n : Cut(l, room)[i] \in Chars
<1>0. l.length \in Nat \ {0} /\ l.number \in 1 .. MaxLines
  BY LoggerAssumption DEF LinesTaken
<1>1. /\ l.length \in Nat \ {0} /\ l.number \in 1 .. MaxLines
      /\ room \in Nat \ {0} /\ BufSize \in Nat /\ room <= BufSize
  BY <1>0, LoggerAssumption
<1>2. CASE l.length < room
  <2>1. Cut(l, room) = Text(l) /\ l.length + 1 \in 1 .. room /\ l.length < BufSize
    BY <1>1, <1>2 DEF Cut
  <2>2. QED  BY <2>1, FittingText
<1>3. CASE l.length >= room
  <2> DEFINE s == SubSeq(Text(l), 1, room - 1)
  <2>1. Cut(l, room) = s \o <<NUL>>  BY <1>1, <1>3 DEF Cut
  <2>2. \A i \in 1 .. room - 1 : Text(l)[i] \in Chars
    <3> SUFFICES ASSUME NEW i \in 1 .. room - 1 PROVE Text(l)[i] \in Chars  OBVIOUS
    <3>1. i \in 1 .. l.length /\ i \in 1 .. BufSize  BY <1>1, <1>3
    <3>2. QED  BY <1>1, <3>1, LineText DEF Chars
  <2>3. room - 1 \in Int /\ 1 \in Int  BY <1>1
  <2>4. s \in Seq(Chars) /\ Len(s) = IF 1 <= room - 1 THEN room - 1 - 1 + 1 ELSE 0
    BY <2>2, <2>3, SubSeqProperties
  <2>5. Len(s) = room - 1  BY <1>1, <2>4
  <2> HIDE DEF s
  <2>6. <<NUL>> \in Seq(Chars) /\ Len(<<NUL>>) = 1  BY DEF Chars
  <2>7. Cut(l, room) \in Seq(Chars) /\ Len(Cut(l, room)) = room
    BY <1>1, <2>1, <2>4, <2>5, <2>6, ConcatProperties
  <2>8. /\ DOMAIN Cut(l, room) = 1 .. room
        /\ \A i \in 1 .. room : Cut(l, room)[i] \in Chars
    BY <2>7, LenProperties, ElementOfSeq
  <2>9. QED  BY <1>1, <2>8
<1>4. QED  BY <1>1, <1>2, <1>3

\* The text of the line a stands in buffer b of the memory m where it was put.
StandsIn(m, a, b) ==
    \A i \in 1 .. a.line.length :
        m[Start(b) + a.at + i - 1] = <<a.line.number, i>>

\* What keeps the text of a buffer keeps the lines in it.
LEMMA LineKept ==
    ASSUME NEW m, NEW e, NEW b \in {0, 1, 2}, NEW n \in Nat, Keeps(m, e, b, n),
           NEW a \in LinesAt, a.at + a.line.length <= n, StandsIn(m, a, b)
    PROVE  StandsIn(e, a, b)
<1>1. a.at \in Nat /\ a.line.length \in Nat /\ Start(b) \in Nat
  <2>1. a.line \in LinesTaken /\ a.at \in Nat  BY LoggerAssumption DEF LinesAt
  <2>2. a.line.length \in Nat  BY <2>1, LoggerAssumption DEF LinesTaken
  <2>3. BufSize \in Nat /\ (b = 0 \/ b = 1 \/ b = 2)  BY LoggerAssumption
  <2>4. Start(b) \in Nat  BY <2>3, Places
  <2>5. QED  BY <2>1, <2>2, <2>4
<1> SUFFICES ASSUME NEW i \in 1 .. a.line.length
    PROVE  e[Start(b) + a.at + i - 1] = <<a.line.number, i>>
  BY DEF StandsIn
<1> DEFINE j == a.at + i - 1
<1>0. \A s, x, y \in Nat : \A k \in 1 .. y :
        x + y <= n => x + k - 1 \in 0 .. n - 1 /\ s + x + k - 1 = s + (x + k - 1)
  OBVIOUS
<1>2. j \in 0 .. n - 1 /\ Start(b) + a.at + i - 1 = Start(b) + j  BY <1>0, <1>1
<1>3. e[Start(b) + j] = m[Start(b) + j]  BY <1>2 DEF Keeps
<1>4. QED  BY <1>2, <1>3 DEF StandsIn

\* One change of the memory after the other, and less of a buffer.
LEMMA KeepsBoth ==
    ASSUME NEW m, NEW d, NEW e, NEW b, NEW n \in Nat, NEW k \in Nat, NEW l \in Nat,
           Keeps(m, d, b, n), Keeps(d, e, b, k), l <= n, l <= k
    PROVE  Keeps(m, e, b, l)
BY DEF Keeps

\* What is written from the place o of buffer b on, a buffer long at most, stays
\* clear of the text before it and of the buffer after the next one; and of the
\* next one too, when it ends where b ends.
LEMMA PutKeeps ==
    ASSUME NEW m \in Memory, NEW b \in {0, 1, 2}, NEW o \in 0 .. BufSize - 1, NEW s,
           NEW n \in 0 .. BufSize, DOMAIN s = 1 .. n, \A i \in 1 .. n : s[i] \in Chars
    PROVE  LET e == Put(m, Start(b) + o, s)
           IN  /\ e \in Memory
               /\ Keeps(m, e, b, o)
               /\ Keeps(m, e, After(After(b)), BufSize)
               /\ o + n <= BufSize => Keeps(m, e, After(b), BufSize)
<1> DEFINE p == Start(b) + o
           e == Put(m, p, s)
           D == 0 .. BufSize + BufSize + BufSize - 1
<1>1. BufSize \in Nat \ {0} /\ o \in Nat /\ o < BufSize /\ n \in Nat /\ n <= BufSize
  BY LoggerAssumption
<1>2. \/ b = 0 /\ Start(b) = 0 /\ After(b) = 1 /\ After(After(b)) = 2
      \/ b = 1 /\ Start(b) = BufSize /\ After(b) = 2 /\ After(After(b)) = 0
      \/ b = 2 /\ Start(b) = BufSize + BufSize /\ After(b) = 0 /\ After(After(b)) = 1
  BY Places
<1>3. p \in Nat  BY <1>1, <1>2
<1> HIDE DEF D, p
<1>4. /\ e \in Memory
      /\ \A i \in D : i < p \/ i >= p + n => e[i] = m[i]
  <2>1. D = 0 .. Buffers * BufSize - 1  BY Places DEF D
  <2> HIDE DEF e
  <2>2. /\ e \in Memory
        /\ \A i \in 0 .. Buffers * BufSize - 1 : i < p \/ i >= p + n => e[i] = m[i]
    BY <1>1, <1>3, PutText DEF e
  <2>3. QED  BY <2>1, <2>2
<1> HIDE DEF e
<1> USE DEF D, p
<1>5. Keeps(m, e, b, o)
  <2> SUFFICES ASSUME NEW i \in 0 .. o - 1 PROVE e[Start(b) + i] = m[Start(b) + i]
    BY DEF Keeps
  <2>1. Start(b) + i \in D /\ Start(b) + i < p  BY <1>1, <1>2
  <2>2. QED  BY <1>4, <2>1
<1>6. Keeps(m, e, After(After(b)), BufSize)
  <2> SUFFICES ASSUME NEW i \in 0 .. BufSize - 1
      PROVE  e[Start(After(After(b))) + i] = m[Start(After(After(b))) + i]
    BY DEF Keeps
  <2> DEFINE q == Start(After(After(b))) + i
  <2>1. q \in D /\ (q < p \/ q >= p + n)
    BY <1>1, <1>2, Places
  <2>2. QED  BY <1>4, <2>1
<1>7. ASSUME o + n <= BufSize PROVE Keeps(m, e, After(b), BufSize)
  <2> SUFFICES ASSUME NEW i \in 0 .. BufSize - 1
      PROVE  e[Start(After(b)) + i] = m[Start(After(b)) + i]
    BY DEF Keeps
  <2> DEFINE q == Start(After(b)) + i
  <2>1. q \in D /\ (q < p \/ q >= p + n)
    BY <1>1, <1>2, <1>7, Places
  <2>2. QED  BY <1>4, <2>1
<1>8. QED  BY <1>4, <1>5, <1>6, <1>7 DEF e

-----------------------------------------------------------------------------
(* Types.                                                                  *)

\* What a dump, or a line that is logged, changes, and what the threads hold.
BufferTypes ==
    /\ writer_offset \in Nat
    /\ mem \in Memory
    /\ buffer \in 0 .. Buffers - 1
    /\ bindex \in 0 .. Buffers
    /\ offset \in 0 .. BufSize - 1
    /\ writes \in SUBSET Requests
    /\ held \in SUBSET LinesAt
    /\ rotations \in Nat

ThreadTypes ==
    /\ status \in {"UNINIT", "INIT"}
    /\ timer \in BOOLEAN
    /\ line \in [Threads -> LinesTaken \cup {NoLine}]
    /\ len \in [Threads \cup {Flusher} -> 0 .. BufSize]
    /\ count \in 0 .. MaxLines
    /\ work \in {"none", "queued", "running", "done"}

\* A thread in front of the mutex has a line.
LineInHand == \A t \in Threads : pc[t] = "log" => line[t] \in LinesTaken

LEMMA TypesSplit ==
    /\ FilesInv /\ WriterInv /\ BufferTypes /\ ThreadTypes
    /\ missed \in SUBSET LinesTaken
    => TypeOK
BY DEF FilesInv, Ordered, WriterInv, WriterRecords, WriterStates, Phases, BufferTypes,
       ThreadTypes, TypeOK, Memory, Chars

\* css_logger_dump_to_file under the mutex: all but the memory.
LEMMA DumpTypes ==
    ASSUME BufferTypes, WriterInv, NEW n \in 0 .. BufSize, NEW should_close \in BOOLEAN,
           NEW ls \in SUBSET LinesAt, Dump(n, should_close, ls), mem' \in Memory
    PROVE  BufferTypes'
<1>1. NextBuffer \in 0 .. Buffers - 1 /\ NextBuffer + 1 \in 0 .. Buffers
  BY DEF BufferTypes, NextBuffer, Buffers
<1>2. buffer' \in 0 .. Buffers - 1 /\ bindex' \in 0 .. Buffers
  BY <1>1 DEF Dump
<1>3. offset' \in 0 .. BufSize - 1 /\ held' \in SUBSET LinesAt /\ rotations' \in Nat
  BY LoggerAssumption DEF Dump, BufferTypes
<1>4. \E close \in BOOLEAN :
        \/ writes' = writes
        \/ writes' = writes \cup {[base |-> buffer, len |-> n, writer |-> writer,
                                   close |-> close, lines |-> ls, turn |-> rotations]}
  BY DEF Dump
<1>5. n \in Nat /\ writer \in Nat
  <2>1. wstate \in Seq(WriterStates) /\ writer \in 0 .. Len(wstate)
    BY DEF WriterInv, WriterRecords
  <2>2. QED  BY <2>1, LoggerAssumption
<1>6. writes' \in SUBSET Requests
  BY <1>4, <1>5 DEF BufferTypes, Requests
<1>7. writer_offset' \in Nat
  <2>1. writer_offset' = 0 \/ writer_offset' = writer_offset + n  BY DEF Dump, LeaveWriter
  <2>2. QED  BY <1>5, <2>1 DEF BufferTypes
<1>8. QED  BY <1>2, <1>3, <1>6, <1>7 DEF BufferTypes

LEMMA ClearedTypes ==
    ASSUME NEW m \in Memory
    PROVE  Cleared(m) \in Memory
<1>1. NUL \in Chars  BY DEF Chars
<1>2. QED  BY <1>1 DEF Cleared, Memory

\* css_logger_log_inner under the mutex, for a line that fits or not.
LEMMA FittingTypes ==
    ASSUME BufferTypes, WriterInv, NEW l \in LinesTaken, LogFitting(l)
    PROVE  BufferTypes'
<1> DEFINE size == offset + l.length
           lines == held \cup {[line |-> l, at |-> offset]}
           m == Put(mem, Start(buffer) + offset, Text(l))
<1>0. l.length \in Nat  BY LoggerAssumption DEF LinesTaken
<1>1. l.length \in Nat /\ l.length < BufSize - offset /\ BufSize \in Nat /\ offset \in Nat
      /\ offset < BufSize
  BY <1>0, LoggerAssumption DEF LogFitting, BufferTypes
<1>2. size \in 0 .. BufSize - 1 /\ size \in 0 .. BufSize  BY <1>1
<1>3. lines \in SUBSET LinesAt
  <2>1. offset \in 0 .. BufSize  BY <1>1
  <2>2. QED  BY <2>1 DEF BufferTypes, LinesAt
<1>4. m \in Memory
  <2>1. /\ DOMAIN Text(l) = 1 .. l.length + 1
        /\ \A i \in 1 .. l.length + 1 : Text(l)[i] \in Chars
    BY <1>1, FittingText
  <2>2. l.length + 1 \in 0 .. BufSize /\ offset \in 0 .. BufSize - 1  BY <1>1
  <2>3. buffer \in {0, 1, 2} /\ mem \in Memory  BY Places DEF BufferTypes
  <2>4. QED  BY <2>1, <2>2, <2>3, PutKeeps
<1> HIDE DEF m, lines, size
<1>5. CASE mem' = m /\ offset' = size /\ held' = lines
           /\ UNCHANGED <<fileVars, buffer, bindex, writes, rotations>>
  BY <1>2, <1>3, <1>4, <1>5 DEF BufferTypes, fileVars
<1>6. CASE mem' = Cleared(m) /\ Dump(size, FALSE, lines)
  BY <1>2, <1>3, <1>4, <1>6, ClearedTypes, DumpTypes
<1>7. CASE mem' = m /\ DropText
  BY <1>4, <1>7, LoggerAssumption DEF BufferTypes, DropText, fileVars
<1>8. QED  BY <1>5, <1>6, <1>7 DEF LogFitting, m, lines, size

LEMMA RetriedTypes ==
    ASSUME BufferTypes, WriterInv, NEW l \in LinesTaken, LogRetried(l)
    PROVE  BufferTypes'
<1> DEFINE p == Start(buffer) + offset
           m == Put(mem, p, Cut(l, BufSize - offset))
<1>1. BufSize \in Nat \ {0} /\ offset \in Nat /\ offset < BufSize
      /\ BufSize - offset \in 1 .. BufSize /\ BufSize \in 1 .. BufSize
      /\ offset \in 0 .. BufSize - 1 /\ offset \in 0 .. BufSize
  BY LoggerAssumption DEF BufferTypes
<1>2. ASSUME NEW d \in Memory, NEW room \in 1 .. BufSize PROVE Put(d, p, Cut(l, room)) \in Memory
  <2>1. PICK n \in 1 .. room :
            /\ DOMAIN Cut(l, room) = 1 .. n
            /\ \A i \in 1 .. n : Cut(l, room)[i] \in Chars
    BY CutText
  <2>2. n \in 0 .. BufSize  BY <1>1
  <2>3. buffer \in {0, 1, 2}  BY Places DEF BufferTypes
  <2>4. QED  BY <1>1, <2>1, <2>2, <2>3, PutKeeps
<1>3. m \in Memory  BY <1>1, <1>2 DEF BufferTypes
<1> HIDE DEF m, p
<1>4. CASE mem' = Put(m, p, Cut(l, BufSize)) /\ DropText
  BY <1>1, <1>2, <1>3, <1>4 DEF BufferTypes, DropText, fileVars
<1>5. CASE mem' = Put(Cleared(m), p, Cut(l, BufSize)) /\ Dump(offset, FALSE, held)
  <2>1. mem' \in Memory  BY <1>1, <1>2, <1>3, <1>5, ClearedTypes
  <2>2. held \in SUBSET LinesAt  BY DEF BufferTypes
  <2>3. QED  BY <1>1, <1>5, <2>1, <2>2, DumpTypes
<1>6. QED  BY <1>4, <1>5 DEF LogRetried, m, p

\* css_logger_dump_to_file under the mutex.
LEMMA DumpLockedTypes ==
    ASSUME BufferTypes, ThreadTypes, WriterInv, NEW t \in Threads \cup {Flusher},
           DumpNext(t)
    PROVE  BufferTypes'
<1>1. CASE UNCHANGED <<writer_offset, bufferVars>>
  BY <1>1 DEF BufferTypes, bufferVars
<1>2. CASE mem' = Cleared(mem) /\ Dump(len[t], t = Flusher, held)
  <2>1. len[t] \in 0 .. BufSize /\ held \in SUBSET LinesAt /\ (t = Flusher) \in BOOLEAN
    BY DEF BufferTypes, ThreadTypes
  <2>2. mem' \in Memory  BY <1>2, ClearedTypes DEF BufferTypes
  <2>3. QED  BY <1>2, <2>1, <2>2, DumpTypes
<1>3. QED  BY <1>1, <1>2 DEF DumpNext, css_logger_dump_locked, fileVars

\* What each step leaves in the buffers.
LEMMA BufferTypesStep ==
    ASSUME BufferTypes, ThreadTypes, LineInHand, WriterInv, [Next]_vars
    PROVE  BufferTypes'
<1>1. CASE css_logger_start
  <2>1. writer_offset' \in Nat
    <3>1. PICK success \in BOOLEAN : open_logger_file(success)
      BY <1>1 DEF css_logger_start
    <3>2. writer_offset' \in {writer_offset, 0, MaxFileSize}
      BY <3>1 DEF open_logger_file, css_logger_reopen_file, fileVars
    <3>3. QED  BY <3>2, LoggerAssumption DEF BufferTypes
  <2>2. buffer' = 0 /\ bindex' = 1  BY <1>1 DEF css_logger_start
  <2>3. UNCHANGED <<mem, offset, writes, held, rotations>>  BY <1>1 DEF css_logger_start
  <2>4. QED  BY <2>1, <2>2, <2>3 DEF BufferTypes, Buffers
<1>2. ASSUME NEW t \in Threads, css_logger_log_locked(t) PROVE BufferTypes'
  <2>1. line[t] \in LinesTaken  BY <1>2 DEF css_logger_log_locked, At, LineInHand
  <2>2. LogFitting(line[t]) \/ LogRetried(line[t])  BY <1>2 DEF css_logger_log_locked
  <2>3. QED  BY <2>1, <2>2, FittingTypes, RetriedTypes
<1>3. CASE css_logger_dump_to_file_cb \/ css_logger_flush_to_file \/ css_logger_close_file
  <2>1. /\ UNCHANGED <<writer_offset, mem, buffer, bindex, writes, rotations>>
        /\ UNCHANGED <<offset, held>> \/ (offset' = 0 /\ held' = {})
    BY <1>3
    DEF css_logger_dump_to_file_cb, css_logger_flush_to_file, css_logger_dump_to_file,
        css_logger_close_file, fileVars
  <2>2. QED  BY <2>1, LoggerAssumption DEF BufferTypes
<1>4. CASE \/ css_logger_close \/ \E t \in Threads : css_logger_log_inner(t)
           \/ \E w \in DOMAIN wstate : after_roll_logger_cb(w)
           \/ UNCHANGED vars
  <2>1. UNCHANGED <<writer_offset, bufferVars>>
    BY <1>4 DEF css_logger_close, css_logger_log_inner, after_roll_logger_cb, vars, fileVars
  <2>2. QED  BY <2>1 DEF BufferTypes, bufferVars
<1>5. ASSUME NEW w \in writes, after_write_logger_cb(w) PROVE BufferTypes'
  <2>1. /\ UNCHANGED <<writer_offset, mem, buffer, bindex, offset, held, rotations>>
        /\ writes' \in SUBSET writes
    BY <1>5 DEF after_write_logger_cb
  <2>2. QED  BY <2>1 DEF BufferTypes
<1>6. QED  BY <1>1, <1>2, <1>3, <1>4, <1>5, DumpLockedTypes DEF Next

\* What each step leaves with the threads.
LEMMA ThreadTypesStep ==
    ASSUME BufferTypes, ThreadTypes, LineInHand, WriterInv, [Next]_vars
    PROVE  ThreadTypes' /\ LineInHand'
<1>0. pc \in [Threads \cup {Flusher} -> {"idle", "log", "dump", "crash"}]
  BY DEF WriterInv, Phases
<1>1. CASE css_logger_start
  <2>1. /\ UNCHANGED <<work, threadVars>>
        /\ status' \in {"UNINIT", "INIT"} /\ timer' \in BOOLEAN
    BY <1>1 DEF css_logger_start, css_logger_start_Timed
  <2>2. QED  BY <2>1 DEF ThreadTypes, LineInHand, threadVars
<1>2. CASE css_logger_close \/ css_logger_close_file
  BY <1>2
  DEF css_logger_close, css_logger_close_file, ThreadTypes, LineInHand, threadVars
<1>3. CASE css_logger_dump_to_file_cb \/ css_logger_flush_to_file
  <2>1. PICK t \in Threads \cup {Flusher} : css_logger_dump_to_file(t)
    BY <1>3, LoggerAssumption DEF css_logger_dump_to_file_cb, css_logger_flush_to_file
  <2>2. /\ UNCHANGED <<status, timer, line, count>>
        /\ work' \in {"none", "queued", "running", "done"}
    BY <1>3, <2>1
    DEF css_logger_dump_to_file_cb, css_logger_flush_to_file, css_logger_dump_to_file,
        ThreadTypes
  <2>3. UNCHANGED <<pc, len>> \/ (pc' = [pc EXCEPT ![t] = "dump"] /\ len' = [len EXCEPT ![t] = offset])
    BY <2>1 DEF css_logger_dump_to_file
  <2>4. offset \in 0 .. BufSize  BY LoggerAssumption DEF BufferTypes
  <2>5. len' \in [Threads \cup {Flusher} -> 0 .. BufSize]
    BY <2>3, <2>4 DEF ThreadTypes
  <2>6. LineInHand'  BY <1>0, <2>2, <2>3 DEF LineInHand
  <2>7. QED  BY <2>2, <2>5, <2>6 DEF ThreadTypes
<1>4. ASSUME NEW t \in Threads, css_logger_log_inner(t) PROVE ThreadTypes' /\ LineInHand'
  <2>1. PICK n \in Lengths :
            line' = [line EXCEPT ![t] = [number |-> count + 1, length |-> n]]
    BY <1>4 DEF css_logger_log_inner
  <2>2. count + 1 \in 1 .. MaxLines /\ count' = count + 1
    BY <1>4, LoggerAssumption DEF css_logger_log_inner, ThreadTypes
  <2>3. [number |-> count + 1, length |-> n] \in LinesTaken  BY <2>2 DEF LinesTaken
  <2>4. /\ line' \in [Threads -> LinesTaken \cup {NoLine}] /\ line'[t] \in LinesTaken
        /\ \A u \in Threads \ {t} : line'[u] = line[u]
    BY <2>1, <2>3 DEF ThreadTypes
  <2>5. /\ UNCHANGED <<status, timer, work, len>> /\ pc' = [pc EXCEPT ![t] = "log"]
    BY <1>4 DEF css_logger_log_inner
  <2>6. LineInHand'  BY <1>0, <2>4, <2>5 DEF LineInHand
  <2>7. count' \in 0 .. MaxLines  BY <2>2, LoggerAssumption
  <2>8. QED  BY <2>4, <2>5, <2>6, <2>7 DEF ThreadTypes
<1>5. ASSUME NEW t \in Threads, css_logger_log_locked(t) PROVE ThreadTypes' /\ LineInHand'
  <2>1. /\ UNCHANGED <<status, timer, work, len, count>>
        /\ pc' = [pc EXCEPT ![t] = "idle"] /\ line' = [line EXCEPT ![t] = NoLine]
    BY <1>5 DEF css_logger_log_locked
  <2>2. line' \in [Threads -> LinesTaken \cup {NoLine}]  BY <2>1 DEF ThreadTypes
  <2>3. LineInHand'  BY <1>0, <2>1 DEF LineInHand, ThreadTypes
  <2>4. QED  BY <2>1, <2>2, <2>3 DEF ThreadTypes
<1>6. ASSUME NEW t \in Threads \cup {Flusher}, DumpNext(t) PROVE ThreadTypes' /\ LineInHand'
  <2>1. /\ UNCHANGED <<status, timer, line, count>> /\ work' \in {work, "done"}
        /\ len' = [len EXCEPT ![t] = 0]
        /\ \E l \in {"idle", "crash"} : pc' = [pc EXCEPT ![t] = l]
    BY <1>6 DEF DumpNext, css_logger_dump_locked, FlushReturns
  <2>2. len' \in [Threads \cup {Flusher} -> 0 .. BufSize]
    BY <2>1, LoggerAssumption DEF ThreadTypes
  <2>3. LineInHand'  BY <1>0, <2>1 DEF LineInHand
  <2>4. QED  BY <2>1, <2>2, <2>3 DEF ThreadTypes
<1>7. CASE \/ \E w \in writes : after_write_logger_cb(w)
           \/ \E w \in DOMAIN wstate : after_roll_logger_cb(w)
           \/ UNCHANGED vars
  <2>1. UNCHANGED <<status, timer, work, threadVars>>
    BY <1>7 DEF after_write_logger_cb, after_roll_logger_cb, vars
  <2>2. QED  BY <2>1 DEF ThreadTypes, LineInHand, threadVars
<1>8. QED  BY <1>1, <1>2, <1>3, <1>4, <1>5, <1>6, <1>7 DEF Next

\* The invariant that the types rest on, for the writers and the directory.
LoggerInv == FilesInv /\ WriterInv /\ BufferTypes /\ ThreadTypes /\ LineInHand

LEMMA LoggerInit == Init => LoggerInv
<1> SUFFICES ASSUME Init PROVE LoggerInv  OBVIOUS
<1>1. FilesInv  BY FilesInit
<1>2. WriterInv  BY DEF Init, WriterInv, WriterRecords, WriterStays, Phases
<1>3. BufferTypes
  <2>1. mem \in Memory  BY DEF Init, Memory, Chars
  <2>2. QED  BY <2>1, LoggerAssumption DEF Init, BufferTypes, Buffers
<1>4. ThreadTypes
  <2>1. 0 \in 0 .. BufSize /\ 0 \in 0 .. MaxLines  BY LoggerAssumption
  <2>2. /\ line \in [Threads -> LinesTaken \cup {NoLine}]
        /\ len \in [Threads \cup {Flusher} -> 0 .. BufSize]
    BY <2>1 DEF Init
  <2>3. QED  BY <2>1, <2>2 DEF Init, ThreadTypes
<1>5. LineInHand  BY DEF Init, LineInHand
<1>6. QED  BY <1>1, <1>2, <1>3, <1>4, <1>5 DEF LoggerInv

LEMMA LoggerStep == LoggerInv /\ [Next]_vars => LoggerInv'
BY FilesStep, WriterStep, BufferTypesStep, ThreadTypesStep DEF LoggerInv

\* Of the lines that the buffer lost, one at the most would fit an empty buffer.
MissedInv ==
    /\ missed \in SUBSET LinesTaken
    /\ \A k, l \in Short(missed) : k = l

\* A line that does not fit is the only short one lost since the buffer was emptied:
\* if the buffer was empty before, the line is not short.
LEMMA RetriedIsMissed ==
    ASSUME LoggerInv, MissedInv, NEW l \in LinesTaken, LogRetried(l)
    PROVE  MissedInv'
<1>1. CASE offset = 0
  <2>1. missed' = missed \cup {l}  BY <1>1 DEF LogRetried
  <2>2. ~(l.length < BufSize)
    <3>1. l.length \in Nat /\ BufSize \in Nat  BY LoggerAssumption DEF LinesTaken
    <3>2. l.length >= BufSize - offset  BY DEF LogRetried
    <3>3. QED  BY <1>1, <3>1, <3>2
  <2>3. Short(missed') = Short(missed)  BY <2>1, <2>2 DEF Short
  <2>4. QED  BY <2>1, <2>3 DEF MissedInv, Short
<1>2. CASE offset # 0
  <2>1. missed' = {l}  BY <1>2 DEF LogRetried
  <2>2. QED  BY <2>1 DEF MissedInv, Short
<1>3. QED  BY <1>1, <1>2

LEMMA MissedStep ==
    ASSUME LoggerInv, MissedInv, [Next]_vars
    PROVE  MissedInv'
<1>1. ASSUME missed' = missed \/ missed' = {} PROVE MissedInv'
  BY <1>1 DEF MissedInv, Short
<1>2. ASSUME NEW t \in Threads, css_logger_log_locked(t) PROVE MissedInv'
  <2>1. line[t] \in LinesTaken
    BY <1>2 DEF css_logger_log_locked, At, LoggerInv, LineInHand
  <2>2. CASE LogFitting(line[t])
    <3>1. missed' = missed \/ missed' = {}  BY <2>2 DEF LogFitting
    <3>2. QED  BY <1>1, <3>1
  <2>3. CASE LogRetried(line[t])  BY <2>1, <2>3, RetriedIsMissed
  <2>4. QED  BY <1>2, <2>2, <2>3 DEF css_logger_log_locked
<1>3. ASSUME NEW t \in Threads \cup {Flusher}, DumpNext(t) PROVE MissedInv'
  <2>1. missed' = missed \/ missed' = {}
    BY <1>3 DEF DumpNext, css_logger_dump_locked, bufferVars
  <2>2. QED  BY <1>1, <2>1
<1>4. CASE \/ css_logger_start \/ css_logger_close \/ css_logger_dump_to_file_cb
           \/ css_logger_flush_to_file \/ css_logger_close_file
  <2>1. missed' = missed \/ missed' = {}
    BY <1>4
    DEF css_logger_start, css_logger_close, css_logger_dump_to_file_cb,
        css_logger_flush_to_file, css_logger_dump_to_file, css_logger_close_file, bufferVars
  <2>2. QED  BY <1>1, <2>1
<1>5. CASE \/ \E t \in Threads : css_logger_log_inner(t)
           \/ \E w \in writes : after_write_logger_cb(w)
           \/ \E w \in DOMAIN wstate : after_roll_logger_cb(w)
           \/ UNCHANGED vars
  <2>1. missed' = missed
    BY <1>5
    DEF css_logger_log_inner, after_write_logger_cb, after_roll_logger_cb, bufferVars, vars
  <2>2. QED  BY <1>1, <2>1
<1>6. QED  BY <1>2, <1>3, <1>4, <1>5 DEF Next

LEMMA LoggerKept == Spec => [](LoggerInv /\ MissedInv)
<1>1. Init => MissedInv  BY DEF Init, MissedInv, Short
<1>2. QED  BY <1>1, LoggerInit, LoggerStep, MissedStep, PTL DEF Spec

\* Every variable of the logger keeps its type, for any number of threads, lines
\* and files and any sizes: the offset stays inside the buffer and the index of
\* the next buffer among the three (css_logger_log_inner, css_logger_dump_to_file).
THEOREM LoggerTypes == Spec => []TypeOK
<1>1. LoggerInv /\ MissedInv => TypeOK  BY TypesSplit DEF LoggerInv, MissedInv
<1>2. QED  BY <1>1, LoggerKept, PTL

-----------------------------------------------------------------------------
(* The text in the buffers.                                                *)

\* The lines ls end before n.
Within(ls, n) == \A a \in ls : a.at + a.line.length <= n

\* The lines of ls that the character p is in.
LinesOver(ls, p) == {a \in ls : a.at <= p /\ p < a.at + a.line.length}

\* Each of the first n characters is in one of the lines ls and no other.
Covered(ls, n) == \A p \in 0 .. n - 1 : \E x : LinesOver(ls, p) = {x}

\* The lines ls stand in buffer b of the memory m.
AllStand(m, ls, b) == \A a \in ls : StandsIn(m, a, b)

\* A write that is one rotation old has the text of the buffer before the current
\* one; two rotations old, that of the buffer to come, as long as there is a file.
InFlight(w) ==
    /\ Within(w.lines, BufSize)
    /\ \/ /\ rotations - w.turn = 1 /\ After(w.base) = buffer
          /\ AllStand(mem, w.lines, w.base)
       \/ /\ rotations - w.turn = 2 /\ After(After(w.base)) = buffer
          /\ writer # 0 => AllStand(mem, w.lines, w.base)
       \/ rotations - w.turn > 2

HeldText ==
    /\ Covered(held, offset) /\ Within(held, offset)
    /\ AllStand(mem, held, buffer)

\* Before css_logger_start nothing is logged; then the index is the next buffer.
Turning ==
    /\ bindex = 0 => offset = 0 /\ held = {} /\ \A t \in Threads \cup {Flusher} : pc[t] = "idle"
    /\ bindex # 0 => bindex = buffer + 1

TextInv == Turning /\ HeldText /\ \A w \in writes : InFlight(w)

LEMMA WithinMore ==
    ASSUME NEW ls \in SUBSET LinesAt, NEW n \in Nat, NEW k \in Nat, n <= k, Within(ls, n)
    PROVE  Within(ls, k)
<1>1. \A a \in ls : a.at \in Nat /\ a.line \in LinesTaken  BY DEF LinesAt
<1>2. \A a \in ls : a.line.length \in Nat  BY <1>1, LoggerAssumption DEF LinesTaken
<1>3. QED  BY <1>1, <1>2 DEF Within

\* The lines ls, when their buffer is kept.
LEMMA LinesKept ==
    ASSUME NEW m, NEW e, NEW b \in {0, 1, 2}, NEW n \in Nat, Keeps(m, e, b, n),
           NEW ls \in SUBSET LinesAt, Within(ls, n), AllStand(m, ls, b)
    PROVE  AllStand(e, ls, b)
BY LineKept DEF Within, AllStand

\* The buffers do not turn, and what is written reaches the buffer to come only
\* when there is no file any more.
LEMMA FlightStays ==
    ASSUME LoggerInv, TextInv, buffer' = buffer, rotations' = rotations,
           writes' \subseteq writes, writer' # 0 => writer # 0,
           Keeps(mem, mem', After(After(buffer)), BufSize),
           writer' # 0 => Keeps(mem, mem', After(buffer), BufSize)
    PROVE  \A w \in writes' : InFlight(w)'
<1> SUFFICES ASSUME NEW w \in writes' PROVE InFlight(w)'  OBVIOUS
<1>1. w.base \in {0, 1, 2} /\ w.lines \in SUBSET LinesAt /\ BufSize \in Nat
  BY Places, LoggerAssumption DEF LoggerInv, BufferTypes, Requests
<1>2. InFlight(w) /\ Within(w.lines, BufSize)  BY DEF TextInv, InFlight
<1>3. CASE rotations - w.turn = 1 /\ After(w.base) = buffer /\ AllStand(mem, w.lines, w.base)
  <2>1. w.base = After(After(buffer))  BY <1>1, <1>3, Places
  <2>2. Keeps(mem, mem', w.base, BufSize)  BY <2>1
  <2>3. AllStand(mem', w.lines, w.base)  BY <1>1, <1>2, <1>3, <2>2, LinesKept
  <2>4. QED  BY <1>2, <1>3, <2>3 DEF InFlight
<1>4. CASE /\ rotations - w.turn = 2 /\ After(After(w.base)) = buffer
           /\ writer # 0 => AllStand(mem, w.lines, w.base)
  <2>1. w.base = After(buffer)  BY <1>1, <1>4, Places
  <2>2. writer' # 0 => AllStand(mem', w.lines, w.base)
    <3> SUFFICES ASSUME writer' # 0 PROVE AllStand(mem', w.lines, w.base)  OBVIOUS
    <3>1. Keeps(mem, mem', w.base, BufSize)  BY <2>1
    <3>2. AllStand(mem, w.lines, w.base)  BY <1>4
    <3>3. QED  BY <1>1, <1>2, <3>1, <3>2, LinesKept
  <2>3. QED  BY <1>2, <1>4, <2>2 DEF InFlight
<1>5. CASE rotations - w.turn > 2  BY <1>2, <1>5 DEF InFlight
<1>6. QED  BY <1>2, <1>3, <1>4, <1>5 DEF InFlight

\* The buffers turn: the text of the one before the current one is kept, and the
\* write of the current one has its own.
LEMMA FlightTurns ==
    ASSUME LoggerInv, TextInv, buffer' = After(buffer), rotations' = rotations + 1,
           Keeps(mem, mem', After(After(buffer)), BufSize),
           NEW ls, Within(ls, BufSize), AllStand(mem', ls, buffer),
           \A w \in writes' : w \in writes \/ (w.base = buffer /\ w.turn = rotations /\ w.lines = ls)
    PROVE  \A w \in writes' : InFlight(w)'
<1> SUFFICES ASSUME NEW w \in writes' PROVE InFlight(w)'  OBVIOUS
<1>0. buffer \in {0, 1, 2} /\ rotations \in Nat /\ BufSize \in Nat
  BY Places, LoggerAssumption DEF LoggerInv, BufferTypes
<1>1. CASE w \in writes
  <2>1. w.base \in {0, 1, 2} /\ w.lines \in SUBSET LinesAt /\ w.turn \in Nat
    BY <1>1, Places DEF LoggerInv, BufferTypes, Requests
  <2>2. InFlight(w) /\ Within(w.lines, BufSize)  BY <1>1 DEF TextInv, InFlight
  <2>3. CASE /\ rotations - w.turn = 1 /\ After(w.base) = buffer
             /\ AllStand(mem, w.lines, w.base)
    <3>1. w.base = After(After(buffer)) /\ After(After(w.base)) = buffer'
      BY <2>1, <2>3, Places
    <3>2. Keeps(mem, mem', w.base, BufSize)  BY <3>1
    <3>3. AllStand(mem', w.lines, w.base)
      BY <1>0, <2>1, <2>2, <2>3, <3>2, LinesKept
    <3>4. rotations' - w.turn = 2  BY <1>0, <2>1, <2>3
    <3>5. QED  BY <2>2, <3>1, <3>3, <3>4 DEF InFlight
  <2>4. CASE rotations - w.turn \in {2} \/ rotations - w.turn > 2
    <3>1. rotations' - w.turn > 2  BY <1>0, <2>1, <2>4
    <3>2. QED  BY <2>2, <3>1 DEF InFlight
  <2>5. QED  BY <2>2, <2>3, <2>4 DEF InFlight
<1>2. CASE w.base = buffer /\ w.turn = rotations /\ w.lines = ls
  <2>1. rotations' - w.turn = 1  BY <1>0, <1>2
  <2>2. QED  BY <1>2, <2>1 DEF InFlight
<1>3. QED  BY <1>1, <1>2

LEMMA NextIsAfter ==
    ASSUME LoggerInv, Turning, bindex # 0
    PROVE  buffer \in {0, 1, 2} /\ NextBuffer = After(buffer)
<1>1. buffer \in {0, 1, 2} /\ bindex = buffer + 1
  BY Places DEF LoggerInv, BufferTypes, Turning
<1>2. QED  BY <1>1 DEF NextBuffer, After, Buffers

\* Only the next buffer loses its first character.
LEMMA ClearedKeeps ==
    ASSUME LoggerInv, Turning, bindex # 0, NEW m \in Memory
    PROVE  /\ Keeps(m, Cleared(m), buffer, BufSize)
           /\ Keeps(m, Cleared(m), After(After(buffer)), BufSize)
<1>1. buffer \in {0, 1, 2} /\ NextBuffer = After(buffer)  BY NextIsAfter
<1>2. \A i : i # Start(After(buffer)) => Cleared(m)[i] = m[i]
  BY <1>1 DEF Cleared, Memory
<1>3. ASSUME NEW b \in {0, 1, 2}, b # After(buffer)
      PROVE  Keeps(m, Cleared(m), b, BufSize)
  <2> SUFFICES ASSUME NEW i \in 0 .. BufSize - 1
      PROVE  Cleared(m)[Start(b) + i] = m[Start(b) + i]
    BY DEF Keeps
  <2>1. Start(b) + i # Start(After(buffer))
    BY <1>1, <1>3, Places, LoggerAssumption
  <2>2. QED  BY <1>2, <2>1
<1>4. /\ buffer # After(buffer) /\ After(After(buffer)) # After(buffer)
      /\ After(After(buffer)) \in {0, 1, 2}
  BY <1>1, Places
<1>5. QED  BY <1>1, <1>3, <1>4

\* A dump of the lines ls.
LEMMA DumpText ==
    ASSUME LoggerInv, TextInv, bindex # 0, NEW n, NEW should_close \in BOOLEAN, NEW ls,
           Dump(n, should_close, ls), Within(ls, BufSize), AllStand(mem', ls, buffer),
           Keeps(mem, mem', After(After(buffer)), BufSize)
    PROVE  TextInv'
<1>1. buffer \in {0, 1, 2} /\ NextBuffer = After(buffer)  BY NextIsAfter DEF TextInv
<1>2. buffer' = After(buffer) /\ bindex' = buffer' + 1 /\ rotations' = rotations + 1
  BY <1>1 DEF Dump
<1>3. offset' = 0 /\ held' = {}  BY DEF Dump
<1>4. \A w \in writes' :
        w \in writes \/ (w.base = buffer /\ w.turn = rotations /\ w.lines = ls)
  BY DEF Dump
<1>5. \A w \in writes' : InFlight(w)'  BY <1>2, <1>4, FlightTurns
<1>6. bindex' # 0  BY <1>1, <1>2, Places
<1>7. HeldText'  BY <1>3 DEF HeldText, Covered, Within, AllStand
<1>8. QED  BY <1>2, <1>5, <1>6, <1>7 DEF TextInv, Turning

\* The lines of the current buffer and one more at its end.
LEMMA LinesFollow ==
    ASSUME LoggerInv, HeldText, NEW l \in LinesTaken, l.length < BufSize - offset
    PROVE  LET m == Put(mem, Start(buffer) + offset, Text(l))
               ls == held \cup {[line |-> l, at |-> offset]}
           IN  /\ ls \in SUBSET LinesAt
               /\ Covered(ls, offset + l.length) /\ Within(ls, offset + l.length)
               /\ AllStand(m, ls, buffer)
               /\ m \in Memory
               /\ Keeps(mem, m, After(buffer), BufSize)
               /\ Keeps(mem, m, After(After(buffer)), BufSize)
<1> DEFINE m == Put(mem, Start(buffer) + offset, Text(l))
           a == [line |-> l, at |-> offset]
           ls == held \cup {a}
<1>1. /\ mem \in Memory /\ held \in SUBSET LinesAt
      /\ offset \in Nat /\ offset \in 0 .. BufSize - 1 /\ offset \in 0 .. BufSize
      /\ buffer \in {0, 1, 2} /\ BufSize \in Nat
  BY Places, LoggerAssumption DEF LoggerInv, BufferTypes
<1>2. l.length \in Nat \ {0}  BY LoggerAssumption DEF LinesTaken
<1>3. /\ DOMAIN Text(l) = 1 .. l.length + 1
      /\ \A i \in 1 .. l.length + 1 : Text(l)[i] \in Chars
      /\ \A i \in 1 .. l.length : Text(l)[i] = <<l.number, i>>
  <2>1. l.length < BufSize  BY <1>1, <1>2
  <2>2. QED  BY <2>1, FittingText, LineText
<1>4. l.length + 1 \in 0 .. BufSize /\ offset + (l.length + 1) <= BufSize  BY <1>1, <1>2
<1>5. /\ m \in Memory /\ Keeps(mem, m, buffer, offset)
      /\ Keeps(mem, m, After(buffer), BufSize)
      /\ Keeps(mem, m, After(After(buffer)), BufSize)
  BY <1>1, <1>3, <1>4, PutKeeps
<1>6. a \in LinesAt /\ a.line = l /\ a.at = offset  BY <1>1 DEF LinesAt
<1>7. StandsIn(m, a, buffer)
  <2> SUFFICES ASSUME NEW i \in 1 .. l.length
      PROVE  m[Start(buffer) + offset + i - 1] = <<l.number, i>>
    BY <1>6 DEF StandsIn
  <2> DEFINE p == Start(buffer) + offset
             q == Start(buffer) + offset + i - 1
  <2>1. /\ p \in Nat /\ q \in 0 .. BufSize + BufSize + BufSize - 1
        /\ p <= q /\ q < p + (l.length + 1) /\ q - p + 1 = i /\ l.length + 1 \in Nat
    <3> DEFINE s == Start(buffer)
    <3>1. s = 0 \/ s = BufSize \/ s = BufSize + BufSize  BY <1>1, Places
    <3> HIDE DEF s
    <3>2. i \in Nat /\ 1 <= i /\ i <= l.length  BY <1>2
    <3>3. s + offset + i - 1 <= BufSize + BufSize + BufSize - 1 /\ s \in Nat
      BY <1>1, <1>2, <3>1, <3>2
    <3>4. QED  BY <1>1, <1>2, <3>2, <3>3 DEF s
  <2>2. q \in 0 .. Buffers * BufSize - 1  BY <2>1, Places
  <2> HIDE DEF p, q
  <2>3. Put(mem, p, Text(l))[q] = Text(l)[q - p + 1]
    BY <1>1, <1>3, <2>1, <2>2, PutText
  <2>4. Text(l)[q - p + 1] = <<l.number, i>>  BY <1>3, <2>1
  <2>5. QED  BY <2>3, <2>4 DEF p, q
<1> HIDE DEF m, ls
<1>8. AllStand(m, held, buffer)
  BY <1>1, <1>5, LinesKept DEF HeldText
<1>9. Within(ls, offset + l.length)
  <2> USE DEF ls
  <2> SUFFICES ASSUME NEW h \in ls PROVE h.at + h.line.length <= offset + l.length
    BY DEF Within
  <2>1. CASE h = a  BY <1>1, <1>2, <1>6, <2>1
  <2>2. CASE h \in held
    <3>1. h.at \in Nat /\ h.line \in LinesTaken  BY <1>1, <2>2 DEF LinesAt
    <3>2. h.line.length \in Nat  BY <3>1, LoggerAssumption DEF LinesTaken
    <3>3. h.at + h.line.length <= offset  BY <2>2 DEF HeldText, Within
    <3>4. QED  BY <1>1, <1>2, <3>1, <3>2, <3>3
  <2>3. QED  BY <2>1, <2>2
<1>10. Covered(ls, offset + l.length)
  <2> SUFFICES ASSUME NEW p \in 0 .. (offset + l.length) - 1
      PROVE  \E x : LinesOver(ls, p) = {x}
    BY DEF Covered
  <2> USE DEF ls
  <2>1. CASE p < offset
    <3>1. p \in 0 .. offset - 1  BY <1>1, <1>2, <2>1
    <3>2. \E x : LinesOver(held, p) = {x}  BY <3>1 DEF HeldText, Covered
    <3>3. ~(a.at <= p)  BY <1>1, <1>2, <1>6, <2>1
    <3>4. LinesOver(ls, p) = LinesOver(held, p)  BY <3>3 DEF LinesOver
    <3>5. QED  BY <3>2, <3>4
  <2>2. CASE p >= offset
    <3>1. a.at <= p /\ p < a.at + a.line.length  BY <1>1, <1>2, <1>6, <2>2
    <3>2. \A h \in held : ~(p < h.at + h.line.length)
      <4> SUFFICES ASSUME NEW h \in held PROVE ~(p < h.at + h.line.length)  OBVIOUS
      <4>1. h.at \in Nat /\ h.line \in LinesTaken  BY <1>1 DEF LinesAt
      <4>2. h.line.length \in Nat  BY <4>1, LoggerAssumption DEF LinesTaken
      <4>3. h.at + h.line.length <= offset  BY DEF HeldText, Within
      <4>4. QED  BY <1>1, <1>2, <2>2, <4>1, <4>2, <4>3
    <3> HIDE DEF a
    <3>3. LinesOver(ls, p) = {a}  BY <3>1, <3>2 DEF LinesOver
    <3>4. QED  BY <3>3
  <2>3. p < offset \/ p >= offset  BY <1>1, <1>2
  <2>4. QED  BY <2>1, <2>2, <2>3
<1>11. ls \in SUBSET LinesAt  BY <1>1, <1>6 DEF ls
<1>12. AllStand(m, ls, buffer)  BY <1>7, <1>8 DEF AllStand, ls
<1>13. QED  BY <1>5, <1>9, <1>10, <1>11, <1>12 DEF m, ls

\* The lines in the buffer are dropped.
LEMMA DropKeepsText ==
    ASSUME LoggerInv, TextInv, bindex # 0, offset' = 0, held' = {},
           UNCHANGED <<buffer, bindex, writes, rotations, writer>>,
           Keeps(mem, mem', After(After(buffer)), BufSize),
           writer # 0 => Keeps(mem, mem', After(buffer), BufSize)
    PROVE  TextInv'
<1>1. \A w \in writes' : InFlight(w)'  BY FlightStays
<1>2. HeldText'  BY DEF HeldText, Covered, Within, AllStand
<1>3. QED  BY <1>1, <1>2 DEF TextInv, Turning

\* css_logger_log_inner under the mutex, for a line that fits.
LEMMA FittingKeepsText ==
    ASSUME LoggerInv, TextInv, bindex # 0, NEW l \in LinesTaken, LogFitting(l)
    PROVE  TextInv'
<1> DEFINE size == offset + l.length
           lines == held \cup {[line |-> l, at |-> offset]}
           m == Put(mem, Start(buffer) + offset, Text(l))
<1>1. /\ lines \in SUBSET LinesAt /\ Covered(lines, size) /\ Within(lines, size)
      /\ AllStand(m, lines, buffer) /\ m \in Memory
      /\ Keeps(mem, m, After(buffer), BufSize)
      /\ Keeps(mem, m, After(After(buffer)), BufSize)
  <2>1. l.length < BufSize - offset  BY DEF LogFitting
  <2>2. QED  BY <2>1, LinesFollow DEF TextInv
<1>2. buffer \in {0, 1, 2}  BY Places DEF LoggerInv, BufferTypes
<1> HIDE DEF size, lines, m
<1>3. CASE /\ mem' = m /\ offset' = size /\ held' = lines
           /\ UNCHANGED <<fileVars, buffer, bindex, writes, rotations>>
  <2>1. writer' = writer  BY <1>3 DEF fileVars
  <2>2. \A w \in writes' : InFlight(w)'  BY <1>1, <1>3, <2>1, FlightStays
  <2>3. HeldText'  BY <1>1, <1>3 DEF HeldText
  <2>4. QED  BY <1>3, <2>2, <2>3 DEF TextInv, Turning
<1>4. CASE mem' = Cleared(m) /\ Dump(size, FALSE, lines)
  <2>1. /\ Keeps(m, mem', buffer, BufSize)
        /\ Keeps(m, mem', After(After(buffer)), BufSize)
    BY <1>1, <1>4, ClearedKeeps DEF TextInv
  <2>2. BufSize \in Nat  BY LoggerAssumption
  <2>3. Within(lines, BufSize)
    <3>1. size <= BufSize /\ size \in Nat
      <4>1. l.length \in Nat  BY LoggerAssumption DEF LinesTaken
      <4>2. offset \in Nat /\ l.length < BufSize - offset
        BY DEF LoggerInv, BufferTypes, LogFitting
      <4>3. QED  BY <2>2, <4>1, <4>2 DEF size
    <3>2. QED  BY <1>1, <2>2, <3>1, WithinMore
  <2>4. AllStand(mem', lines, buffer)  BY <1>1, <1>2, <2>1, <2>2, <2>3, LinesKept
  <2>5. Keeps(mem, mem', After(After(buffer)), BufSize)  BY <1>1, <2>1, <2>2, KeepsBoth
  <2>6. QED  BY <1>4, <2>3, <2>4, <2>5, DumpText
<1>5. CASE mem' = m /\ DropText
  BY <1>1, <1>5, DropKeepsText DEF DropText, fileVars
<1>6. QED  BY <1>3, <1>4, <1>5 DEF LogFitting, m, lines, size

\* What is tried at the end of the buffer, cut off to a length.
LEMMA CutKeeps ==
    ASSUME LoggerInv, NEW l \in LinesTaken, NEW d \in Memory, NEW room \in 1 .. BufSize
    PROVE  LET e == Put(d, Start(buffer) + offset, Cut(l, room))
           IN  /\ e \in Memory
               /\ Keeps(d, e, buffer, offset)
               /\ Keeps(d, e, After(After(buffer)), BufSize)
               /\ offset + room <= BufSize => Keeps(d, e, After(buffer), BufSize)
<1>1. PICK n \in 1 .. room :
        /\ DOMAIN Cut(l, room) = 1 .. n
        /\ \A i \in 1 .. n : Cut(l, room)[i] \in Chars
  BY CutText
<1>2. buffer \in {0, 1, 2} /\ offset \in 0 .. BufSize - 1
  BY Places DEF LoggerInv, BufferTypes
<1>3. n \in 0 .. BufSize /\ (offset + room <= BufSize => offset + n <= BufSize)
  BY <1>2, LoggerAssumption
<1>4. QED  BY <1>1, <1>2, <1>3, PutKeeps

\* css_logger_log_inner under the mutex, for a line that does not fit.
LEMMA RetriedKeepsText ==
    ASSUME LoggerInv, TextInv, bindex # 0, NEW l \in LinesTaken, LogRetried(l)
    PROVE  TextInv'
<1> DEFINE p == Start(buffer) + offset
           m == Put(mem, p, Cut(l, BufSize - offset))
<1>1. /\ BufSize \in Nat \ {0} /\ offset \in Nat /\ offset < BufSize
      /\ BufSize - offset \in 1 .. BufSize /\ BufSize \in 1 .. BufSize
      /\ offset + (BufSize - offset) <= BufSize
      /\ buffer \in {0, 1, 2} /\ mem \in Memory /\ held \in SUBSET LinesAt
  BY LoggerAssumption, Places DEF LoggerInv, BufferTypes
<1>2. /\ m \in Memory
      /\ Keeps(mem, m, buffer, offset)
      /\ Keeps(mem, m, After(After(buffer)), BufSize)
      /\ Keeps(mem, m, After(buffer), BufSize)
  BY <1>1, CutKeeps
<1> HIDE DEF m
<1>3. CASE (offset = 0 \/ writer = 0) /\ mem' = Put(m, p, Cut(l, BufSize)) /\ DropText
  <2>1. /\ Keeps(m, mem', After(After(buffer)), BufSize)
        /\ offset + BufSize <= BufSize => Keeps(m, mem', After(buffer), BufSize)
    BY <1>1, <1>2, <1>3, CutKeeps
  <2>2. Keeps(mem, mem', After(After(buffer)), BufSize)  BY <1>1, <1>2, <2>1, KeepsBoth
  <2>3. writer # 0 => Keeps(mem, mem', After(buffer), BufSize)
    <3> SUFFICES ASSUME writer # 0 PROVE Keeps(mem, mem', After(buffer), BufSize)  OBVIOUS
    <3>1. offset + BufSize <= BufSize  BY <1>1, <1>3
    <3>2. QED  BY <1>1, <1>2, <2>1, <3>1, KeepsBoth
  <2>4. QED  BY <1>3, <2>2, <2>3, DropKeepsText DEF DropText, fileVars
<1>4. CASE mem' = Put(Cleared(m), p, Cut(l, BufSize)) /\ Dump(offset, FALSE, held)
  <2>1. /\ Cleared(m) \in Memory
        /\ Keeps(m, Cleared(m), buffer, BufSize)
        /\ Keeps(m, Cleared(m), After(After(buffer)), BufSize)
    BY <1>2, ClearedTypes, ClearedKeeps DEF TextInv
  <2>2. /\ Keeps(Cleared(m), mem', buffer, offset)
        /\ Keeps(Cleared(m), mem', After(After(buffer)), BufSize)
    BY <1>1, <1>4, <2>1, CutKeeps
  <2>3. Keeps(mem, mem', After(After(buffer)), BufSize)
    <3>1. Keeps(mem, Cleared(m), After(After(buffer)), BufSize)
      BY <1>1, <1>2, <2>1, KeepsBoth
    <3>2. QED  BY <1>1, <2>2, <3>1, KeepsBoth
  <2>4. Keeps(mem, mem', buffer, offset)
    <3>1. Keeps(mem, Cleared(m), buffer, offset)  BY <1>1, <1>2, <2>1, KeepsBoth
    <3>2. QED  BY <1>1, <2>2, <3>1, KeepsBoth
  <2>5. Within(held, offset) /\ AllStand(mem, held, buffer)  BY DEF TextInv, HeldText
  <2>6. AllStand(mem', held, buffer)  BY <1>1, <2>4, <2>5, LinesKept
  <2>7. Within(held, BufSize)  BY <1>1, <2>5, WithinMore
  <2>8. QED  BY <1>4, <2>3, <2>6, <2>7, DumpText
<1>5. QED  BY <1>3, <1>4 DEF LogRetried, m

\* css_logger_dump_to_file under the mutex.
LEMMA DumpLockedKeepsText ==
    ASSUME LoggerInv, TextInv, NEW t \in Threads \cup {Flusher}, DumpNext(t)
    PROVE  TextInv'
<1>1. bindex # 0
  BY DEF DumpNext, css_logger_dump_locked, At, TextInv, Turning
<1>2. /\ buffer \in {0, 1, 2} /\ mem \in Memory /\ held \in SUBSET LinesAt
      /\ offset \in Nat /\ BufSize \in Nat /\ offset <= BufSize
  BY Places, LoggerAssumption DEF LoggerInv, BufferTypes
<1>3. CASE UNCHANGED <<writer, bufferVars>>
  <2>1. UNCHANGED <<mem, buffer, bindex, offset, writes, held, rotations>>
    BY <1>3 DEF bufferVars
  <2>2. \A w \in writes' : InFlight(w)'  BY <1>3, <2>1, FlightStays DEF Keeps
  <2>3. HeldText'  BY <2>1 DEF TextInv, HeldText
  <2>4. QED  BY <1>1, <2>1, <2>2, <2>3 DEF TextInv, Turning
<1>4. CASE mem' = Cleared(mem) /\ Dump(len[t], t = Flusher, held)
  <2>1. /\ Keeps(mem, mem', buffer, BufSize)
        /\ Keeps(mem, mem', After(After(buffer)), BufSize)
    BY <1>1, <1>2, <1>4, ClearedKeeps DEF TextInv
  <2>2. Within(held, BufSize)  BY <1>2, WithinMore DEF TextInv, HeldText
  <2>3. AllStand(mem, held, buffer)  BY DEF TextInv, HeldText
  <2>4. AllStand(mem', held, buffer)  BY <1>2, <2>1, <2>2, <2>3, LinesKept
  <2>5. (t = Flusher) \in BOOLEAN  OBVIOUS
  <2>6. QED  BY <1>1, <1>4, <2>1, <2>2, <2>4, <2>5, DumpText
<1>5. QED  BY <1>3, <1>4 DEF DumpNext, css_logger_dump_locked, fileVars

\* Every step keeps the lines where they stand.
LEMMA TextStep ==
    ASSUME LoggerInv, TextInv, [Next]_vars
    PROVE  TextInv'
<1>1. CASE css_logger_start
  <2>1. /\ offset = 0 /\ held = {} /\ writes = {}
        /\ UNCHANGED <<offset, held, writes>> /\ buffer' = 0 /\ bindex' = 1
    BY <1>1 DEF css_logger_start, TextInv, Turning, LoggerInv, WriterInv, Phases
  <2>2. HeldText'  BY <2>1 DEF HeldText, Covered, Within, AllStand
  <2>3. QED  BY <2>1, <2>2 DEF TextInv, Turning
<1>2. ASSUME NEW t \in Threads, css_logger_log_locked(t) PROVE TextInv'
  <2>1. line[t] \in LinesTaken
    BY <1>2 DEF css_logger_log_locked, At, LoggerInv, LineInHand
  <2>2. bindex # 0  BY <1>2 DEF css_logger_log_locked, At, TextInv, Turning
  <2>3. LogFitting(line[t]) \/ LogRetried(line[t])  BY <1>2 DEF css_logger_log_locked
  <2>4. QED  BY <2>1, <2>2, <2>3, FittingKeepsText, RetriedKeepsText
<1>3. CASE \/ css_logger_dump_to_file_cb \/ css_logger_flush_to_file
           \/ css_logger_close_file
  <2>1. /\ UNCHANGED <<writer, mem, buffer, bindex, writes, rotations>>
        /\ UNCHANGED <<offset, held>> \/ (offset' = 0 /\ held' = {})
    BY <1>3
    DEF css_logger_dump_to_file_cb, css_logger_flush_to_file, css_logger_dump_to_file,
        css_logger_close_file, fileVars
  <2>2. bindex # 0
    BY <1>3
    DEF css_logger_dump_to_file_cb, css_logger_flush_to_file, css_logger_close_file,
        LoggerInv, WriterInv, Phases
  <2>3. \A w \in writes' : InFlight(w)'  BY <2>1, FlightStays DEF Keeps
  <2>4. HeldText'
    <3>1. CASE UNCHANGED <<offset, held>>  BY <2>1, <3>1 DEF TextInv, HeldText
    <3>2. CASE offset' = 0 /\ held' = {}
      BY <3>2 DEF HeldText, Covered, Within, AllStand
    <3>3. QED  BY <2>1, <3>1, <3>2
  <2>5. QED  BY <2>1, <2>2, <2>3, <2>4 DEF TextInv, Turning
<1>4. CASE \/ css_logger_close \/ \E t \in Threads : css_logger_log_inner(t)
           \/ \E w \in DOMAIN wstate : after_roll_logger_cb(w)
           \/ \E w \in writes : after_write_logger_cb(w)
           \/ UNCHANGED vars
  <2>1. /\ UNCHANGED <<writer, mem, buffer, bindex, offset, held, rotations>>
        /\ writes' \subseteq writes
    BY <1>4
    DEF css_logger_close, css_logger_log_inner, after_roll_logger_cb,
        after_write_logger_cb, vars, fileVars, bufferVars
  <2>2. bindex = 0 => UNCHANGED pc
    <3>1. bindex = 0 => ~\E t \in Threads : css_logger_log_inner(t)
      BY DEF css_logger_log_inner, LoggerInv, WriterInv, Phases
    <3>2. QED
      BY <1>4, <3>1
      DEF css_logger_close, after_roll_logger_cb, after_write_logger_cb, vars, threadVars
  <2>3. \A w \in writes' : InFlight(w)'  BY <2>1, FlightStays DEF Keeps
  <2>4. HeldText'  BY <2>1 DEF TextInv, HeldText
  <2>5. QED  BY <2>1, <2>2, <2>3, <2>4 DEF TextInv, Turning
<1>5. QED  BY <1>1, <1>2, <1>3, <1>4, DumpLockedKeepsText DEF Next

\* The lines stand where they were logged, in the current buffer and in those that
\* are written (css_logger_log_inner, css_logger_dump_to_file).
THEOREM TextKept == Spec => [](LoggerInv /\ TextInv)
<1>1. Init => TextInv
  BY DEF Init, TextInv, Turning, HeldText, Covered, Within, AllStand
<1>2. QED  BY <1>1, LoggerInit, LoggerStep, TextStep, PTL DEF Spec

\* Whatever other threads log and dump, the text that the offset counts is whole: each
\* of its characters belongs to one line logged since the buffer was emptied, and of
\* those lines at most one that an empty buffer would hold is not in it, the one that
\* was tried again behind the end of it, for any number of threads and any sizes
\* (css_logger_log_inner under the mutex).
THEOREM BufferKeepsLines == Spec => []BufferHoldsLines
<1>1. TextInv /\ MissedInv => BufferHoldsLines
  <2> SUFFICES ASSUME TextInv, MissedInv PROVE BufferHoldsLines  OBVIOUS
  <2>1. Tiled(held, offset)
    <3> SUFFICES ASSUME NEW p \in 0 .. offset - 1
        PROVE  Cardinality(LinesOver(held, p)) = 1
      BY DEF Tiled, LinesOver
    <3>1. \E x : LinesOver(held, p) = {x}  BY DEF TextInv, HeldText, Covered
    <3>2. QED  BY <3>1, FS_Singleton
  <2>2. \A a \in held : a.at + a.line.length <= offset /\ Stands(a, buffer)
    BY DEF TextInv, HeldText, Within, AllStand, Stands, StandsIn
  <2>3. Cardinality(Short(missed)) <= 1
    <3>1. CASE Short(missed) = {}  BY <3>1, FS_EmptySet
    <3>2. CASE Short(missed) # {}
      <4>1. PICK l : Short(missed) = {l}  BY <3>2 DEF MissedInv
      <4>2. Cardinality(Short(missed)) = 1  BY <4>1, FS_Singleton
      <4>3. QED  BY <4>2
    <3>3. QED  BY <3>1, <3>2
  <2>4. QED  BY <2>1, <2>2, <2>3 DEF BufferHoldsLines
<1>2. QED  BY <1>1, TextKept, LoggerKept, PTL

\* A buffer in flight keeps its text until the three buffers have gone round, and one
\* rotation less once the file has been lost, for any number of threads and any sizes
\* (css_logger_dump_to_file and the retry of css_logger_log_inner).
THEOREM FlightUntouched == Spec => []InFlightUntouched
<1>1. LoggerInv /\ TextInv => InFlightUntouched
  <2> SUFFICES ASSUME LoggerInv, TextInv, NEW w \in writes,
                      rotations - w.turn < (IF writer = 0 THEN Buffers - 1 ELSE Buffers),
                      NEW a \in w.lines
      PROVE  Stands(a, w.base)
    BY DEF InFlightUntouched
  <2>1. rotations \in Nat /\ w.turn \in Nat
    BY DEF LoggerInv, BufferTypes, Requests
  <2>2. AllStand(mem, w.lines, w.base)  BY <2>1 DEF TextInv, InFlight, Buffers
  <2>3. QED  BY <2>2 DEF AllStand, Stands, StandsIn
<1>2. QED  BY <1>1, TextKept, PTL
=============================================================================
