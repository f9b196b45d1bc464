-------------------------------- MODULE Logger --------------------------------
(***************************************************************************)
(* The logger, src/src/common/css_logger.c.  Threads format their lines    *)
(* into the current one of three buffers under a mutex.  A buffer is       *)
(* dumped by the thread that fills it, by a timer of the loop, and by a    *)
(* worker when the logger closes: the next buffer becomes the current one  *)
(* and the dumped one is written to the file asynchronously, by libuv's    *)
(* thread pool, while the buffers go on rotating.                          *)
(*                                                                         *)
(* A critical section is one action; what the code reads before it takes   *)
(* the mutex (status, writer, and the length to dump) is a step of its     *)
(* own.  What such a read could see in the middle of a critical section of *)
(* another thread (no writer, while the file is replaced; a length that is *)
(* about to be cleared) is left out.  A dumped buffer counts as in flight  *)
(* until its callback: the pool may read it at any time before.            *)
(***************************************************************************)
EXTENDS LogFiles, Sequences, FiniteSets

CONSTANTS
    Threads,        \* the threads that log
    Loop,           \* the one of them that runs the loop
    Flusher,        \* the worker of css_logger_flush_to_file
    Lengths,        \* the lengths of formatted lines
    BufSize,        \* DEFAULT_LOG_BUF_SIZE
    MaxFileSize,    \* CSS_LOGGER_MAX_FILE_SIZE
    MaxLines        \* bound: lines that are logged to the file

Buffers == 3        \* MAX_LOGGER_BUFFER_LEN

dump_to_file_size == (BufSize * 80) \div 100

ASSUME LoggerAssumption ==
    /\ Loop \in Threads
    /\ Flusher \notin Threads
    /\ Lengths \subseteq Nat \ {0}
    /\ BufSize \in Nat \ {0}
    /\ MaxFileSize \in Nat
    /\ MaxLines \in Nat

VARIABLES
    status,         \* css_logger.status
    writer,         \* css_logger.writer: which of wstate, 0 for NULL
    writer_offset,  \* css_logger.writer_offset
    timer,          \* css_logger.timer is armed
    wstate,         \* the writers so far: memory and descriptor of each
    files, newest,  \* the log directory, and the age of the last file created
    mem,            \* the characters of the three buffers, one after the other
    buffer,         \* which of the buffers is the current one
    bindex,         \* which comes next
    offset,         \* length of the text in the current buffer
    writes,         \* writes handed to the pool and not called back yet
    pc, line, len,  \* where each thread is, and its local variables
    count,          \* lines taken so far
    work,           \* the work request that css_logger_close queues
    held,           \* history: the lines in the buffer that offset counts
    missed,         \* history: those logged since it was emptied that are not
    rotations       \* history: how often the buffer changed

fileVars   == <<writer, writer_offset, wstate, files, newest>>
bufferVars == <<mem, buffer, bindex, offset, writes, held, missed, rotations>>
threadVars == <<pc, line, len, count>>
vars == <<status, timer, work, fileVars, bufferVars, threadVars>>

Start(b) == b * BufSize
NUL == <<0, 0>>
Text(l) == [i \in 1 .. l.length |-> <<l.number, i>>] \o <<NUL>>

NoLine == [number |-> 0, length |-> 0]
LinesTaken == [number : 1 .. MaxLines, length : Lengths]
LinesAt == [line : LinesTaken, at : 0 .. BufSize]
Requests == [base : 0 .. Buffers - 1, len : Nat, writer : Nat, close : BOOLEAN,
             lines : SUBSET LinesAt, turn : Nat]

TypeOK ==
    /\ status \in {"UNINIT", "INIT"}
    /\ writer \in 0 .. Len(wstate)
    /\ writer_offset \in Nat
    /\ timer \in BOOLEAN
    /\ wstate \in Seq({"open", "unset", "closing", "freed"})
    /\ files \in Directories /\ newest \in Nat
    /\ mem \in [0 .. Buffers * BufSize - 1 ->
                    {NUL} \cup ((1 .. MaxLines) \X (1 .. BufSize))]
    /\ buffer \in 0 .. Buffers - 1
    /\ bindex \in 0 .. Buffers
    /\ offset \in 0 .. BufSize - 1
    /\ writes \in SUBSET Requests
    /\ pc \in [Threads \cup {Flusher} -> {"idle", "log", "dump", "crash"}]
    /\ line \in [Threads -> LinesTaken \cup {NoLine}]
    /\ len \in [Threads \cup {Flusher} -> 0 .. BufSize]
    /\ count \in 0 .. MaxLines
    /\ work \in {"none", "queued", "running", "done"}
    /\ held \in SUBSET LinesAt /\ missed \in SUBSET LinesTaken
    /\ rotations \in Nat

Init ==
    /\ status = "UNINIT" /\ writer = 0 /\ writer_offset = 0 /\ timer = FALSE
    /\ wstate = <<>>
    /\ files \in {d \in [Names -> 0 .. MaxFiles] :
                    \A n \in Names : d[n] \in {Absent, MaxFiles - n}}
    /\ newest = MaxFiles
    /\ mem = [i \in 0 .. Buffers * BufSize - 1 |-> NUL]
    /\ buffer = 0 /\ bindex = 0 /\ offset = 0
    /\ writes = {} /\ held = {} /\ missed = {} /\ rotations = 0
    /\ pc = [t \in Threads \cup {Flusher} |-> "idle"]
    /\ line = [t \in Threads |-> NoLine]
    /\ len = [t \in Threads \cup {Flusher} |-> 0]
    /\ count = 0
    /\ work = "none"

\* The process runs until a thread goes through a NULL pointer.
At(t, label) == pc[t] = label /\ \A u \in DOMAIN pc : pc[u] # "crash"

-----------------------------------------------------------------------------
(* Files.                                                                  *)

\* css_logger_new_file, where ws and w are the writers and css_logger.writer
\* before.  Renaming may fail (then the writer stays as it is), the listing of
\* the directory may fail (then nothing is renamed and 0.log is opened all the
\* same), and the open may fail, which leaves the descriptor unset.
css_logger_new_file(ws, w, success) ==
    \/ /\ ~success
       /\ \E f \in {n \in Names : files[n] # Absent} :
            files' = css_logger_rename_old_logs(files, f)
       /\ writer' = w /\ wstate' = ws
       /\ UNCHANGED newest
    \/ \E d \in {files, css_logger_rename_old_logs(files, -1)} :
        /\ wstate' = Append(ws, IF success THEN "open" ELSE "unset")
        /\ writer' = Len(ws) + 1
        /\ IF success /\ d[0] = Absent
           THEN files' = [d EXCEPT ![0] = newest + 1] /\ newest' = newest + 1
           ELSE files' = d /\ UNCHANGED newest

\* A file that is there is opened to be appended to; which one is not told apart.
css_logger_reopen_file(success) ==
    /\ Ages(files) # {}
    /\ writer' = 1
    /\ \/ /\ wstate' = <<"open">>
          /\ writer_offset' \in IF success THEN {0, MaxFileSize} ELSE {0}
       \/ ~success /\ wstate' = <<"unset">> /\ UNCHANGED writer_offset
    /\ UNCHANGED <<files, newest>>

open_logger_file(success) ==
    \/ ~success /\ UNCHANGED fileVars      \* the directory cannot be listed
    \/ css_logger_new_file(wstate, 0, success) /\ UNCHANGED writer_offset
    \/ css_logger_reopen_file(success)

\* A bug to tell apart: the timer is not started.
css_logger_start_Untimed(success) ==
    /\ status' = IF success THEN "INIT" ELSE "UNINIT"
    /\ UNCHANGED timer

css_logger_start_Timed(success) ==
    /\ status' = IF success THEN "INIT" ELSE "UNINIT"
    /\ timer' = success

\* css_logger_start, which main calls once.
css_logger_start ==
    /\ At(Loop, "idle") /\ status = "UNINIT"
    /\ bindex = 0
    /\ \E success \in BOOLEAN :
        open_logger_file(success) /\ css_logger_start_Timed(success)
    /\ buffer' = bindex /\ bindex' = bindex + 1
    /\ UNCHANGED <<work, mem, offset, writes, held, missed, rotations, threadVars>>

-----------------------------------------------------------------------------
(* Buffers.                                                                *)

\* vsnprintf of the characters s at the place p, what is beyond the three
\* buffers being left out.
Put(m, p, s) ==
    [i \in DOMAIN m |-> IF i - p + 1 \in DOMAIN s THEN s[i - p + 1] ELSE m[i]]

\* Two buffers in turn: a bug to tell apart.
NextBuffer_Two == IF bindex > Buffers - 2 THEN 0 ELSE bindex

\* A bug to tell apart: the index goes one too far.
NextBuffer_Past == IF bindex > Buffers THEN 0 ELSE bindex

NextBuffer == IF bindex > Buffers - 1 THEN 0 ELSE bindex

\* A writer goes: the descriptor is closed, then its callback frees the memory.
Closing(ws, w) == [ws EXCEPT ![w] = "closing"]

\* A bug to tell apart: the writer that closes is kept.
LeaveWriter_Keep(ws, roll) ==
    /\ writer_offset' = 0
    /\ IF roll THEN \E success \in BOOLEAN : css_logger_new_file(ws, writer, success)
               ELSE writer' = 0 /\ wstate' = ws /\ UNCHANGED <<files, newest>>

\* The writer is forgotten, and replaced when the file is full.
LeaveWriter(ws, roll) ==
    /\ writer_offset' = 0
    /\ IF roll THEN \E success \in BOOLEAN : css_logger_new_file(ws, 0, success)
               ELSE writer' = 0 /\ wstate' = ws /\ UNCHANGED <<files, newest>>

\* The part of css_logger_dump_to_file under the mutex, for a buffer with text:
\* n characters and, as far as the lines logged tell, the lines ls.  uv_fs_write
\* may refuse.  The memory and missed are left to the caller.
Dump(n, should_close, ls) ==
    LET total == writer_offset + n
        roll  == total > MaxFileSize
        close == should_close \/ roll
        write == [base |-> buffer, len |-> n, writer |-> writer, close |-> close,
                  lines |-> ls, turn |-> rotations]
    IN  /\ buffer' = NextBuffer /\ bindex' = NextBuffer + 1
        /\ offset' = 0
        /\ held' = {} /\ rotations' = rotations + 1
        /\ \E accepted \in BOOLEAN :
            LET ws == IF accepted \/ ~close THEN wstate ELSE Closing(wstate, writer)
            IN  /\ writes' = IF accepted THEN writes \cup {write} ELSE writes
                /\ IF close THEN LeaveWriter(ws, roll)
                   ELSE /\ writer_offset' = total
                        /\ UNCHANGED <<writer, wstate, files, newest>>

\* The first character of the buffer that becomes the current one is cleared.
Cleared(m) == [m EXCEPT ![Start(NextBuffer)] = NUL]

\* The file is gone: the text in the buffer is dropped.
DropText ==
    /\ offset' = 0 /\ held' = {}
    /\ UNCHANGED <<fileVars, buffer, bindex, writes, rotations>>

\* css_logger_log_inner up to the mutex.  Other lines are for the console only.
css_logger_log_inner(t) ==
    /\ At(t, "idle")
    /\ status = "INIT" /\ writer # 0
    /\ count < MaxLines
    /\ count' = count + 1
    /\ \E n \in Lengths : line' = [line EXCEPT ![t] = [number |-> count + 1, length |-> n]]
    /\ pc' = [pc EXCEPT ![t] = "log"]
    /\ UNCHANGED <<status, timer, work, fileVars, bufferVars, len>>

\* The line fits; a buffer that is nearly full is dumped.
LogFitting(l) ==
    LET size == offset + l.length
        lines == held \cup {[line |-> l, at |-> offset]}
        m == Put(mem, Start(buffer) + offset, Text(l))
    IN  /\ l.length < BufSize - offset
        /\ \/ /\ size <= dump_to_file_size
              /\ mem' = m /\ offset' = size /\ held' = lines
              /\ UNCHANGED <<fileVars, buffer, bindex, writes, rotations>>
              /\ UNCHANGED missed
           \/ /\ size > dump_to_file_size /\ writer # 0
              /\ mem' = Cleared(m) /\ missed' = {}
              /\ Dump(size, FALSE, lines)
           \/ /\ size > dump_to_file_size /\ writer = 0
              /\ mem' = m /\ missed' = {}
              /\ DropText

\* vsnprintf cuts what does not fit off.
Cut(l, room) == IF l.length < room THEN Text(l)
                ELSE SubSeq(Text(l), 1, room - 1) \o <<NUL>>

\* A bug to tell apart: the line that was tried again counts.
LogRetried_Counts(l) ==
    LET p == Start(buffer) + offset
        m == Put(mem, p, Cut(l, BufSize - offset))
    IN  /\ l.length >= BufSize - offset
        /\ offset > 0 /\ writer # 0
        /\ mem' = Put(Cleared(m), p, Cut(l, BufSize))
        /\ buffer' = NextBuffer /\ bindex' = NextBuffer + 1
        /\ offset' = l.length
        /\ held' = {[line |-> l, at |-> 0]} /\ missed' = {}
        /\ rotations' = rotations + 1
        /\ UNCHANGED <<fileVars, writes>>

\* The line does not fit: the buffer is dumped and the line tried again, at the
\* place it was tried before, which is behind the end of what the next dump takes:
\* the offset does not count it.
LogRetried(l) ==
    LET p == Start(buffer) + offset
        m == Put(mem, p, Cut(l, BufSize - offset))
    IN  /\ l.length >= BufSize - offset
        /\ missed' = (IF offset = 0 THEN missed ELSE {}) \cup {l}
        /\ \/ /\ offset = 0 \/ writer = 0
              /\ mem' = Put(m, p, Cut(l, BufSize))
              /\ DropText
           \/ /\ offset > 0 /\ writer # 0
              /\ mem' = Put(Cleared(m), p, Cut(l, BufSize))
              /\ Dump(offset, FALSE, held)

\* css_logger_log_inner under the mutex.
css_logger_log_locked(t) ==
    /\ At(t, "log")
    /\ LogFitting(line[t]) \/ LogRetried(line[t])
    /\ pc' = [pc EXCEPT ![t] = "idle"]
    /\ line' = [line EXCEPT ![t] = NoLine]
    /\ UNCHANGED <<status, timer, work, len, count>>

\* css_logger_dump_to_file up to the mutex: the length is read here.
css_logger_dump_to_file(t) ==
    /\ IF writer = 0
       THEN /\ offset' = 0 /\ held' = {} /\ missed' = {}
            /\ UNCHANGED <<pc, len>>
       ELSE /\ len' = [len EXCEPT ![t] = offset]
            /\ pc' = [pc EXCEPT ![t] = "dump"]
            /\ UNCHANGED <<offset, held, missed>>
    /\ UNCHANGED <<fileVars, mem, buffer, bindex, writes, rotations, line, count>>

\* The rest of it, under the mutex.  The writer was checked before.
css_logger_dump_locked(t) ==
    LET should_close == t = Flusher
    IN  /\ At(t, "dump")
        /\ len' = [len EXCEPT ![t] = 0]
        /\ \/ /\ offset = 0 /\ ~should_close
              /\ pc' = [pc EXCEPT ![t] = "idle"]
              /\ UNCHANGED <<fileVars, bufferVars>>
           \/ /\ offset = 0 /\ should_close /\ writer # 0
              /\ pc' = [pc EXCEPT ![t] = "idle"]
              /\ wstate' = Closing(wstate, writer)
              /\ UNCHANGED <<writer, writer_offset, files, newest, bufferVars>>
           \/ /\ offset > 0 /\ writer # 0
              /\ pc' = [pc EXCEPT ![t] = "idle"]
              /\ mem' = Cleared(mem) /\ missed' = {}
              /\ Dump(len[t], should_close, held)
           \/ /\ offset > 0 \/ should_close
              /\ writer = 0
              /\ pc' = [pc EXCEPT ![t] = "crash"]
              /\ UNCHANGED <<fileVars, bufferVars>>
        /\ UNCHANGED <<status, timer, line, count>>

\* The worker's function has returned when it has dumped.
FlushReturns(t) == work' = IF t = Flusher THEN "done" ELSE work

\* css_logger_dump_to_file_cb: the timer expires.
css_logger_dump_to_file_cb ==
    /\ At(Loop, "idle") /\ timer
    /\ css_logger_dump_to_file(Loop)
    /\ UNCHANGED <<status, timer, work>>

\* after_write_logger_cb, after_write_logger_and_close_cb.
after_write_logger_cb(w) ==
    /\ At(Loop, "idle")
    /\ writes' = writes \ {w}
    /\ wstate' = IF w.close THEN Closing(wstate, w.writer) ELSE wstate
    /\ UNCHANGED <<status, timer, work, writer, writer_offset, files, newest,
                   mem, buffer, bindex, offset, held, missed, rotations, threadVars>>

after_roll_logger_cb(w) ==
    /\ At(Loop, "idle")
    /\ wstate[w] = "closing"
    /\ wstate' = [wstate EXCEPT ![w] = "freed"]
    /\ UNCHANGED <<status, timer, work, writer, writer_offset, files, newest,
                   bufferVars, threadVars>>

-----------------------------------------------------------------------------
(* The end.                                                                *)

css_logger_close ==
    /\ At(Loop, "idle") /\ status = "INIT"
    /\ status' = "UNINIT"
    /\ timer' = FALSE
    /\ work' = IF timer THEN "queued" ELSE work
    /\ UNCHANGED <<fileVars, bufferVars, threadVars>>

css_logger_flush_to_file ==
    /\ At(Flusher, "idle") /\ work = "queued"
    /\ work' = IF writer = 0 THEN "done" ELSE "running"
    /\ css_logger_dump_to_file(Flusher)
    /\ UNCHANGED <<status, timer>>

css_logger_close_file ==
    /\ At(Loop, "idle") /\ work = "done"
    /\ work' = "none"
    /\ offset' = 0 /\ held' = {} /\ missed' = {}
    /\ UNCHANGED <<status, timer, fileVars, mem, buffer, bindex, writes, rotations,
                   threadVars>>

-----------------------------------------------------------------------------
DumpNext(t) == css_logger_dump_locked(t) /\ FlushReturns(t)

Next ==
    \/ css_logger_start
    \/ css_logger_close
    \/ css_logger_dump_to_file_cb
    \/ css_logger_flush_to_file
    \/ css_logger_close_file
    \/ \E t \in Threads : css_logger_log_inner(t) \/ css_logger_log_locked(t)
    \/ \E t \in Threads \cup {Flusher} : DumpNext(t)
    \/ \E w \in writes : after_write_logger_cb(w)
    \/ \E w \in DOMAIN wstate : after_roll_logger_cb(w)

Spec == Init /\ [][Next]_vars

\* The loop runs expired timers and the callbacks of finished work, the pool
\* executes what it is handed, and a thread in front of the mutex gets in.
Fairness ==
    /\ WF_vars(css_logger_dump_to_file_cb)
    /\ WF_vars(css_logger_flush_to_file)
    /\ WF_vars(css_logger_close_file)
    /\ \A t \in Threads : WF_vars(css_logger_log_locked(t))
    /\ \A t \in Threads \cup {Flusher} : WF_vars(DumpNext(t))
    /\ WF_vars(\E w \in writes : after_write_logger_cb(w))
    /\ WF_vars(\E w \in DOMAIN wstate : after_roll_logger_cb(w))

FairSpec == Spec /\ Fairness

-----------------------------------------------------------------------------
(* Properties.                                                             *)

\* The text of the line a stands in buffer b where it was put.
Stands(a, b) ==
    \A i \in 1 .. a.line.length :
        mem[Start(b) + a.at + i - 1] = <<a.line.number, i>>

\* Each of the first n characters belongs to one of the lines ls.
Tiled(ls, n) ==
    \A p \in 0 .. n - 1 :
        Cardinality({a \in ls : a.at <= p /\ p < a.at + a.line.length}) = 1

\* The lines that would fit an empty buffer.
Short(lines) == {l \in lines : l.length < BufSize}

\* Of the lines logged since the buffer was emptied, all but one at the most make
\* up the text in it that offset counts, whole and one after the other, whatever
\* other threads log and dump.  The one is that which did not fit the buffer
\* before: it is tried again at its old place, where no dump takes it up, and
\* disturbs no other (css_logger_log_inner under the mutex).
BufferHoldsLines ==
    /\ Tiled(held, offset)
    /\ \A a \in held : a.at + a.line.length <= offset /\ Stands(a, buffer)
    /\ Cardinality(Short(missed)) <= 1

\* "2. retry." and "3. ignore log when has no buffer also!!": after the dump a line
\* is ignored only if an empty buffer is too small for it (css_logger_log_inner).
RetriedLineIsKept == Short(missed) = {}

\* A buffer that the pool may be reading keeps its text until the buffers have
\* rotated twice more (the three buffers of css_logger_dump_to_file), or once
\* more when the file is lost: then a line that does not fit is tried again where
\* it did not, and runs on into the next buffer (css_logger_log_inner).
InFlightUntouched ==
    \A w \in writes :
        rotations - w.turn < (IF writer = 0 THEN Buffers - 1 ELSE Buffers) =>
            \A a \in w.lines : Stands(a, w.base)

\* While the logger runs, its writer is none that is closed or freed
\* (should_roll_log in css_logger_dump_to_file).
WriterUsable ==
    status = "INIT" /\ writer # 0 => wstate[writer] \in {"open", "unset"}

\* A name with a higher number is an older file, whichever call of a rotation
\* fails.
FilesInOrder == NewestFirst(files)

\* A rotation loses no file but the oldest one, and that when every name is
\* taken (css_logger_rename_old_logs).
OnlyOldestLost ==
    [][\A a \in Ages(files) \ Ages(files') :
        /\ a = files[MaxFiles - 1]
        /\ \A g \in Ages(files) : a <= g]_vars

\* Text does not stay in the buffer while the logger runs: somebody dumps it
\* (css_logger_start_timer), or the process has crashed.
TextLeavesBuffer ==
    offset > 0 /\ status = "INIT" ~>
        offset = 0 \/ status = "UNINIT" \/ \E t \in DOMAIN pc : pc[t] = "crash"

\* "write to buffer first, dump to file latter.": a dump carries the lines of
\* the buffer, each to its end, and nothing else.
DumpsTheBuffer ==
    \A w \in writes :
        /\ \A a \in w.lines : a.at + a.line.length <= w.len
        /\ Tiled(w.lines, w.len)
===============================================================================
