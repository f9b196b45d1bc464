------------------------------- MODULE LogFiles -------------------------------
(***************************************************************************)
(* The log directory of src/src/common/css_logger.c: files named           *)
(* 0.log, 1.log, ... with 0.log the one that is written.  A file is known  *)
(* by its age: a number that grows with every file created.                *)
(***************************************************************************)
EXTENDS Integers

CONSTANT MaxFiles   \* MAX_LOGGER_FILES_LEN

ASSUME FilesAssumption == MaxFiles \in Nat \ {0}

Names == 0 .. MaxFiles - 1

Absent == 0

\* A directory: the age of the file with each name, if there is one.
Directories == [Names -> Nat]

Ages(files) == {files[n] : n \in Names} \ {Absent}

\* What the renaming loop moves, when the call for the name f fails; f = -1 when
\* none does.  The loop goes from the highest name down, one name up, and the
\* highest is unlinked: names up to f keep their file.
RenamedAbove(files, f) ==
    [n \in Names |-> IF n <= f THEN files[n]
                     ELSE IF n = f + 1 THEN Absent
                     ELSE files[n - 1]]

\* A bug to tell apart: the loop goes up, and each file overwrites the next.
css_logger_rename_old_logs_Upwards(files, f) ==
    [n \in Names |-> IF n = 0 THEN Absent ELSE files[0]]

\* A bug to tell apart: the highest name is moved to the lowest.
css_logger_rename_old_logs_Around(files, f) ==
    [n \in Names |-> files[(n + MaxFiles - 1) % MaxFiles]]

\* A failing call ends the loop with an error; only files that exist are moved.
css_logger_rename_old_logs(files, f) ==
    IF f = -1 \/ files[f] # Absent THEN RenamedAbove(files, f) ELSE files

\* A lower name is a younger file.
NewestFirst(files) ==
    \A m, n \in Names :
        m < n /\ files[m] # Absent /\ files[n] # Absent => files[m] > files[n]
===============================================================================
