------------------------------- MODULE FileRotator -------------------------------
(***************************************************************************)
(* The file output of libbeat (outputs/fileout/file.go).  Events are       *)
(* appended as lines to the file number 0; when it is full, and before the *)
(* first line after a start, Rotate moves every file n to n + 1 and starts *)
(* a new file 0, and the oldest file goes.                                 *)
(*                                                                         *)
(* Each system call is a step: the process may be killed between any two,  *)
(* and each may fail.  The directory survives the process.                 *)
(***************************************************************************)
EXTENDS Integers, Sequences, FiniteSets

CONSTANTS
    KeepFiles,          \* number_of_files
    RotateEvery,        \* rotate_every_kb, in lines
    RotatorMaxFiles,    \* 1000 in the code
    MaxFaults           \* bound: steps in which a system call fails

ASSUME RotatorAssumption ==
    /\ KeepFiles \in 2 .. RotatorMaxFiles - 1       \* CheckIfConfigSane
    /\ RotatorMaxFiles \in Nat /\ RotateEvery \in Nat \ {0} /\ MaxFaults \in Nat

VARIABLES
    files,          \* the lines of each file that exists, by number
    current,        \* rotator.current: nil, or a handle that is open or closed
    current_size,
    rpc,            \* where WriteLine stands
    file_no,        \* the loop variable of the shift
    line,           \* the line to be written
    faults,
    refused         \* History: why Rotate said "File exists, when rotating would overwrite it"

fileVars == <<files, current, current_size, rpc, file_no, line, faults, refused>>

\* Any error of os.Stat but "does not exist" counts as a file that is there.
FileExists(n, statFails) == n \in DOMAIN files \/ statFails
Without(n) == [m \in DOMAIN files \ {n} |-> files[m]]

\* A system call fails: WriteLine returns an error and the line is lost.
Fault ==
    /\ faults < MaxFaults
    /\ faults' = faults + 1
    /\ rpc' = "idle"

shouldRotate == current = "nil" \/ current_size >= RotateEvery

WriteLine(e) ==
    /\ rpc = "idle"
    /\ line' = e
    /\ rpc' = IF shouldRotate THEN "close" ELSE "write"
    /\ UNCHANGED <<files, current, current_size, file_no, faults, refused>>

\* The handle is gone even if Close fails; closing it again is an error.
RotateClose ==
    /\ rpc = "close"
    /\ current' = IF current = "nil" THEN "nil" ELSE "closed"
    /\ \/ current # "closed" /\ rpc' = "extra" /\ UNCHANGED faults
       \/ current = "closed" /\ rpc' = "idle" /\ UNCHANGED faults
       \/ current = "open" /\ Fault
    /\ UNCHANGED <<files, current_size, file_no, line, refused>>

\* Mutant: the extra files are left alone.
RotateExtraKept ==
    /\ rpc = "extra"
    /\ rpc' = "shift" /\ file_no' = KeepFiles - 1
    /\ UNCHANGED <<files, current, current_size, line, faults, refused>>

\* "delete any extra files, normally we shouldn't have any", in ascending order; a
\* file that is not there and whose stat fails cannot be removed either.
RotateExtra ==
    LET extra == {n \in DOMAIN files : KeepFiles <= n /\ n < RotatorMaxFiles} IN
    /\ rpc = "extra"
    /\ \/ /\ extra = {}
          /\ rpc' = "shift" /\ file_no' = KeepFiles - 1
          /\ UNCHANGED <<files, faults>>
       \/ \E n \in extra : (\A m \in extra : n <= m) /\ files' = Without(n)
          /\ UNCHANGED <<rpc, file_no, faults>>
       \/ Fault /\ UNCHANGED <<files, file_no>>
    /\ UNCHANGED <<current, current_size, line, refused>>

\* os.Rename
Renamed(n) == [m \in (DOMAIN files \ {n}) \cup {n + 1} |->
                  IF m = n + 1 THEN files[n] ELSE files[m]]

\* Mutant: the shift ends before file 0.
RotateShiftNotFirst ==
    /\ rpc = "shift"
    /\ file_no' = file_no - 1
    /\ rpc' = IF file_no <= 1 THEN "create" ELSE "shift"
    /\ files' = IF file_no \in DOMAIN files THEN Renamed(file_no) ELSE files
    /\ UNCHANGED <<current, current_size, line, faults, refused>>

\* "shift all files from last to first": one round of the loop, in which the stat of
\* the file, that of the next one, and the rename may fail.
RotateShift ==
    \E failing \in SUBSET {"stat", "statNext", "rename"} :
    LET there == FileExists(file_no, "stat" \in failing)
        blocked == there /\ FileExists(file_no + 1, "statNext" \in failing)
        renamed == there /\ ~blocked /\ file_no \in DOMAIN files /\ "rename" \notin failing
        cause == IF failing \cap {"stat", "statNext"} = {} THEN "strange" ELSE "unread"
    IN
    /\ rpc = "shift"
    /\ failing # {} => faults < MaxFaults
    /\ faults' = IF failing = {} THEN faults ELSE faults + 1
    /\ files' = IF renamed THEN Renamed(file_no) ELSE files
    /\ refused' = IF blocked THEN refused \cup {cause} ELSE refused
    /\ file_no' = file_no - 1
    /\ rpc' = IF there /\ ~renamed THEN "idle" ELSE IF file_no = 0 THEN "create" ELSE "shift"
    /\ UNCHANGED <<current, current_size, line>>

\* os.Create, which truncates a file that exists.
RotateCreate ==
    /\ rpc = "create"
    /\ \/ /\ files' = [m \in DOMAIN files \cup {0} |-> IF m = 0 THEN <<>> ELSE files[m]]
          /\ current' = "open" /\ current_size' = 0
          /\ rpc' = "trim"
          /\ UNCHANGED faults
       \/ Fault /\ UNCHANGED <<files, current, current_size>>
    /\ UNCHANGED <<file_no, line, refused>>

\* "delete the extra file, ignore errors here"
RotateTrim ==
    /\ rpc = "trim"
    /\ \/ files' = Without(KeepFiles) /\ UNCHANGED faults
       \/ /\ KeepFiles \in DOMAIN files /\ faults < MaxFaults
          /\ faults' = faults + 1 /\ UNCHANGED files
    /\ rpc' = "write"
    /\ UNCHANGED <<current, current_size, file_no, line, refused>>

\* The line and its end are written; on an error part of the line may be there,
\* and current_size does not count it.  (A closed handle has a current_size that
\* leads to Rotate, never here.)
Write ==
    /\ rpc = "write" /\ current = "open"
    /\ \/ /\ files' = [files EXCEPT ![0] = Append(@, line)]
          /\ current_size' = current_size + 1
          /\ rpc' = "idle" /\ UNCHANGED faults
       \/ /\ Fault
          /\ \E partly \in BOOLEAN :
              files' = IF partly THEN [files EXCEPT ![0] = Append(@, line)] ELSE files
          /\ UNCHANGED current_size
    /\ UNCHANGED <<current, file_no, line, refused>>

\* Another start of the process finds the directory as it was left.
RotatorRestart ==
    /\ current' = "nil" /\ current_size' = 0
    /\ rpc' = "idle" /\ file_no' = 0 /\ line' = 0
    /\ UNCHANGED <<files, faults, refused>>

RotateStep == RotateClose \/ RotateExtra \/ RotateShift \/ RotateCreate \/ RotateTrim
RotatorStep == RotateStep \/ Write

\* The directory may hold files of earlier runs, also from a configuration that
\* kept more files; their lines have numbers below 1.
RotatorInit ==
    /\ \E n \in 0 .. RotatorMaxFiles - 1 : files = [m \in 0 .. n - 1 |-> <<-m>>]
    /\ current = "nil" /\ current_size = 0
    /\ rpc = "idle" /\ file_no = 0 /\ line = 0
    /\ faults = 0 /\ refused = {}

-------------------------------------------------------------------------------
\* Rotate never finds a file where it wants to move another one, the case its
\* code calls strange: not after a crash in the middle of a rotation, not after a
\* system call that failed, and not with files left by another configuration.  It
\* gives up with that error only when a stat fails, which FileExists takes for a
\* file.
RefusesOnlyOnFailedStat == "strange" \notin refused
===============================================================================
