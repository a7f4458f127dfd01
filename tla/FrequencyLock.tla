---------------------------- MODULE FrequencyLock ----------------------------
(***************************************************************************)
(* lockGpuFrequency() of arm64.cross.starter/src/greenfield.cpp: the two   *)
(* files that limit the frequency of the processor's governor are set to   *)
(* the same value, one after the other.  Until both are written the        *)
(* governor moves the frequency between the limits as they stand.          *)
(***************************************************************************)
EXTENDS Integers, Sequences

CONSTANT Frequencies   \* a set of natural numbers with 1, which stands for a failed read

VARIABLES cur_freq, min_freq, max_freq,   \* the files of /sys/class/devfreq/gpufreq
          freq,        \* the argument
          curGpuFreq,  \* what has been read from cur_freq
          todo,        \* the limits that remain to be written
          status,
          pc,          \* "read", "open", "write", "done", "thrown"
          misread      \* history: cur_freq could not be read

files == <<cur_freq, min_freq, max_freq>>
vars  == <<files, freq, curGpuFreq, todo, status, pc, misread>>

Init == /\ cur_freq \in Frequencies /\ min_freq \in Frequencies /\ max_freq \in Frequencies
        /\ min_freq <= cur_freq /\ cur_freq <= max_freq
        /\ freq \in Frequencies
        /\ curGpuFreq = 1 /\ todo = <<>> /\ status = TRUE
        /\ pc = "read" /\ misread = FALSE

\* The governor, at any time.
Governor == /\ cur_freq' \in {f \in Frequencies : min_freq <= f /\ f <= max_freq}
            /\ UNCHANGED <<min_freq, max_freq, freq, curGpuFreq, todo, status, pc, misread>>

\* getGpuFrequency(): readULong() returns 1 when it reads nothing.
Read == /\ pc = "read"
        /\ \/ curGpuFreq' = cur_freq /\ UNCHANGED misread
           \/ curGpuFreq' = 1 /\ misread' = TRUE
        /\ pc' = "open"
        /\ UNCHANGED <<files, freq, todo, status>>

\* Mutation of WriteOrder: the upper limit is always written first.
WriteOrderMaxFirst == <<"max", "min">>

\* The limit on the far side of the current frequency is written last.
WriteOrder == IF freq < curGpuFreq THEN <<"min", "max">> ELSE <<"max", "min">>

\* The constructors of maxFreq and minFreq.
Open == /\ pc = "open"
        /\ todo' = WriteOrder
        /\ pc' = "write"
        /\ UNCHANGED <<files, freq, curGpuFreq, status, misread>>

\* A file that cannot be opened, for reading or for writing.
Throw == /\ pc \in {"read", "open"}
         /\ pc' = "thrown"
         /\ UNCHANGED <<files, freq, curGpuFreq, todo, status, misread>>

\* status = status && writeULong(freq)
Write == /\ pc = "write" /\ todo # <<>>
         /\ min_freq' = IF Head(todo) = "min" THEN freq ELSE min_freq
         /\ max_freq' = IF Head(todo) = "max" THEN freq ELSE max_freq
         /\ todo' = Tail(todo)
         /\ UNCHANGED <<cur_freq, freq, curGpuFreq, status, pc, misread>>

\* After a write that fails the other is left out.
WriteFails == /\ pc = "write" /\ todo # <<>>
              /\ status' = FALSE
              /\ todo' = <<>>
              /\ UNCHANGED <<files, freq, curGpuFreq, pc, misread>>

Return == /\ pc = "write" /\ todo = <<>>
          /\ pc' = "done"
          /\ UNCHANGED <<files, freq, curGpuFreq, todo, status, misread>>

Ended == pc \in {"done", "thrown"} /\ UNCHANGED vars

Next == Governor \/ Read \/ Open \/ Throw \/ Write \/ WriteFails \/ Return \/ Ended

Spec == Init /\ [][Next]_vars

-----------------------------------------------------------------------------
(* The limits never cross while they are moved, wherever the governor has  *)
(* taken the frequency since it was read and whichever write fails, and a  *)
(* call that reports success has set both.  A frequency that could not be  *)
(* read is the exception: it counts as 1, so that the upper limit goes     *)
(* first even on its way down, below the lower one, where it stays when    *)
(* the second write fails; the limits cross in no other way.               *)
RangeStands == /\ min_freq > max_freq => misread /\ max_freq = freq
               /\ pc = "done" /\ status => min_freq = freq /\ max_freq = freq
=============================================================================
