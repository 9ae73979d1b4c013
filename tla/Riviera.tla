------------------------------- MODULE Riviera -------------------------------
(***************************************************************************)
(* riviera.py, extract_markdown: one file is converted to Markdown by an   *)
(* asynchronous job, which is polled with growing pauses up to a deadline. *)
(*                                                                         *)
(* Time is counted from the launch.  The job is Dropbox's: it has ended   *)
(* when it is due; each check takes up to CallTime.                        *)
(***************************************************************************)
EXTENDS Integers

CONSTANTS
    Timeout,        \* file_contents.timeout_seconds
    MaxDelay,       \* the longest pause between two checks: 10
    CallTime        \* bound: how long a check may take

\* Assumed by Programs.
RivieraAssumption ==
    Timeout \in Nat \ {0} /\ MaxDelay \in Nat \ {0} /\ CallTime \in Nat

VARIABLES
    polling,        \* "off", "check", "sleep"
    due,            \* Dropbox: when the job ends
    clock,          \* monotonic_clock() since the launch
    delay,
    answer          \* what extract_markdown returned, or "raised"; "none" meanwhile

rivieraVars == <<polling, due, clock, delay, answer>>

\* A job that has ended shows a text, an error of the file or a status that is not known,
\* or an error of Riviera itself, which normalize_markdown_failure raises.
Normalized == {"succeeded", "failed", "raised"}
Answers == Normalized \cup {"timed_out"}

Least(a, b) == IF a < b THEN a ELSE b

RivieraInit ==
    /\ polling = "off"
    /\ due = 0 /\ clock = 0 /\ delay = 1
    /\ answer = "none"

Launch ==
    /\ polling = "off" /\ answer = "none"
    /\ polling' = "check"
    /\ due' \in 0 .. (Timeout + CallTime)
    /\ clock' = 0
    /\ delay' = 1
    /\ UNCHANGED answer

Check ==
    /\ polling = "check" /\ clock < Timeout
    /\ clock' \in clock .. (clock + CallTime)
    /\ IF due <= clock
         THEN polling' = "off" /\ answer' \in Normalized
         ELSE polling' = "sleep" /\ UNCHANGED answer
    /\ UNCHANGED <<due, delay>>

\* Mutant: pauses go on growing.
PauseUncapped ==
    /\ polling = "sleep" /\ clock < Timeout
    /\ clock' = clock + Least(delay, Timeout - clock)
    /\ delay' = 2 * delay
    /\ polling' = "check"
    /\ UNCHANGED <<due, answer>>

\* Mutant: the pause is not cut at the deadline.
PausePastDeadline ==
    /\ polling = "sleep" /\ clock < Timeout
    /\ clock' = clock + delay
    /\ delay' = Least(2 * delay, MaxDelay)
    /\ polling' = "check"
    /\ UNCHANGED <<due, answer>>

\* The pause is cut at the deadline; the next one is twice as long, up to MaxDelay.
Pause ==
    /\ polling = "sleep" /\ clock < Timeout
    /\ clock' = clock + Least(delay, Timeout - clock)
    /\ delay' = Least(2 * delay, MaxDelay)
    /\ polling' = "check"
    /\ UNCHANGED <<due, answer>>

\* The deadline has come, before a check or after one that took too long.
Expire ==
    /\ polling # "off" /\ clock >= Timeout
    /\ polling' = "off"
    /\ answer' = "timed_out"
    /\ UNCHANGED <<due, clock, delay>>

\* The answer is taken, or nobody asks for it any more.
Taken ==
    /\ polling' = "off" /\ answer' = "none"
    /\ due' = 0 /\ clock' = 0 /\ delay' = 1

Poll == Check \/ Pause \/ Expire

-----------------------------------------------------------------------------
RivieraTypeOK ==
    /\ polling \in {"off", "check", "sleep"}
    /\ due \in Nat
    /\ clock \in Nat
    /\ delay \in 1 .. MaxDelay
    /\ answer \in Answers \cup {"none"}
    /\ polling # "off" => answer = "none"

\* The deadline is not overrun by more than the call that was under way; and only a job
\* that ended less than a pause and a call before the deadline, or after it, is given up:
\* there is no check at the deadline itself, but the pause before it is a short one.
AnswersInTime ==
    /\ clock <= Timeout \/ clock < Timeout + CallTime
    /\ answer = "timed_out" => due + MaxDelay + CallTime > Timeout
=============================================================================
