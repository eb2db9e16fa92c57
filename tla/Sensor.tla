-------------------------------- MODULE Sensor --------------------------------
(***************************************************************************)
(* The sensor in the shadow container (sensor/src): it runs a sample under *)
(* strace, drops the shell's own execve from the trace and turns the other *)
(* lines into events.                                                      *)
(*                                                                         *)
(* A system call is a record of what the trace shows of it; a trace is a   *)
(* sequence of lines, each a call and the part of it the line prints.  A   *)
(* call that another process interrupts takes two lines.                   *)
(***************************************************************************)
EXTENDS Integers, Sequences, SequencesExt

Execve(path) == [sys |-> "execve", ref |-> path, watched |-> TRUE]

\* O_WRONLY, O_RDWR or O_CREAT among the flags
OpenCall(sys, path, writes) == [sys |-> sys, ref |-> path, watched |-> writes]

\* an AF_INET address; other families print none
Connect(addr, inet) == [sys |-> "connect", ref |-> addr, watched |-> inet]

RootExecve == Execve("bash")

\* what strace -f writes for the shell and then calls, those in split
\* interrupted by the next call
StraceLog(calls, split) ==
  LET Start(i) == << [call |-> calls[i],
                      part |-> IF i \in split THEN "unfinished" ELSE "whole"] >>
      Rest(i) == IF i \in split THEN << [call |-> calls[i], part |-> "resumed"] >> ELSE << >>
      Lines(i) == Start(i) \o (IF i > 1 THEN Rest(i - 1) ELSE << >>)
  IN << [call |-> RootExecve, part |-> "whole"] >>
     \o FlattenSeq([i \in DOMAIN calls |-> Lines(i)])
     \o (IF calls = << >> THEN << >> ELSE Rest(Len(calls)))

\* Mutant: every execve line is removed
StripRootExecve_All(log) ==
  LET IsOther(line) == line.call.sys # "execve" IN SelectSeq(log, IsOther)

\* tracer.rs: only the first execve line is removed
StripRootExecve(log) ==
  LET IsExecve(line) == line.call.sys = "execve" /\ line.part # "resumed"
  IN RemoveFirstMatch(log, IsExecve)

EventType ==
  [execve |-> "process_spawn", openat |-> "file_write", open |-> "file_write",
   connect |-> "network_connect"]

EventOf(call) == [event_type |-> EventType[call.sys], ref |-> call.ref]

\* the expressions match the head of a call, so "<... resumed>" lines match none
ParseLine(line) ==
  IF line.part # "resumed" /\ line.call.watched
  THEN << EventOf(line.call) >>
  ELSE << >>

\* parser.rs: one event per line that matches, in the order of the trace
ParseTraceLog(log) == FlattenSeq([i \in DOMAIN log |-> ParseLine(log[i])])

\* what a sample's calls ought to be reported as, whatever strace makes of them
Reported(calls) ==
  FlattenSeq([i \in DOMAIN calls |-> IF calls[i].watched THEN << EventOf(calls[i]) >> ELSE << >>])
===============================================================================
