-------------------------------- MODULE CLI ---------------------------------
(***************************************************************************)
(* The two kinds of owner a Devourer has: main() of the command line tool  *)
(* (apps/cli.cc), which makes its calls in one fixed order and maps every  *)
(* outcome to an exit status, and a client of the library, which makes any *)
(* call in any order.                                                      *)
(*                                                                         *)
(* The vendored option parser is external: `opt' is what it found.  An     *)
(* error or -h ends the process inside the parser, before these steps.     *)
(***************************************************************************)
EXTENDS Devourer

VARIABLES
  main,   \* what main() is doing
  opt     \* the parsed options, constant; NoOptions where there are none

vars == <<devVars, main, opt>>

(* -f host:port may hold a port that is no number.                         *)
Options == [version : BOOLEAN, read_file : BOOLEAN, interface : BOOLEAN,
            output : BOOLEAN, fluentd : {"unset", "valid", "invalid"}]

NoOptions == [version |-> FALSE, read_file |-> FALSE, interface |-> FALSE,
              output |-> FALSE, fluentd |-> "unset"]

Ended ==
  {"success",   \* exit(EXIT_SUCCESS)
   "failure",   \* exit(EXIT_FAILURE)
   "aborted",   \* an exception left main()
   "killed"}    \* a NULL pointer was used

Running ==
  {"parsed",     \* the options are parsed
   "construct",  \* in new Devourer
   "output", "fluentd", "start",  \* in the try block, at that call
   "running"}    \* in start()

CLITypeOK ==
  /\ TypeOK
  /\ main \in Running \union Ended \union {"library"}
  /\ opt \in Options

CLIInit ==
  /\ Init
  /\ \/ main = "parsed" /\ opt \in Options
     \/ main = "library" /\ opt = NoOptions

-----------------------------------------------------------------------------
(* A definition named ...Wrong is the one that follows it with a plausible *)
(* slip, as in Devourer.tla.                                               *)

(* -v ends the program, with success, whatever else is asked for.          *)
ShowVersion ==
  /\ main = "parsed" /\ opt.version
  /\ main' = "success"
  /\ UNCHANGED devVars

Unspecified ==
  /\ main = "parsed" /\ ~opt.version /\ ~opt.read_file /\ ~opt.interface
  /\ main' = "failure"
  /\ UNCHANGED devVars

(* -r has precedence over -i.                                              *)
Construct ==
  /\ main = "parsed" /\ ~opt.version
  /\ opt.read_file \/ opt.interface
  /\ New(IF opt.read_file THEN "PCAP_FILE" ELSE "INTERFACE")
  /\ main' = "construct"

(* `new Devourer' is not in the try block: what it throws leaves main().   *)
Constructing ==
  /\ main = "construct"
  /\ InstallModule \/ InstallThrows
  /\ main' = IF threw' THEN "aborted"
             ELSE IF at' = "idle" THEN "output"
             ELSE main

Output ==
  /\ main = "output"
  /\ IF opt.output THEN SetdstFilestream ELSE UNCHANGED devVars
  /\ main' = "fluentd"

(* Whoever gave a bad port is asked again, with the same options.          *)
FluentdRetriesWrong ==
  /\ main = "fluentd"
  /\ IF opt.fluentd = "unset" THEN UNCHANGED devVars
                              ELSE SetdstFluentd(opt.fluentd = "valid")
  /\ main' = IF threw' THEN "fluentd" ELSE "start"

(* An exception of setdst_fluentd() is caught where it was called.         *)
FluentdCaughtWrong ==
  /\ main = "fluentd"
  /\ IF opt.fluentd = "unset" THEN UNCHANGED devVars
                              ELSE SetdstFluentd(opt.fluentd = "valid")
  /\ main' = "start"

Fluentd ==
  /\ main = "fluentd"
  /\ IF opt.fluentd = "unset" THEN UNCHANGED devVars
                              ELSE SetdstFluentd(opt.fluentd = "valid")
  /\ main' = IF threw' THEN "failure" ELSE "start"

CallStart ==
  /\ main = "start"
  /\ StartUnready \/ Start
  /\ main' = IF threw' THEN "failure" ELSE "running"

(* The catch block falls through to "return true".                         *)
InStartFallsThroughWrong(step) ==
  /\ main = "running"
  /\ step
  /\ main' = CASE at' = "crashed" -> "killed"
               [] at' = "idle" -> "success"
               [] OTHER -> main

(* A step inside start(); when start() has ended, so has main().           *)
InStart(step) ==
  /\ main = "running"
  /\ step
  /\ main' = CASE at' = "crashed" -> "killed"
               [] at' = "idle" /\ threw' -> "failure"
               [] at' = "idle" /\ ~threw' -> "success"
               [] OTHER -> main

(* What main() does without waiting for packets or for their end.          *)
MainStep ==
  /\ UNCHANGED opt
  /\ \/ ShowVersion \/ Unspecified \/ Construct \/ Constructing
     \/ Output \/ Fluentd \/ CallStart
     \/ InStart(SetupModule \/ SetupThrows \/ Run)

MainCaptureEnds == UNCHANGED opt /\ InStart(CaptureEnds)

MainRecv == UNCHANGED opt /\ \E pkt \in Packet : InStart(Recv(pkt))

LibraryStep == main = "library" /\ DevNext /\ UNCHANGED <<main, opt>>

CLINext == MainStep \/ MainCaptureEnds \/ MainRecv \/ LibraryStep

CLISpec == CLIInit /\ [][CLINext]_vars

(* main() is executed, and a file has an end.                              *)
Fairness ==
  /\ WF_vars(MainStep)
  /\ WF_vars(MainCaptureEnds /\ src = "PCAP_FILE")

FairCLISpec == CLISpec /\ Fairness

-----------------------------------------------------------------------------
(* The exit status tells whether packets were captured: EXIT_SUCCESS only  *)
(* after -v or a start() that captured and returned, EXIT_FAILURE only if  *)
(* no capture ran, whichever call failed.                                  *)
StatusTellsOutcome ==
  /\ main = "success" => opt.version \/ (started /\ at = "idle" /\ ~threw)
  /\ main = "failure" => ~started

AskedDests ==
  (IF opt.output THEN {"dumpfile"} ELSE {}) \union
  (IF opt.fluentd # "unset" THEN {"forward"} ELSE {})

(* No packet is captured before every destination that was asked for is    *)
(* set: otherwise its messages would be lost without an error.             *)
DestinationsBeforeCapture ==
  main = "running" => dests = AskedDests

(* Each way through main() ends the program; only the capture of an        *)
(* interface may go on for ever.                                           *)
MainEnds ==
  main = "parsed" ~> (main \in Ended \/ (at = "capture" /\ src = "INTERFACE"))

(* README.md:8, "Response loss rate": when the program has ended without   *)
(* an error, each captured request was answered or reported as lost.       *)
LossesReported == main = "success" => unanswered = {}

-----------------------------------------------------------------------------
(* The inductive invariant behind StatusTellsOutcome,                      *)
(* DestinationsBeforeCapture and LossesSent.                               *)

(* Where main() stands tells how far its object came and what it has set.  *)
MainInStep ==
  /\ main = "parsed" => at = "none" /\ ~threw /\ ~started /\ dests = {}
  /\ main = "construct" => at = "install" /\ ~threw /\ ~started /\ dests = {}
  /\ main \in {"output", "fluentd", "start"} => at = "idle" /\ ~started
  /\ main = "output" => dests = {}
  /\ main = "fluentd" => dests = (IF opt.output THEN {"dumpfile"} ELSE {})
  /\ main \in {"start", "running"} => dests = AskedDests
  /\ main = "running" => at \in {"setup", "capture"} /\ ~threw
  /\ main = "running" /\ at = "setup" => ~started

OwnerInv == CLITypeOK /\ LifeInv /\ Flushing /\ MainInStep /\ StatusTellsOutcome

=============================================================================
