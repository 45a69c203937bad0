---------------------------- MODULE MCCleanTool ----------------------------
(* The command lines of the instance: one for each way through the tool.   *)
(* Plain `clean` is the part of `serve` that follows the repair.           *)
EXTENDS CleanTool

CommandLine(tool, all, force, reload) ==
    [tool |-> tool, all |-> all, force |-> force, reload |-> reload]

Commands ==
    {CommandLine("clean", TRUE, FALSE, TRUE),
     CommandLine("restore", FALSE, TRUE, FALSE),
     CommandLine("serve", FALSE, FALSE, FALSE),
     CommandLine("doctor", FALSE, TRUE, TRUE)}

(* `cam-shim clean`, with no option *)
PlainClean == {CommandLine("clean", FALSE, FALSE, FALSE)}
=============================================================================
